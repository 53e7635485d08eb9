------------------------------- MODULE MapSaving -------------------------------
(***************************************************************************)
(* How the mapper writes its map to disk: the /save_map service and the    *)
(* automatic mode of the timer.  Both run in the node's default callback   *)
(* group, so neither overlaps the other or the growth of the map.          *)
(***************************************************************************)
EXTENDS Sequences, Naturals

CONSTANT AutoMode    \* auto_mode.enabled

ASSUME AutoModeAssumption == AutoMode \in BOOLEAN

VARIABLES
  map,        \* pcl_wait_save_intensity_, as the frames added to it
  saved,      \* how many of them map_raw.pcd holds; 0 when there is no file
  started,    \* start_time_ has been set
  silent,     \* more than message_timeout_ since last_message_ros_time_
  triggered,  \* auto_save_triggered_
  response    \* "none", or what the last /save_map call was answered

autoVars == <<started, silent, triggered>>
saveVars == <<saved, autoVars, response>>

SavingInit ==
  /\ map = <<>>
  /\ saved = 0
  /\ started = FALSE
  /\ silent = FALSE
  /\ triggered = FALSE
  /\ response = "none"

(* Only what was added since the last save is written. *)
SaveNew == Len(map) - saved

(* savePCD: an empty map is not written. *)
SavePCD == IF map = <<>> THEN saved ELSE Len(map)

(* The Trigger response as saveMapCallback leaves it: success is false.    *)
Answer == "failure"

(* A call of /save_map. *)
SaveMap ==
  /\ saved' = SavePCD
  /\ response' = Answer
  /\ UNCHANGED <<map, autoVars>>

AutoSaving == AutoMode /\ ~triggered

(* The test of the automatic mode at the head of timer_callback. *)
TimeoutDue == AutoSaving /\ started /\ silent

AutoSave ==
  /\ started' = (started \/ AutoSaving)
  /\ triggered' = (triggered \/ TimeoutDue)
  /\ saved' = IF TimeoutDue THEN SavePCD ELSE saved
  /\ UNCHANGED <<silent, response>>

(* sync_packages returned true: last_message_ros_time_ is now. *)
MessageSynced == silent' = FALSE

(* message_timeout_ goes by without one. *)
Silence ==
  /\ AutoSaving
  /\ started
  /\ silent' = TRUE
  /\ UNCHANGED <<map, saved, started, triggered, response>>

(* A saved file never shrinks and holds a prefix of the map: no save can   *)
(* replace what an earlier one wrote by less (savePCD overwrites the file, *)
(* and the map is never cleared).                                          *)
FileGrows == [][saved' >= saved /\ saved' <= Len(map')]_<<saved, map>>
===============================================================================
