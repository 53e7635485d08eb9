----------------------------- MODULE BagRecorder -----------------------------
(***************************************************************************)
(* The child processes of robot_agent_node: at most one `ros2 bag record`  *)
(* and at most one background bag conversion, both forked and signalled by *)
(* the single executor thread of the node.                                 *)
(*                                                                         *)
(* The operators below are the whole of start_ros2_bag_record,             *)
(* stop_ros2_bag_record and cleanup_ssh_process as that thread sees them:  *)
(* the thread blocks in wait_for_child while it stops a child, so no other *)
(* callback runs in between.  A child may exit by itself at any moment; it *)
(* then stays a zombie, and keeps its pid, until the node waits for it.    *)
(***************************************************************************)
CONSTANTS
  Pids,      \* process ids the kernel hands out
  NoPid      \* the value -1 of recording_pid_ and ssh_conversion_pid_

ASSUME NoPidAssumption == NoPid \notin Pids

VARIABLES
  is_recording,        \* is_recording_
  recording_pid,       \* recording_pid_
  current_bag_name,    \* current_bag_name_, "" or the name of a bag
  ssh_conversion_pid,  \* ssh_conversion_pid_
  proc                 \* the kernel's table of the node's children

bagVars == <<is_recording, recording_pid, current_bag_name,
             ssh_conversion_pid, proc>>

RecorderStates   == {"recorder", "recorder_exited"}
ConversionStates == {"conversion", "conversion_exited"}
ProcStates       == {"none"} \cup RecorderStates \cup ConversionStates

BagTypeOK ==
  /\ is_recording \in BOOLEAN
  /\ recording_pid \in Pids \cup {NoPid}
  /\ current_bag_name \in {"", "nav_bag"}
  /\ ssh_conversion_pid \in Pids \cup {NoPid}
  /\ proc \in [Pids -> ProcStates]

BagInit ==
  /\ is_recording = FALSE
  /\ recording_pid = NoPid
  /\ current_bag_name = ""
  /\ ssh_conversion_pid = NoPid
  /\ proc = [p \in Pids |-> "none"]

------------------------------------------------------------------------------
\* A child that terminates and is waited for leaves the process table.
Reap(table, pids) ==
  [p \in Pids |-> IF p \in pids THEN "none" ELSE table[p]]

\* fork() hands out any pid no living process and no zombie holds.
FreePids(table) == {p \in Pids : table[p] = "none"}

StartBagRecord(enabled) ==
  IF is_recording \/ recording_pid # NoPid \/ ~enabled
  THEN UNCHANGED bagVars
  ELSE /\ current_bag_name' = "nav_bag"
       /\ UNCHANGED ssh_conversion_pid
       /\ \/ UNCHANGED <<is_recording, recording_pid, proc>>  \* fork() failed
          \/ \E p \in FreePids(proc) :
               /\ proc' = [proc EXCEPT ![p] = "recorder"]
               /\ recording_pid' = p
               /\ is_recording' = TRUE

\* The conversion child the stop leaves behind, in a table both old children
\* have been reaped from: none, or a new one under a free pid.
AfterStop(table, convert) ==
  \/ /\ proc' = table                                \* not wanted, or fork() failed
     /\ ssh_conversion_pid' = NoPid
  \/ /\ convert
     /\ \E p \in FreePids(table) :
          /\ proc' = [table EXCEPT ![p] = "conversion"]
          /\ ssh_conversion_pid' = p

RecorderOnly == {recording_pid}    \* mutant: cleanup_ssh_process is not called

\* The children a stop signals and waits for.
StoppedChildren == {recording_pid, ssh_conversion_pid}

StopBagRecord(enabled, convert) ==
  IF ~is_recording \/ recording_pid = NoPid \/ ~enabled
  THEN UNCHANGED bagVars
  ELSE /\ is_recording' = FALSE
       /\ recording_pid' = NoPid
       /\ current_bag_name' = ""
       /\ IF current_bag_name = ""
          THEN UNCHANGED <<ssh_conversion_pid, proc>>
          ELSE AfterStop(Reap(proc, StoppedChildren), convert)

\* ~RobotAgentNode: stop_ros2_bag_record(false), then cleanup_ssh_process;
\* the members die with the object and those of the next process are fresh.
DestroyRecorder(enabled) ==
  LET stopped == is_recording /\ recording_pid # NoPid /\ enabled
                 /\ current_bag_name # ""
      waited  == {ssh_conversion_pid} \cup (IF stopped THEN {recording_pid} ELSE {})
  IN  /\ proc' = Reap(proc, waited)
      /\ is_recording' = FALSE
      /\ recording_pid' = NoPid
      /\ current_bag_name' = ""
      /\ ssh_conversion_pid' = NoPid

\* A recorder or a conversion ends without being asked to.
ChildExits(p) ==
  /\ proc[p] \in {"recorder", "conversion"}
  /\ proc' = [proc EXCEPT ![p] = IF proc[p] = "recorder" THEN "recorder_exited"
                                 ELSE "conversion_exited"]
  /\ UNCHANGED <<is_recording, recording_pid, current_bag_name, ssh_conversion_pid>>

\* The recorder by itself, whoever calls it: what the node promises about its
\* children, with a stop as one step.
BagNext ==
  \/ StartBagRecord(TRUE)
  \/ \E convert \in BOOLEAN : StopBagRecord(TRUE, convert)
  \/ DestroyRecorder(TRUE)
  \/ \E p \in Pids : ChildExits(p)

BagSpec == BagInit /\ [][BagNext]_bagVars

------------------------------------------------------------------------------
\* The flag, the pid and the name of the bag agree, so a stop is never skipped.
FlagMatchesPid ==
  /\ is_recording <=> recording_pid # NoPid
  /\ is_recording => current_bag_name # ""

\* kill() is only ever sent to a child of the right kind that has not been
\* reaped: its pid cannot have been handed to another process.
PidsAreOurs ==
  /\ recording_pid # NoPid => proc[recording_pid] \in RecorderStates
  /\ ssh_conversion_pid # NoPid => proc[ssh_conversion_pid] \in ConversionStates

\* No child escapes: whatever is in the process table is a pid the node holds.
NoOrphanChild ==
  \A p \in Pids : /\ proc[p] \in RecorderStates => p = recording_pid
                  /\ proc[p] \in ConversionStates => p = ssh_conversion_pid

\* The processes and the members that name them always agree: the node never
\* signals a stranger's pid, never loses a child and never runs two recorders,
\* whatever mix of missions, record_start, record_stop and restarts it serves
\* (start_ros2_bag_record, stop_ros2_bag_record, cleanup_ssh_process).
ChildrenTracked == FlagMatchesPid /\ PidsAreOurs /\ NoOrphanChild
==============================================================================
