---------------------------- MODULE MCRobotAgent ----------------------------
(***************************************************************************)
(* Small instances of RobotAgent: two places, one of them the origin, and  *)
(* the parameter sets that make the node behave differently.               *)
(***************************************************************************)
EXTENDS RobotAgent

CONSTANTS O, A, B

MCPlaces == {O, A}
MCFixed == <<A>>
\* A can be reached from O and back: every plan over MCPlaces succeeds.
MCConnected == MCPlaces \X MCPlaces
\* B lies on another part of the map.
MCSplitPlaces == {O, A, B}
MCSplitConnected == {O, A} \X {O, A} \cup {<<B, B>>}

P(mode, debug, record, convert, map) ==
  [mission_mode |-> mode, debug_mode |-> debug, enable_bag_recording |-> record,
   automatic_update_map |-> convert, map_loaded |-> map]

AllCommands == {"target_pose", "start_scan_all", "cancel_nav", "record_start",
                "record_stop", "get_pose", "get_status", "restart"}
UncancelledCommands == {"target_pose", "record_stop"}

\* The deployed file (planning_params.yaml), with map updates switched on.
DeployedParams == {P("single_point", FALSE, TRUE, TRUE, TRUE)}
\* Every mission mode, debug mode and map state, recording off.
EveryMode == {P(m, d, FALSE, FALSE, l) :
               m \in {"single_point", "scan_all", "patrol", "scan_all_fixed"},
               d \in BOOLEAN, l \in BOOLEAN}
AllParams == DeployedParams \cup EveryMode
==============================================================================
