------------------------------ MODULE RobotAgent ------------------------------
(***************************************************************************)
(* robot_agent_node: the node that turns UDP commands into FollowPath      *)
(* goals of Nav2, retries them, records bags while a mission runs and      *)
(* reports the state of the mission.                                       *)
(*                                                                         *)
(* The node is spun by one single-threaded executor, so each callback (a   *)
(* command, a timer, a goal response, a result) is one action.  What       *)
(* interleaves are the callbacks, the FollowPath action server with the    *)
(* messages to and from it, the child processes of BagRecorder, the pose   *)
(* topic and the operator behind the UDP socket.                           *)
(***************************************************************************)
EXTENDS BagRecorder, Integers, Sequences

CONSTANTS
  Places,          \* poses, told apart only as far as planning does
  Origin,          \* the pose default_start_pose.{x,y,z}
  FixedWaypoints,  \* fixed_waypoints_, a sequence of places
  Connected,       \* pairs of places A* finds a path between
  NoPose,          \* current_robot_pose_ before the first pose message
  Goals,           \* identities of FollowPath goals; bounds those outstanding
  NoGoal,          \* current_goal_handle_ == nullptr
  Params,          \* the parameter sets the node may be started with
  Commands         \* what the environment does: the commands it sends, "restart"

ASSUME PlacesAssumption ==
  /\ Origin \in Places
  /\ NoPose \notin Places
  /\ FixedWaypoints \in Seq(Places)
  /\ Connected \subseteq Places \X Places
ASSUME NoGoalAssumption == NoGoal \notin Goals
ASSUME ParamsAssumption ==
  Params \subseteq [mission_mode : STRING, debug_mode : BOOLEAN,
                    enable_bag_recording : BOOLEAN,
                    automatic_update_map : BOOLEAN, map_loaded : BOOLEAN]

VARIABLES
  params,            \* the ROS parameters; map_loaded is !all_poses_.empty()
  navigation_state,  \* navigation_state_
  is_task_active,    \* is_task_active_
  mission_waypoints, \* mission_waypoints_
  retry_timer,       \* retry_timer_ exists and is not cancelled
  debug_timer,       \* debug_timer_ exists and is not cancelled
  robot_pose,        \* current_robot_pose_
  is_goal_active,    \* is_goal_active_
  current_goal_handle, \* current_goal_handle_
  goal,              \* per goal, how far its exchange with the server has come
  outcome,           \* per goal, how the server ended it
  unanswered,        \* goals sent and not yet answered to the node, oldest first
  cancels,           \* goals the node has asked the server to cancel
  reply              \* what the last step published on udp_write_string

missionVars == <<navigation_state, is_task_active, mission_waypoints>>
timerVars   == <<retry_timer, debug_timer>>
handleVars  == <<is_goal_active, current_goal_handle>>
serverVars  == <<goal, outcome, unanswered, cancels>>
agentVars   == <<params, missionVars, timerVars, robot_pose, handleVars,
                 serverVars, reply>>
vars == <<agentVars, bagVars>>

\* A goal is requested, then accepted or refused by the server; once the node
\* has seen the acceptance it awaits the result.
GoalPhases == {"free", "requested", "accepted", "refused", "awaited"}
Outcomes   == {"executing", "SUCCEEDED", "ABORTED", "CANCELED"}

Modes == {"scan_all", "single_point", "patrol"}

Silent  == <<>>
Status  == {"IDLE", "RUNNING", "COMPLETE"}
Replies == {Silent} \cup {<<"status", s>> : s \in Status}
           \cup {<<r>> : r \in
                  {"error task_already_active", "error invalid_target_pose_format",
                   "error no_poses_loaded", "error invalid_mission_mode",
                   "error not_enough_patrol_points_after_verification",
                   "error no_pose_received_yet", "pose", "info mission_complete",
                   "warn recording_feature_disabled", "info recording_started",
                   "warn already_recording", "info recording_stopped_and_converting",
                   "warn not_currently_recording"}}

TypeOK ==
  /\ BagTypeOK
  /\ params \in Params
  /\ navigation_state \in Status
  /\ is_task_active \in BOOLEAN
  /\ mission_waypoints \in Seq(Places)
  /\ retry_timer \in BOOLEAN
  /\ debug_timer \in BOOLEAN
  /\ robot_pose \in Places \cup {NoPose}
  /\ is_goal_active \in BOOLEAN
  /\ current_goal_handle \in Goals \cup {NoGoal}
  /\ goal \in [Goals -> GoalPhases]
  /\ outcome \in [Goals -> Outcomes]
  /\ unanswered \in Seq(Goals)
  /\ cancels \in SUBSET Goals
  /\ reply \in Replies

\* The members as the constructor leaves them, and a client with no goals.
Init ==
  /\ params \in Params
  /\ navigation_state = "IDLE"
  /\ is_task_active = FALSE
  /\ mission_waypoints = <<>>
  /\ retry_timer = FALSE
  /\ debug_timer = FALSE
  /\ robot_pose = NoPose
  /\ is_goal_active = FALSE
  /\ current_goal_handle = NoGoal
  /\ goal = [g \in Goals |-> "free"]
  /\ outcome = [g \in Goals |-> "executing"]
  /\ unanswered = <<>>
  /\ cancels = {}
  /\ reply = Silent
  /\ BagInit

------------------------------------------------------------------------------
(* Missions                                                                *)

StartPose == IF robot_pose = NoPose THEN Origin ELSE robot_pose

\* A* connects every two consecutive waypoints.
Plannable(way) ==
  \A i \in 1..(Len(way) - 1) : <<way[i], way[i + 1]>> \in Connected

\* The waypoint lists start_mission may build for a target.  Which patrol
\* points qualify depends on distances in the map: any two places may.
MissionWaypoints(target) ==
  CASE params.mission_mode = "scan_all" ->
         {<<StartPose>> \o FixedWaypoints \o <<StartPose>>}
    [] params.mission_mode = "single_point" -> {<<StartPose, target>>}
    [] params.mission_mode = "patrol" ->
         UNION {{<<StartPose, target, b, c>>, <<StartPose, b, target, c>>,
                 <<StartPose, b, c, target>>} : b \in Places, c \in Places}
    [] OTHER -> {}

RetryKeepsTicking == UNCHANGED retry_timer    \* mutant: the timer is not cancelled

StopRetrying == retry_timer' = FALSE

\* mutant: is_goal_active_ is cleared before it is tested
CancelAsTooLate == UNCHANGED cancels

CancelGoal ==
  cancels' = IF is_goal_active /\ current_goal_handle # NoGoal
             THEN cancels \cup {current_goal_handle} ELSE cancels

\* cancel_all_goals.  The handle is kept.
CancelAllGoals ==
  /\ StopRetrying
  /\ CancelGoal
  /\ is_goal_active' = FALSE
  /\ is_task_active' = FALSE
  /\ mission_waypoints' = <<>>
  /\ UNCHANGED current_goal_handle

\* async_send_goal: a goal request leaves for the server.
SendGoal ==
  \E g \in Goals :
    /\ goal[g] = "free"
    /\ goal' = [goal EXCEPT ![g] = "requested"]
    /\ unanswered' = Append(unanswered, g)

\* The rest of execute_next_nav_segment once a task with waypoints `way` is
\* known to be active.  Its test for fewer than two waypoints never holds
\* (TaskIsPlanned), nor does its test for an empty path.
ExecuteNextNavSegment(way) ==
  \/ /\ \/ ~params.debug_mode      \* wait_for_action_server timed out
        \/ ~Plannable(way)         \* or planning failed
     /\ CancelAllGoals
     /\ UNCHANGED <<debug_timer, goal, outcome, unanswered>>
  \/ /\ Plannable(way)
     /\ StopRetrying
     /\ is_task_active' = TRUE
     /\ mission_waypoints' = way
     /\ UNCHANGED <<cancels, handleVars>>
     /\ IF params.debug_mode
        THEN debug_timer' = TRUE /\ UNCHANGED <<goal, outcome, unanswered>>
        ELSE SendGoal /\ UNCHANGED <<debug_timer, outcome>>

\* start_mission, when it gets past its validation ...
BeginMission(target) ==
  /\ params.map_loaded
  /\ navigation_state' = "RUNNING"
  /\ reply' = Silent
  /\ StartBagRecord(params.enable_bag_recording)
  /\ \E way \in MissionWaypoints(target) : ExecuteNextNavSegment(way)

\* ... and when it does not: the state is already RUNNING when it gives up.
RefuseMission ==
  /\ params.map_loaded \/ params.mission_mode = "scan_all_fixed"
  /\ navigation_state' = "RUNNING"
  /\ StopRetrying
  /\ mission_waypoints' = <<>>
  /\ \/ /\ params.mission_mode = "patrol"
        /\ reply' = <<"error not_enough_patrol_points_after_verification">>
     \/ /\ params.mission_mode \notin Modes
        /\ reply' = <<"error invalid_mission_mode">>
  /\ UNCHANGED <<is_task_active, debug_timer, handleVars, serverVars, bagVars>>

StartMission(target) ==
  \/ /\ ~params.map_loaded
     /\ params.mission_mode # "scan_all_fixed"
     /\ reply' = <<"error no_poses_loaded">>
     /\ UNCHANGED <<missionVars, timerVars, handleVars, serverVars, bagVars>>
  \/ BeginMission(target)
  \/ RefuseMission

------------------------------------------------------------------------------
(* Commands of the operator (process_command_string)                       *)

\* The node answers and does nothing else.
Answer(r) ==
  /\ reply' = r
  /\ UNCHANGED <<missionVars, timerVars, handleVars, serverVars, bagVars>>

\* A mission is accepted only while no task is active.
Accepting == ~is_task_active

\* handle_target_pose.  A target is snapped to the map or lies within 0.2 m of
\* it, so it is one of the places.
TargetPose ==
  /\ "target_pose" \in Commands
  /\ \/ ~Accepting /\ Answer(<<"error task_already_active">>)
     \/ Accepting /\ Answer(<<"error invalid_target_pose_format">>)
     \/ Accepting /\ \E target \in Places : StartMission(target)
  /\ UNCHANGED <<params, robot_pose>>

\* The command takes no target: start_mission gets a dummy pose at the origin.
StartScanAll ==
  /\ "start_scan_all" \in Commands
  /\ \/ ~Accepting /\ Answer(<<"error task_already_active">>)
     \/ Accepting /\ StartMission(Origin)
  /\ UNCHANGED <<params, robot_pose>>

CancelNav ==
  /\ "cancel_nav" \in Commands
  /\ CancelAllGoals
  /\ navigation_state' = "IDLE"
  /\ reply' = Silent
  /\ UNCHANGED <<params, debug_timer, robot_pose, goal, outcome, unanswered, bagVars>>

RecordStart ==
  /\ "record_start" \in Commands
  /\ StartBagRecord(params.enable_bag_recording)
  /\ reply' = IF ~params.enable_bag_recording
              THEN <<"warn recording_feature_disabled">>
              ELSE IF is_recording' THEN <<"info recording_started">>
              ELSE <<"warn already_recording">>
  /\ UNCHANGED <<params, missionVars, timerVars, robot_pose, handleVars, serverVars>>

RecordStop ==
  /\ "record_stop" \in Commands
  /\ StopBagRecord(params.enable_bag_recording, params.automatic_update_map)
  /\ reply' = IF ~params.enable_bag_recording
              THEN <<"warn recording_feature_disabled">>
              ELSE IF is_recording THEN <<"info recording_stopped_and_converting">>
              ELSE <<"warn not_currently_recording">>
  /\ UNCHANGED <<params, missionVars, timerVars, robot_pose, handleVars, serverVars>>

GetPose ==
  /\ "get_pose" \in Commands
  /\ Answer(<<IF robot_pose = NoPose THEN "error no_pose_received_yet" ELSE "pose">>)
  /\ UNCHANGED <<params, robot_pose>>

GetStatus ==
  /\ "get_status" \in Commands
  /\ Answer(<<"status", navigation_state>>)
  /\ UNCHANGED <<params, robot_pose>>

------------------------------------------------------------------------------
(* Callbacks of the action client, the timers and the pose topic           *)

TaskStays == UNCHANGED is_task_active      \* mutant: is_task_active_ is not reset

EndTask == is_task_active' = FALSE

FinalState == "COMPLETE"

\* The mission is over: what result_callback and debug_planning_callback end with.
CompleteMission ==
  /\ StopBagRecord(params.enable_bag_recording, params.automatic_update_map)
  /\ reply' = <<"info mission_complete">>
  /\ navigation_state' = FinalState
  /\ EndTask

\* goal_response_callback: the oldest unanswered goal is answered.
GoalResponse ==
  /\ unanswered # <<>>
  /\ unanswered' = Tail(unanswered)
  /\ LET g == Head(unanswered)
     IN \/ /\ goal[g] = "refused"
           /\ goal' = [goal EXCEPT ![g] = "free"]
           /\ CancelAllGoals
        \/ /\ goal[g] = "accepted"
           /\ goal' = [goal EXCEPT ![g] = "awaited"]
           /\ current_goal_handle' = g
           /\ is_goal_active' = TRUE
           /\ UNCHANGED <<is_task_active, mission_waypoints, retry_timer, cancels>>
  /\ reply' = Silent
  /\ UNCHANGED <<params, navigation_state, debug_timer, robot_pose, outcome, bagVars>>

\* mutant: current_goal_handle_ is not reset
KeepHandle == is_goal_active' = FALSE /\ UNCHANGED current_goal_handle

DropHandle == is_goal_active' = FALSE /\ current_goal_handle' = NoGoal

NoTimer == UNCHANGED retry_timer           \* mutant: no timer is created

ArmRetry == retry_timer' = TRUE

\* Anything but SUCCEEDED, the node's own cancellation included, is retried.
RetryLater ==
  /\ ArmRetry
  /\ reply' = Silent
  /\ UNCHANGED <<navigation_state, is_task_active, bagVars>>

\* result_callback, for whichever goal has ended: the callback does not look
\* at the goal the result belongs to.
Result(g) ==
  /\ goal[g] = "awaited"
  /\ outcome[g] # "executing"
  /\ goal' = [goal EXCEPT ![g] = "free"]
  /\ outcome' = [outcome EXCEPT ![g] = "executing"]
  /\ cancels' = cancels \ {g}
  /\ DropHandle
  /\ IF outcome[g] = "SUCCEEDED"
     THEN CompleteMission /\ UNCHANGED retry_timer
     ELSE RetryLater
  /\ UNCHANGED <<params, mission_waypoints, debug_timer, robot_pose, unanswered>>

\* The retry timer is periodic and only an active task cancels it here.
RetryTimer ==
  /\ retry_timer
  /\ is_task_active
  /\ ExecuteNextNavSegment(mission_waypoints)
  /\ reply' = Silent
  /\ UNCHANGED <<params, navigation_state, robot_pose, bagVars>>

\* debug_planning_callback: pretend the robot is at the last waypoint.
DebugTimer ==
  /\ debug_timer
  /\ debug_timer' = FALSE
  /\ robot_pose' = IF mission_waypoints = <<>> THEN robot_pose
                   ELSE mission_waypoints[Len(mission_waypoints)]
  /\ CompleteMission
  /\ UNCHANGED <<params, mission_waypoints, retry_timer, handleVars, serverVars>>

PoseCallback ==
  /\ \E p \in Places : robot_pose' = p
  /\ reply' = Silent
  /\ UNCHANGED <<params, missionVars, timerVars, handleVars, serverVars, bagVars>>

------------------------------------------------------------------------------
(* The environment: child processes and the FollowPath server (external)   *)

ChildExit ==
  /\ \E p \in Pids : ChildExits(p)
  /\ reply' = Silent
  /\ UNCHANGED <<params, missionVars, timerVars, robot_pose, handleVars, serverVars>>

\* The server answers goal requests in the order they were sent.
ServerAnswers(g) ==
  /\ \E i \in 1..Len(unanswered) :
       /\ unanswered[i] = g
       /\ \A j \in 1..(i - 1) : goal[unanswered[j]] # "requested"
  /\ goal[g] = "requested"
  /\ \E answer \in {"accepted", "refused"} : goal' = [goal EXCEPT ![g] = answer]
  /\ reply' = Silent
  /\ UNCHANGED <<params, missionVars, timerVars, robot_pose, handleVars,
                 outcome, unanswered, cancels, bagVars>>

\* The server ends a goal it accepted; as cancelled only when it was asked to.
ServerEnds(g, how) ==
  /\ goal[g] \in {"accepted", "awaited"}
  /\ outcome[g] = "executing"
  /\ how = "CANCELED" => g \in cancels
  /\ outcome' = [outcome EXCEPT ![g] = how]
  /\ reply' = Silent
  /\ UNCHANGED <<params, missionVars, timerVars, robot_pose, handleVars,
                 goal, unanswered, cancels, bagVars>>

\* The node is stopped (the destructor runs) and launched again.  The old
\* client's goals are forgotten; nothing in the destructor cancels them.
Restart ==
  /\ "restart" \in Commands
  /\ DestroyRecorder(params.enable_bag_recording)
  /\ navigation_state' = "IDLE"
  /\ is_task_active' = FALSE
  /\ mission_waypoints' = <<>>
  /\ retry_timer' = FALSE
  /\ debug_timer' = FALSE
  /\ robot_pose' = NoPose
  /\ is_goal_active' = FALSE
  /\ current_goal_handle' = NoGoal
  /\ goal' = [g \in Goals |-> "free"]
  /\ outcome' = [g \in Goals |-> "executing"]
  /\ unanswered' = <<>>
  /\ cancels' = {}
  /\ reply' = Silent
  /\ UNCHANGED params

------------------------------------------------------------------------------
Next ==
  \/ TargetPose \/ StartScanAll \/ CancelNav
  \/ RecordStart \/ RecordStop \/ GetPose \/ GetStatus
  \/ GoalResponse
  \/ \E g \in Goals : Result(g)
  \/ RetryTimer \/ DebugTimer \/ PoseCallback
  \/ ChildExit
  \/ \E g \in Goals : ServerAnswers(g)
  \/ \E g \in Goals, how \in {"SUCCEEDED", "ABORTED", "CANCELED"} : ServerEnds(g, how)
  \/ Restart

Spec == Init /\ [][Next]_vars

\* The executor runs whatever is ready, the server answers and ends what it is
\* given, and a path that is tried again and again is driven to its end at last.
Fairness ==
  /\ WF_vars(GoalResponse)
  /\ \A g \in Goals : WF_vars(Result(g))
  /\ WF_vars(RetryTimer)
  /\ WF_vars(DebugTimer)
  /\ \A g \in Goals : WF_vars(ServerAnswers(g))
  /\ \A g \in Goals : WF_vars(\E how \in {"SUCCEEDED", "ABORTED"} : ServerEnds(g, how))
  /\ \A g \in Goals : SF_vars(ServerEnds(g, "SUCCEEDED"))

FairSpec == Spec /\ Fairness

------------------------------------------------------------------------------
(* Properties                                                              *)

InFlight == {g \in Goals : goal[g] # "free"}

\* A task in progress is one the client is told about and one that can be
\* driven: get_status answers RUNNING, and the waypoints are there and planned,
\* however commands, stale results and timers interleave.
TaskIsPlanned ==
  is_task_active => /\ navigation_state = "RUNNING"
                    /\ Len(mission_waypoints) >= 2
                    /\ Plannable(mission_waypoints)

\* An active task never waits on nothing: a goal is on its way to an answer or
\* a result, or a timer will fire.  No callback order can leave the mission
\* stuck in the node itself (execute_next_nav_segment, result_callback).
NeverWaitsOnNothing ==
  is_task_active => InFlight # {} \/ retry_timer \/ debug_timer

\* The handle cancel_all_goals passes to async_cancel_goal is one whose result
\* has not been delivered: for any other the client library throws, and
\* nothing in the node catches it.
HandleIsAwaited ==
  /\ current_goal_handle # NoGoal => goal[current_goal_handle] = "awaited"
  /\ is_goal_active => current_goal_handle # NoGoal

\* A goal the node no longer counts as active but still has the handle of is one
\* the server was asked to cancel: cancel_all_goals, reached from a command, a
\* failed retry or the refusal of another goal, drops no goal it could reach.
NoGoalSilentlyDropped ==
  current_goal_handle # NoGoal /\ ~is_goal_active => current_goal_handle \in cancels

\* Unless the operator cancels, the node never has two goals on the server, and
\* one only while its task is active and not between retries: a retry never
\* preempts the goal it retries (result_callback, execute_next_nav_segment).
OneGoalAtATime ==
  /\ \A g, h \in InFlight : g = h
  /\ InFlight # {} => is_task_active /\ ~retry_timer

\* The waypoints of a task in progress are never replaced: a second command
\* cannot redirect a robot under way (the guards on is_task_active_).
MissionUndisturbed ==
  [][is_task_active /\ is_task_active' => mission_waypoints' = mission_waypoints]_vars

\* Unless the operator cancels, "info mission_complete" is said only of a task
\* that was active until then, and of each task once.
CompletionIsEarned ==
  [][reply' = <<"info mission_complete">> /\ reply' # reply =>
       is_task_active /\ ~is_task_active']_vars

\* Without cancellations every mission ends: it completes, is refused or is
\* given up; the 5 s retries do not go on for ever if the way becomes free.
MissionEnds == is_task_active ~> ~is_task_active
==============================================================================
