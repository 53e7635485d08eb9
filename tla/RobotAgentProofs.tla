--------------------------- MODULE RobotAgentProofs ---------------------------
(***************************************************************************)
(* Theorems about robot_agent_node for any map, any parameters, any number *)
(* of outstanding goals and any set of pids.                               *)
(*                                                                         *)
(* AgentInv is the inductive invariant.  Its parts about the task and about*)
(* the goal handle each lean on the type invariant only; the part about    *)
(* child processes comes from BagRecorderProofs, and needs that nothing is *)
(* recorded while recording is disabled (RecordingEnabled), so that the    *)
(* destructor cannot skip its stop.                                        *)
(***************************************************************************)
EXTENDS RobotAgent, BagRecorderProofs

RecordingEnabled == recording_pid # NoPid => params.enable_bag_recording

TaskInv   == TaskIsPlanned /\ NeverWaitsOnNothing
HandleInv == HandleIsAwaited /\ NoGoalSilentlyDropped
AgentInv  == TypeOK /\ ChildrenTracked /\ RecordingEnabled /\ TaskInv /\ HandleInv

\* TypeOK without the children, and without the reply (which every step sets).
AgentTypeOK ==
  /\ params \in Params
  /\ navigation_state \in Status
  /\ is_task_active \in BOOLEAN
  /\ mission_waypoints \in Seq(Places)
  /\ retry_timer \in BOOLEAN
  /\ debug_timer \in BOOLEAN
  /\ robot_pose \in Places \cup {NoPose}
  /\ is_goal_active \in BOOLEAN
  /\ current_goal_handle \in Goals \cup {NoGoal}
  /\ goal \in [Goals -> GoalPhases]
  /\ outcome \in [Goals -> Outcomes]
  /\ unanswered \in Seq(Goals)
  /\ cancels \in SUBSET Goals

\* The invariant falls apart into what the children, and what the rest of the
\* node, have to show of a step.
LEMMA InvParts ==
  AgentInv <=> /\ BagInv /\ RecordingEnabled
               /\ AgentTypeOK /\ reply \in Replies
               /\ TaskInv /\ HandleInv
BY DEF AgentInv, TypeOK, BagInv, AgentTypeOK

LEMMA InvAgain ==
  ASSUME BagInv', RecordingEnabled', AgentTypeOK', reply' \in Replies, TaskInv', HandleInv'
  PROVE  AgentInv'
BY DEF AgentInv, TypeOK, BagInv, AgentTypeOK, Replies

LEMMA ParamsTypes ==
  ASSUME params \in Params
  PROVE  /\ params.debug_mode \in BOOLEAN
         /\ params.enable_bag_recording \in BOOLEAN
         /\ params.automatic_update_map \in BOOLEAN
         /\ params.map_loaded \in BOOLEAN
BY ParamsAssumption

\* The waypoint lists of start_mission start at the robot and have two or more
\* places: the test in execute_next_nav_segment for fewer never holds.
LEMMA WaypointsType ==
  ASSUME AgentTypeOK, NEW target \in Places, NEW way \in MissionWaypoints(target)
  PROVE  way \in Seq(Places) /\ Len(way) >= 2
<1>1. StartPose \in Places
  BY PlacesAssumption DEF StartPose, AgentTypeOK
<1>2. CASE params.mission_mode = "scan_all"
  <2>1. way = <<StartPose>> \o FixedWaypoints \o <<StartPose>>
    BY <1>2 DEF MissionWaypoints
  <2>2. <<StartPose>> \in Seq(Places) /\ Len(<<StartPose>>) = 1
    BY <1>1
  <2>3. FixedWaypoints \in Seq(Places) /\ Len(FixedWaypoints) \in Nat
    BY PlacesAssumption
  <2> QED BY <2>1, <2>2, <2>3
<1>3. CASE params.mission_mode = "single_point"
  <2>1. way = <<StartPose, target>>
    BY <1>3 DEF MissionWaypoints
  <2> QED BY <1>1, <2>1
<1>4. CASE params.mission_mode = "patrol"
  <2>1. PICK b \in Places, c \in Places : \/ way = <<StartPose, target, b, c>>
                                          \/ way = <<StartPose, b, target, c>>
                                          \/ way = <<StartPose, b, c, target>>
    BY <1>4 DEF MissionWaypoints
  <2>2. CASE way = <<StartPose, target, b, c>>
    BY <1>1, <2>2
  <2>3. CASE way = <<StartPose, b, target, c>>
    BY <1>1, <2>3
  <2>4. CASE way = <<StartPose, b, c, target>>
    BY <1>1, <2>4
  <2> QED BY <2>1, <2>2, <2>3, <2>4
<1>5. CASE params.mission_mode \notin Modes
  BY <1>5 DEF MissionWaypoints, Modes
<1> QED BY <1>2, <1>3, <1>4, <1>5 DEF Modes

------------------------------------------------------------------------------
(* Steps the handlers share                                                *)

\* A step that leaves the task alone, or only gives it more to wait for.
LEMMA TaskUnchanged ==
  ASSUME TaskInv, UNCHANGED <<missionVars, retry_timer, debug_timer, goal>>
  PROVE  TaskInv'
BY DEF TaskInv, TaskIsPlanned, NeverWaitsOnNothing, Plannable, InFlight, missionVars

\* A task that is over owes nothing.
LEMMA TaskOver ==
  ASSUME is_task_active' = FALSE
  PROVE  TaskInv'
BY DEF TaskInv, TaskIsPlanned, NeverWaitsOnNothing

\* Goals other than the one held may move, and cancels may grow.
LEMMA HandleKept ==
  ASSUME HandleInv, UNCHANGED handleVars, cancels \subseteq cancels',
         current_goal_handle # NoGoal => goal'[current_goal_handle] = "awaited"
  PROVE  HandleInv'
BY DEF HandleInv, HandleIsAwaited, NoGoalSilentlyDropped, handleVars

\* cancel_all_goals, whoever calls it: the handle it keeps is one the server
\* has been asked to cancel.
LEMMA CancelAllFacts ==
  ASSUME AgentInv, CancelAllGoals
  PROVE  /\ retry_timer' = FALSE
         /\ is_goal_active' = FALSE
         /\ is_task_active' = FALSE
         /\ mission_waypoints' = <<>>
         /\ current_goal_handle' = current_goal_handle
         /\ cancels' \in SUBSET Goals
         /\ current_goal_handle # NoGoal => current_goal_handle \in cancels'
BY InvParts DEF CancelAllGoals, StopRetrying, CancelGoal, AgentTypeOK, HandleInv, NoGoalSilentlyDropped

\* execute_next_nav_segment on a list of two waypoints or more.
LEMMA ExecutePreserves ==
  ASSUME AgentInv, NEW way \in Seq(Places), Len(way) >= 2,
         ExecuteNextNavSegment(way), navigation_state' = "RUNNING",
         params' = params, robot_pose' = robot_pose
  PROVE  AgentTypeOK' /\ TaskInv' /\ HandleInv'
<1>1. CASE CancelAllGoals /\ UNCHANGED <<debug_timer, goal, outcome, unanswered>>
  <2>1. AgentTypeOK'
    BY <1>1, CancelAllFacts, InvParts DEF AgentTypeOK, Status
  <2>2. TaskInv'
    BY <1>1, CancelAllFacts, TaskOver
  <2>3. HandleInv'
    BY <1>1, CancelAllFacts, InvParts DEF HandleInv, HandleIsAwaited, NoGoalSilentlyDropped
  <2> QED BY <2>1, <2>2, <2>3
<1>2. CASE /\ Plannable(way)
           /\ retry_timer' = FALSE
           /\ is_task_active' = TRUE
           /\ mission_waypoints' = way
           /\ UNCHANGED <<cancels, handleVars>>
           /\ debug_timer' = TRUE
           /\ UNCHANGED <<goal, outcome, unanswered>>
  <2>1. AgentTypeOK'
    BY <1>2, InvParts DEF AgentTypeOK, Status, handleVars
  <2>2. TaskInv'
    BY <1>2 DEF TaskInv, TaskIsPlanned, NeverWaitsOnNothing, Plannable
  <2>3. HandleInv'
    BY <1>2, InvParts DEF HandleInv, HandleIsAwaited, NoGoalSilentlyDropped, handleVars
  <2> QED BY <2>1, <2>2, <2>3
<1>3. ASSUME NEW g \in Goals,
             Plannable(way), retry_timer' = FALSE, is_task_active' = TRUE,
             mission_waypoints' = way, UNCHANGED <<cancels, handleVars>>,
             goal[g] = "free", goal' = [goal EXCEPT ![g] = "requested"],
             unanswered' = Append(unanswered, g), UNCHANGED <<debug_timer, outcome>>
      PROVE  AgentTypeOK' /\ TaskInv' /\ HandleInv'
  <2>0. unanswered' \in Seq(Goals) /\ goal' \in [Goals -> GoalPhases]
    BY <1>3, InvParts DEF AgentTypeOK, GoalPhases
  <2>1. AgentTypeOK'
    BY <1>3, <2>0, InvParts DEF AgentTypeOK, Status, handleVars, GoalPhases, Outcomes
  <2>2. goal'[g] = "requested"
    BY <1>3, InvParts DEF AgentTypeOK
  <2>3. TaskInv'
    BY <1>3, <2>2 DEF TaskInv, TaskIsPlanned, NeverWaitsOnNothing, Plannable, InFlight
  <2>4. HandleInv'
    BY <1>3, InvParts, NoGoalAssumption
    DEF HandleInv, HandleIsAwaited, NoGoalSilentlyDropped, handleVars, AgentTypeOK
  <2> QED BY <2>1, <2>3, <2>4
<1> QED BY <1>1, <1>2, <1>3 DEF ExecuteNextNavSegment, SendGoal, StopRetrying

\* A command that is only answered.
LEMMA AnswerPreserves ==
  ASSUME AgentInv, NEW r \in Replies, Answer(r), UNCHANGED <<params, robot_pose>>
  PROVE  AgentInv'
<1>1. BagInv'
  BY BagUnchanged, InvParts DEF Answer
<1>2. AgentTypeOK' /\ reply' \in Replies
  BY InvParts DEF Answer, AgentTypeOK, missionVars, timerVars, handleVars, serverVars, Replies
<1>3. TaskInv' /\ HandleInv'
  BY InvParts, TaskUnchanged, HandleKept
  DEF Answer, timerVars, serverVars, HandleInv, HandleIsAwaited
<1>4. RecordingEnabled'
  BY InvParts DEF Answer, bagVars, RecordingEnabled
<1> QED BY <1>1, <1>2, <1>3, <1>4, InvAgain

\* start_mission, refused, abandoned or begun, from a node without a task.
LEMMA StartMissionPreserves ==
  ASSUME AgentInv, ~is_task_active, NEW target \in Places, StartMission(target),
         UNCHANGED <<params, robot_pose>>
  PROVE  AgentInv'
<1>1. CASE /\ ~params.map_loaded
           /\ params.mission_mode # "scan_all_fixed"
           /\ reply' = <<"error no_poses_loaded">>
           /\ UNCHANGED <<missionVars, timerVars, handleVars, serverVars, bagVars>>
  <2>1. Answer(<<"error no_poses_loaded">>)
    BY <1>1 DEF Answer
  <2>2. <<"error no_poses_loaded">> \in Replies
    BY DEF Replies
  <2> QED BY <2>1, <2>2, AnswerPreserves
<1>2. CASE BeginMission(target)
  <2>1. PICK way \in MissionWaypoints(target) : ExecuteNextNavSegment(way)
    BY <1>2 DEF BeginMission
  <2>2. way \in Seq(Places) /\ Len(way) >= 2
    BY WaypointsType, InvParts
  <2>3. AgentTypeOK' /\ TaskInv' /\ HandleInv'
    BY <1>2, <2>1, <2>2, ExecutePreserves DEF BeginMission
  <2>4. BagInv'
    BY <1>2, StartPreserves, InvParts, ParamsTypes DEF BeginMission, AgentTypeOK
  <2>5. RecordingEnabled'
    BY <1>2, InvParts DEF BeginMission, StartBagRecord, RecordingEnabled, bagVars
  <2>6. reply' \in Replies
    BY <1>2 DEF BeginMission, Replies
  <2> QED BY <2>3, <2>4, <2>5, <2>6, InvAgain
<1>3. CASE RefuseMission
  <2>0. reply' \in Replies
    BY <1>3 DEF RefuseMission, StopRetrying, Replies
  <2>a. /\ navigation_state' = "RUNNING" /\ retry_timer' = FALSE
        /\ mission_waypoints' = <<>>
        /\ UNCHANGED <<is_task_active, debug_timer, handleVars, serverVars>>
    BY <1>3 DEF RefuseMission, StopRetrying
  <2>b. is_task_active' \in BOOLEAN /\ mission_waypoints' \in Seq(Places)
    BY <2>a, InvParts DEF AgentTypeOK
  <2>1. AgentTypeOK'
    BY <2>a, <2>b, InvParts DEF AgentTypeOK, Status, handleVars, serverVars, GoalPhases, Outcomes
  <2>2. TaskInv'
    BY <1>3, TaskOver, InvParts DEF RefuseMission, StopRetrying, AgentTypeOK
  <2>3. HandleInv'
    BY <1>3, InvParts, HandleKept DEF RefuseMission, StopRetrying, serverVars, HandleInv, HandleIsAwaited
  <2>4. BagInv'
    BY <1>3, BagUnchanged, InvParts DEF RefuseMission, StopRetrying
  <2>5. RecordingEnabled'
    BY <1>3, InvParts DEF RefuseMission, StopRetrying, bagVars, RecordingEnabled
  <2> QED BY <2>0, <2>1, <2>2, <2>3, <2>4, <2>5, InvAgain
<1> QED BY <1>1, <1>2, <1>3 DEF StartMission

------------------------------------------------------------------------------
(* Commands                                                                *)

LEMMA TargetPosePreserves ==
  ASSUME AgentInv, TargetPose
  PROVE  AgentInv'
<1>1. /\ <<"error task_already_active">> \in Replies
      /\ <<"error invalid_target_pose_format">> \in Replies
  BY DEF Replies
<1>2. \/ Answer(<<"error task_already_active">>)
      \/ Answer(<<"error invalid_target_pose_format">>)
      \/ ~is_task_active /\ \E target \in Places : StartMission(target)
  BY DEF TargetPose, Accepting
<1>3. UNCHANGED <<params, robot_pose>>
  BY DEF TargetPose, Accepting
<1> QED BY <1>1, <1>2, <1>3, AnswerPreserves, StartMissionPreserves

LEMMA StartScanAllPreserves ==
  ASSUME AgentInv, StartScanAll
  PROVE  AgentInv'
<1>1. <<"error task_already_active">> \in Replies
  BY DEF Replies
<1>2. Origin \in Places
  BY PlacesAssumption
<1> QED BY <1>1, <1>2, AnswerPreserves, StartMissionPreserves DEF StartScanAll, Accepting

LEMMA CancelNavPreserves ==
  ASSUME AgentInv, CancelNav
  PROVE  AgentInv'
<1>1. CancelAllGoals
  BY DEF CancelNav
<1>2. AgentTypeOK'
  BY <1>1, CancelAllFacts, InvParts DEF CancelNav, AgentTypeOK, Status
<1>3. TaskInv'
  BY <1>1, CancelAllFacts, TaskOver
<1>4. HandleInv'
  BY <1>1, CancelAllFacts, InvParts
  DEF CancelNav, HandleInv, HandleIsAwaited, NoGoalSilentlyDropped
<1>5. BagInv'
  BY BagUnchanged, InvParts DEF CancelNav
<1>6. RecordingEnabled' /\ reply' \in Replies
  BY InvParts DEF CancelNav, bagVars, RecordingEnabled, Replies
<1> QED BY <1>2, <1>3, <1>4, <1>5, <1>6, InvAgain

\* record_start and record_stop touch the children only.
LEMMA RecordPreserves ==
  ASSUME AgentInv, RecordStart \/ RecordStop
  PROVE  AgentInv'
<1>1. /\ UNCHANGED <<params, missionVars, timerVars, robot_pose, handleVars, serverVars>>
      /\ reply' \in Replies
  BY DEF RecordStart, RecordStop, Replies
<1>2. AgentTypeOK'
  BY <1>1, InvParts DEF AgentTypeOK, missionVars, timerVars, handleVars, serverVars
<1>3. TaskInv' /\ HandleInv'
  BY <1>1, InvParts, TaskUnchanged, HandleKept
  DEF timerVars, serverVars, HandleInv, HandleIsAwaited
<1>4. CASE RecordStart
  <2>1. BagInv'
    BY <1>4, StartPreserves, InvParts, ParamsTypes DEF RecordStart, AgentTypeOK
  <2>2. RecordingEnabled'
    BY <1>1, <1>4, InvParts DEF RecordStart, StartBagRecord, RecordingEnabled, bagVars
  <2> QED BY <1>1, <1>2, <1>3, <2>1, <2>2, InvAgain
<1>5. CASE RecordStop
  <2>1. BagInv'
    BY <1>5, StopPreserves, InvParts, ParamsTypes DEF RecordStop, AgentTypeOK
  <2>2. RecordingEnabled'
    BY <1>1, <1>5, InvParts DEF RecordStop, StopBagRecord, RecordingEnabled, bagVars
  <2> QED BY <1>1, <1>2, <1>3, <2>1, <2>2, InvAgain
<1> QED BY <1>4, <1>5

LEMMA QueryPreserves ==
  ASSUME AgentInv, GetPose \/ GetStatus
  PROVE  AgentInv'
<1>1. /\ <<IF robot_pose = NoPose THEN "error no_pose_received_yet" ELSE "pose">> \in Replies
      /\ <<"status", navigation_state>> \in Replies
  BY InvParts DEF Replies, AgentTypeOK
<1>2. CASE GetPose
  BY <1>1, <1>2, AnswerPreserves DEF GetPose
<1>3. CASE GetStatus
  BY <1>1, <1>3, AnswerPreserves DEF GetStatus
<1> QED BY <1>2, <1>3

------------------------------------------------------------------------------
(* Callbacks                                                               *)

LEMMA GoalResponsePreserves ==
  ASSUME AgentInv, GoalResponse
  PROVE  AgentInv'
<1> DEFINE g == Head(unanswered)
<1>1. /\ UNCHANGED <<params, navigation_state, debug_timer, robot_pose, outcome, bagVars>>
      /\ reply' \in Replies
      /\ unanswered # <<>> /\ unanswered' = Tail(unanswered)
  BY DEF GoalResponse, Replies
<1>2. g \in Goals /\ unanswered' \in Seq(Goals)
  BY <1>1, InvParts DEF AgentTypeOK
<1>3. BagInv' /\ RecordingEnabled'
  BY <1>1, BagUnchanged, InvParts DEF bagVars, RecordingEnabled
<1>4. CASE goal[g] = "refused" /\ goal' = [goal EXCEPT ![g] = "free"] /\ CancelAllGoals
  <2>1. AgentTypeOK'
    BY <1>1, <1>2, <1>4, CancelAllFacts, InvParts DEF AgentTypeOK, GoalPhases, Status, Outcomes
  <2>2. TaskInv'
    BY <1>4, CancelAllFacts, TaskOver
  <2>3. HandleInv'
    BY <1>2, <1>4, CancelAllFacts, InvParts
    DEF HandleInv, HandleIsAwaited, NoGoalSilentlyDropped, AgentTypeOK
  <2> QED BY <1>1, <1>3, <2>1, <2>2, <2>3, InvAgain
<1>5. CASE /\ goal[g] = "accepted"
           /\ goal' = [goal EXCEPT ![g] = "awaited"]
           /\ current_goal_handle' = g
           /\ is_goal_active' = TRUE
           /\ UNCHANGED <<is_task_active, mission_waypoints, retry_timer, cancels>>
  <2>1. AgentTypeOK'
    BY <1>1, <1>2, <1>5, InvParts DEF AgentTypeOK, GoalPhases, Status, Outcomes
  <2>2. goal'[g] = "awaited"
    BY <1>2, <1>5, InvParts DEF AgentTypeOK
  <2>3. TaskInv'
    BY <1>1, <1>2, <1>5, <2>2, InvParts
    DEF TaskInv, TaskIsPlanned, NeverWaitsOnNothing, Plannable, InFlight
  <2>4. HandleInv'
    BY <1>2, <1>5, <2>2, NoGoalAssumption
    DEF HandleInv, HandleIsAwaited, NoGoalSilentlyDropped
  <2> QED BY <1>1, <1>3, <2>1, <2>3, <2>4, InvAgain
<1> QED BY <1>4, <1>5 DEF GoalResponse

\* The mission ends: nothing is owed any more, and the recorder is stopped.
LEMMA CompletePreserves ==
  ASSUME AgentInv, CompleteMission, params' = params
  PROVE  /\ BagInv' /\ RecordingEnabled' /\ TaskInv'
         /\ reply' \in Replies
         /\ navigation_state' = "COMPLETE" /\ is_task_active' = FALSE
<1>1. BagInv'
  BY StopPreserves, InvParts, ParamsTypes DEF CompleteMission, EndTask, FinalState, AgentTypeOK
<1>2. RecordingEnabled'
  BY InvParts DEF CompleteMission, EndTask, FinalState, StopBagRecord, RecordingEnabled, bagVars
<1>3. TaskInv'
  BY TaskOver DEF CompleteMission, EndTask, FinalState
<1> QED BY <1>1, <1>2, <1>3 DEF CompleteMission, EndTask, FinalState, Replies

LEMMA ResultPreserves ==
  ASSUME AgentInv, NEW g \in Goals, Result(g)
  PROVE  AgentInv'
<1>1. /\ goal' = [goal EXCEPT ![g] = "free"]
      /\ outcome' = [outcome EXCEPT ![g] = "executing"]
      /\ cancels' = cancels \ {g}
      /\ is_goal_active' = FALSE
      /\ current_goal_handle' = NoGoal
      /\ UNCHANGED <<params, mission_waypoints, debug_timer, robot_pose, unanswered>>
  BY DEF Result, DropHandle
<1>2. HandleInv'
  BY <1>1 DEF HandleInv, HandleIsAwaited, NoGoalSilentlyDropped
<1>3. /\ goal' \in [Goals -> GoalPhases]
      /\ outcome' \in [Goals -> Outcomes]
      /\ cancels' \in SUBSET Goals
  BY <1>1, InvParts DEF AgentTypeOK, GoalPhases, Outcomes
<1>4. CASE CompleteMission /\ UNCHANGED retry_timer
  <2>1. AgentTypeOK'
    BY <1>1, <1>3, <1>4, CompletePreserves, InvParts DEF AgentTypeOK, Status
  <2> QED BY <1>1, <1>2, <1>4, <2>1, CompletePreserves, InvAgain
<1>5. CASE /\ retry_timer' = TRUE
           /\ reply' = Silent
           /\ UNCHANGED <<navigation_state, is_task_active, bagVars>>
  <2>1. AgentTypeOK' /\ reply' \in Replies
    BY <1>1, <1>3, <1>5, InvParts DEF AgentTypeOK, Status, Replies
  <2>2. TaskInv'
    BY <1>1, <1>5, InvParts DEF TaskInv, TaskIsPlanned, NeverWaitsOnNothing, Plannable
  <2>3. BagInv' /\ RecordingEnabled'
    BY <1>1, <1>5, BagUnchanged, InvParts DEF bagVars, RecordingEnabled
  <2> QED BY <1>2, <2>1, <2>2, <2>3, InvAgain
<1> QED BY <1>4, <1>5 DEF Result, RetryLater, ArmRetry

LEMMA RetryTimerPreserves ==
  ASSUME AgentInv, RetryTimer
  PROVE  AgentInv'
<1>1. /\ ExecuteNextNavSegment(mission_waypoints)
      /\ UNCHANGED <<params, navigation_state, robot_pose, bagVars>>
      /\ is_task_active
      /\ reply' \in Replies
  BY DEF RetryTimer, Replies
<1>2. /\ mission_waypoints \in Seq(Places) /\ Len(mission_waypoints) >= 2
      /\ navigation_state' = "RUNNING"
  BY <1>1, InvParts DEF TaskInv, TaskIsPlanned, AgentTypeOK
<1>3. AgentTypeOK' /\ TaskInv' /\ HandleInv'
  BY <1>1, <1>2, ExecutePreserves
<1>4. BagInv' /\ RecordingEnabled'
  BY <1>1, BagUnchanged, InvParts DEF bagVars, RecordingEnabled
<1> QED BY <1>1, <1>3, <1>4, InvAgain

LEMMA DebugTimerPreserves ==
  ASSUME AgentInv, DebugTimer
  PROVE  AgentInv'
<1>1. /\ CompleteMission
      /\ debug_timer' = FALSE
      /\ UNCHANGED <<params, mission_waypoints, retry_timer, handleVars, serverVars>>
  BY DEF DebugTimer
<1>2. robot_pose' \in Places \cup {NoPose}
  BY InvParts DEF DebugTimer, AgentTypeOK
<1>3. AgentTypeOK'
  BY <1>1, <1>2, CompletePreserves, InvParts DEF AgentTypeOK, Status, handleVars, serverVars
<1>4. HandleInv'
  BY <1>1, InvParts, HandleKept DEF serverVars, HandleInv, HandleIsAwaited
<1> QED BY <1>1, <1>3, <1>4, CompletePreserves, InvAgain

LEMMA PoseCallbackPreserves ==
  ASSUME AgentInv, PoseCallback
  PROVE  AgentInv'
<1>1. /\ UNCHANGED <<params, missionVars, timerVars, handleVars, serverVars, bagVars>>
      /\ robot_pose' \in Places
      /\ reply' \in Replies
  BY DEF PoseCallback, Replies
<1>2. AgentTypeOK'
  BY <1>1, InvParts DEF AgentTypeOK, missionVars, timerVars, handleVars, serverVars
<1>3. TaskInv' /\ HandleInv'
  BY <1>1, InvParts, TaskUnchanged, HandleKept
  DEF timerVars, serverVars, HandleInv, HandleIsAwaited
<1>4. BagInv' /\ RecordingEnabled'
  BY <1>1, BagUnchanged, InvParts DEF bagVars, RecordingEnabled
<1> QED BY <1>1, <1>2, <1>3, <1>4, InvAgain

------------------------------------------------------------------------------
(* The environment                                                         *)

LEMMA ChildExitPreserves ==
  ASSUME AgentInv, ChildExit
  PROVE  AgentInv'
<1>1. /\ UNCHANGED <<params, missionVars, timerVars, robot_pose, handleVars, serverVars>>
      /\ reply' \in Replies
  BY DEF ChildExit, Replies
<1>2. PICK p \in Pids : ChildExits(p)
  BY DEF ChildExit
<1>3. AgentTypeOK'
  BY <1>1, InvParts DEF AgentTypeOK, missionVars, timerVars, handleVars, serverVars
<1>4. TaskInv' /\ HandleInv'
  BY <1>1, InvParts, TaskUnchanged, HandleKept
  DEF timerVars, serverVars, HandleInv, HandleIsAwaited
<1>5. BagInv' /\ RecordingEnabled'
  BY <1>1, <1>2, ExitPreserves, InvParts DEF ChildExits, RecordingEnabled
<1> QED BY <1>1, <1>3, <1>4, <1>5, InvAgain

LEMMA ServerAnswersPreserves ==
  ASSUME AgentInv, NEW g \in Goals, ServerAnswers(g)
  PROVE  AgentInv'
<1>1. /\ UNCHANGED <<params, missionVars, timerVars, robot_pose, handleVars,
                     outcome, unanswered, cancels, bagVars>>
      /\ reply' \in Replies
  BY DEF ServerAnswers, Replies
<1>2. PICK answer \in {"accepted", "refused"} : goal' = [goal EXCEPT ![g] = answer]
  BY DEF ServerAnswers
<1>3. goal[g] = "requested"
  BY DEF ServerAnswers
<1>4. AgentTypeOK'
  BY <1>1, <1>2, InvParts
  DEF AgentTypeOK, missionVars, timerVars, handleVars, GoalPhases, Outcomes
<1>5. TaskInv'
  <2>1. \A h \in Goals : goal[h] # "free" => goal'[h] # "free"
    BY <1>2, InvParts DEF AgentTypeOK
  <2> QED
    BY <1>1, <2>1, InvParts
    DEF TaskInv, TaskIsPlanned, NeverWaitsOnNothing, Plannable, InFlight, missionVars, timerVars
<1>6. HandleInv'
  BY <1>1, <1>2, <1>3, InvParts, HandleKept DEF HandleInv, HandleIsAwaited, AgentTypeOK
<1>7. BagInv' /\ RecordingEnabled'
  BY <1>1, BagUnchanged, InvParts DEF bagVars, RecordingEnabled
<1> QED BY <1>1, <1>4, <1>5, <1>6, <1>7, InvAgain

LEMMA ServerEndsPreserves ==
  ASSUME AgentInv, NEW g \in Goals,
         NEW how \in {"SUCCEEDED", "ABORTED", "CANCELED"}, ServerEnds(g, how)
  PROVE  AgentInv'
<1>1. /\ UNCHANGED <<params, missionVars, timerVars, robot_pose, handleVars,
                     goal, unanswered, cancels, bagVars>>
      /\ outcome' = [outcome EXCEPT ![g] = how]
      /\ reply' \in Replies
  BY DEF ServerEnds, Replies
<1>2. AgentTypeOK'
  BY <1>1, InvParts
  DEF AgentTypeOK, missionVars, timerVars, handleVars, Outcomes, GoalPhases
<1>3. TaskInv' /\ HandleInv'
  BY <1>1, InvParts, TaskUnchanged, HandleKept DEF timerVars, HandleInv, HandleIsAwaited
<1>4. BagInv' /\ RecordingEnabled'
  BY <1>1, BagUnchanged, InvParts DEF bagVars, RecordingEnabled
<1> QED BY <1>1, <1>2, <1>3, <1>4, InvAgain

\* What the constructor leaves, for the first launch and for every other.
LEMMA InitialPreserves == Init => AgentInv
<1> SUFFICES ASSUME Init PROVE AgentInv
  OBVIOUS
<1>1. BagInv /\ RecordingEnabled
  BY BagInitial DEF Init, BagInit, RecordingEnabled
<1>a. reply \in Replies
  BY DEF Init, Replies
<1>b. goal \in [Goals -> GoalPhases] /\ outcome \in [Goals -> Outcomes]
  BY DEF Init, GoalPhases, Outcomes
<1>c. mission_waypoints \in Seq(Places) /\ unanswered \in Seq(Goals)
  BY DEF Init
<1>2. AgentTypeOK
  BY <1>b, <1>c DEF Init, AgentTypeOK, Status
<1>3. TaskInv /\ HandleInv
  BY DEF Init, TaskInv, TaskIsPlanned, NeverWaitsOnNothing, HandleInv, HandleIsAwaited,
     NoGoalSilentlyDropped
<1> QED BY <1>1, <1>a, <1>2, <1>3, InvParts

LEMMA RestartPreserves ==
  ASSUME AgentInv, Restart
  PROVE  AgentInv'
<1>1. BagInit'
  BY InvParts, DestroyPreserves, ParamsTypes DEF Restart, RecordingEnabled, AgentTypeOK
<1>2. BagInv' /\ RecordingEnabled'
  BY <1>1, NoPidAssumption DEF BagInit, BagInv, BagTypeOK, ChildrenTracked,
     FlagMatchesPid, PidsAreOurs, NoOrphanChild, ProcStates, RecorderStates,
     ConversionStates, RecordingEnabled
<1>a. reply' \in Replies
  BY DEF Restart, Replies
<1>b. goal' \in [Goals -> GoalPhases] /\ outcome' \in [Goals -> Outcomes]
  BY DEF Restart, GoalPhases, Outcomes
<1>c. mission_waypoints' \in Seq(Places) /\ unanswered' \in Seq(Goals)
  BY DEF Restart
<1>3. AgentTypeOK'
  BY <1>b, <1>c, InvParts DEF Restart, AgentTypeOK, Status, GoalPhases, Outcomes
<1>4. TaskInv'
  BY TaskOver DEF Restart
<1>5. HandleInv'
  BY DEF Restart, HandleInv, HandleIsAwaited, NoGoalSilentlyDropped
<1> QED BY <1>a, <1>2, <1>3, <1>4, <1>5, InvAgain

LEMMA StutterPreserves ==
  ASSUME AgentInv, UNCHANGED vars
  PROVE  AgentInv'
<1>1. UNCHANGED <<params, missionVars, timerVars, robot_pose, handleVars, serverVars,
                  reply, bagVars>>
  BY DEF vars, agentVars
<1>2. AgentTypeOK' /\ reply' \in Replies
  BY <1>1, InvParts DEF AgentTypeOK, missionVars, timerVars, handleVars, serverVars, Replies
<1>3. TaskInv' /\ HandleInv'
  BY <1>1, InvParts, TaskUnchanged, HandleKept
  DEF timerVars, serverVars, HandleInv, HandleIsAwaited
<1>4. BagInv' /\ RecordingEnabled'
  BY <1>1, BagUnchanged, InvParts DEF bagVars, RecordingEnabled
<1> QED BY <1>2, <1>3, <1>4, InvAgain

LEMMA NextPreserves ==
  ASSUME AgentInv, [Next]_vars
  PROVE  AgentInv'
BY TargetPosePreserves, StartScanAllPreserves, CancelNavPreserves, RecordPreserves,
   QueryPreserves, GoalResponsePreserves, ResultPreserves, RetryTimerPreserves,
   DebugTimerPreserves, PoseCallbackPreserves, ChildExitPreserves,
   ServerAnswersPreserves, ServerEndsPreserves, RestartPreserves, StutterPreserves
DEF Next

------------------------------------------------------------------------------
(* Theorems                                                                *)

\* The inductive invariant holds of every behaviour of the node.
THEOREM AgentInvariant == Spec => []AgentInv
<1>1. Init => AgentInv
  BY InitialPreserves
<1>2. AgentInv /\ [Next]_vars => AgentInv'
  BY NextPreserves
<1> QED BY <1>1, <1>2, PTL DEF Spec

\* Every member of the node keeps its type.
THEOREM TypeCorrect == Spec => []TypeOK
<1>1. AgentInv => TypeOK
  BY DEF AgentInv
<1> QED BY <1>1, AgentInvariant, PTL

\* The node never signals a process that is not its own, never loses a child
\* and never runs two recorders or two conversions.
THEOREM ChildrenSafe == Spec => []ChildrenTracked
<1>1. AgentInv => ChildrenTracked
  BY DEF AgentInv
<1> QED BY <1>1, AgentInvariant, PTL

\* An active task is reported as RUNNING and has waypoints to execute.
THEOREM TaskSafe == Spec => []TaskIsPlanned
<1>1. AgentInv => TaskIsPlanned
  BY DEF AgentInv, TaskInv
<1> QED BY <1>1, AgentInvariant, PTL

\* A task in progress is waiting for something that will come: a goal's answer,
\* its result, or a running timer.
THEOREM TaskAwake == Spec => []NeverWaitsOnNothing
<1>1. AgentInv => NeverWaitsOnNothing
  BY DEF AgentInv, TaskInv
<1> QED BY <1>1, AgentInvariant, PTL

\* The goal handle the node keeps is one the client library still knows.
THEOREM HandleSafe == Spec => []HandleIsAwaited
<1>1. AgentInv => HandleIsAwaited
  BY DEF AgentInv, HandleInv
<1> QED BY <1>1, AgentInvariant, PTL

\* When the node gives up a task it asks for the cancellation of every goal it
\* can reach.
THEOREM CancelReaches == Spec => []NoGoalSilentlyDropped
<1>1. AgentInv => NoGoalSilentlyDropped
  BY DEF AgentInv, HandleInv
<1> QED BY <1>1, AgentInvariant, PTL

------------------------------------------------------------------------------
(* Steps that may not happen                                               *)

\* Whatever a segment step does, it leaves no task or a task with the waypoints
\* it was given.
LEMMA SegmentKeepsWaypoints ==
  ASSUME NEW way, ExecuteNextNavSegment(way), is_task_active'
  PROVE  mission_waypoints' = way
BY DEF ExecuteNextNavSegment, CancelAllGoals

\* No step replaces the waypoints of a task that goes on.
THEOREM NotRedirected == Spec => MissionUndisturbed
<1>1. ASSUME Next, is_task_active, is_task_active'
      PROVE  mission_waypoints' = mission_waypoints
  <2>1. CASE TargetPose \/ StartScanAll
    BY <1>1, <2>1 DEF TargetPose, StartScanAll, Accepting, Answer, missionVars
  <2>2. CASE CancelNav \/ Restart
    BY <1>1, <2>2 DEF CancelNav, CancelAllGoals, Restart
  <2>3. CASE RecordStart \/ RecordStop \/ GetPose \/ GetStatus
    BY <2>3 DEF RecordStart, RecordStop, GetPose, GetStatus, Answer, missionVars
  <2>4. CASE GoalResponse
    BY <1>1, <2>4 DEF GoalResponse, CancelAllGoals
  <2>5. ASSUME NEW g \in Goals, Result(g)
        PROVE  mission_waypoints' = mission_waypoints
    BY <2>5 DEF Result
  <2>6. CASE RetryTimer
    BY <1>1, <2>6, SegmentKeepsWaypoints DEF RetryTimer
  <2>7. CASE DebugTimer
    BY <2>7 DEF DebugTimer
  <2>8. CASE PoseCallback \/ ChildExit
    BY <2>8 DEF PoseCallback, ChildExit, missionVars
  <2>9. ASSUME NEW g \in Goals, ServerAnswers(g)
        PROVE  mission_waypoints' = mission_waypoints
    BY <2>9 DEF ServerAnswers, missionVars
  <2>10. ASSUME NEW g \in Goals, NEW how, ServerEnds(g, how)
         PROVE  mission_waypoints' = mission_waypoints
    BY <2>10 DEF ServerEnds, missionVars
  <2> QED
    BY <1>1, <2>1, <2>2, <2>3, <2>4, <2>5, <2>6, <2>7, <2>8, <2>9, <2>10 DEF Next
<1>2. [Next]_vars =>
        [is_task_active /\ is_task_active' => mission_waypoints' = mission_waypoints]_vars
  BY <1>1
<1> QED BY <1>2, PTL DEF Spec, MissionUndisturbed

------------------------------------------------------------------------------
(* Without cancellations                                                   *)

\* What makes OneGoalAtATime inductive: the debug timer and goals belong to
\* different launches, and the timer to a task.
OneGoalInv ==
  /\ OneGoalAtATime
  /\ debug_timer => params.debug_mode /\ is_task_active
  /\ params.debug_mode => InFlight = {} /\ ~retry_timer

\* A segment step from a node with no goal in flight sends at most one, and
\* none in debug mode.
LEMMA SegmentSendsOne ==
  ASSUME AgentInv, NEW way, ExecuteNextNavSegment(way), InFlight = {},
         params' = params, ~debug_timer
  PROVE  OneGoalInv'
<1>1. CASE CancelAllGoals /\ UNCHANGED <<debug_timer, goal, outcome, unanswered>>
  BY <1>1 DEF CancelAllGoals, StopRetrying, CancelGoal, OneGoalInv, OneGoalAtATime, InFlight
<1>2. CASE /\ retry_timer' = FALSE
           /\ is_task_active' = TRUE
           /\ params.debug_mode
           /\ UNCHANGED <<goal, outcome, unanswered>>
  BY <1>2 DEF OneGoalInv, OneGoalAtATime, InFlight
<1>3. ASSUME retry_timer' = FALSE, is_task_active' = TRUE, ~params.debug_mode,
             UNCHANGED debug_timer,
             NEW g \in Goals, goal' = [goal EXCEPT ![g] = "requested"]
      PROVE  OneGoalInv'
  <2>1. \A h \in InFlight' : h = g
    BY <1>3, InvParts DEF InFlight, AgentTypeOK
  <2> QED BY <1>3, <2>1 DEF OneGoalInv, OneGoalAtATime
<1> QED BY <1>1, <1>2, <1>3 DEF ExecuteNextNavSegment, SendGoal, StopRetrying

\* A step that leaves alone which goals are in flight, the task and the timers.
LEMMA OneGoalUnchanged ==
  ASSUME OneGoalInv, UNCHANGED <<params, is_task_active, retry_timer, debug_timer>>,
         InFlight' = InFlight
  PROVE  OneGoalInv'
BY DEF OneGoalInv, OneGoalAtATime

LEMMA AnswerKeepsOneGoal ==
  ASSUME OneGoalInv, NEW r, Answer(r), UNCHANGED params
  PROVE  OneGoalInv'
BY OneGoalUnchanged DEF Answer, missionVars, timerVars, serverVars, InFlight

\* A mission starts on a node without a task, hence without a goal.
LEMMA MissionKeepsOneGoal ==
  ASSUME AgentInv, OneGoalInv, ~is_task_active, NEW target, StartMission(target),
         UNCHANGED params
  PROVE  OneGoalInv'
<1>1. InFlight = {} /\ ~debug_timer
  BY DEF OneGoalInv, OneGoalAtATime
<1>2. CASE BeginMission(target)
  BY <1>1, <1>2, SegmentSendsOne DEF BeginMission
<1>3. CASE RefuseMission
  <2>1. /\ UNCHANGED <<is_task_active, debug_timer, params>>
        /\ InFlight' = {} /\ retry_timer' = FALSE
    BY <1>1, <1>3 DEF RefuseMission, StopRetrying, serverVars, InFlight
  <2> QED BY <1>1, <2>1 DEF OneGoalInv, OneGoalAtATime
<1>4. CASE UNCHANGED <<missionVars, timerVars, handleVars, serverVars, bagVars>>
  BY <1>4, OneGoalUnchanged DEF missionVars, timerVars, serverVars, InFlight
<1> QED BY <1>2, <1>3, <1>4 DEF StartMission

\* Settling the goal in flight, whichever way, leaves none.
LEMMA SettledGoal ==
  ASSUME AgentInv, OneGoalInv, NEW g \in Goals, goal[g] # "free",
         goal' = [goal EXCEPT ![g] = "free"]
  PROVE  InFlight' = {} /\ ~params.debug_mode /\ ~debug_timer /\ is_task_active
<1>1. g \in InFlight /\ \A h \in InFlight : h = g
  BY DEF OneGoalInv, OneGoalAtATime, InFlight
<1>2. InFlight' = {}
  BY <1>1, InvParts DEF InFlight, AgentTypeOK
<1> QED BY <1>1, <1>2 DEF OneGoalInv, OneGoalAtATime

LEMMA ResponseKeepsOneGoal ==
  ASSUME AgentInv, OneGoalInv, GoalResponse
  PROVE  OneGoalInv'
<1> DEFINE g == Head(unanswered)
<1>1. g \in Goals /\ UNCHANGED <<params, debug_timer>>
  BY InvParts DEF GoalResponse, AgentTypeOK
<1>2. CASE goal[g] = "refused" /\ goal' = [goal EXCEPT ![g] = "free"] /\ CancelAllGoals
  <2>1. InFlight' = {} /\ ~debug_timer
    BY <1>1, <1>2, SettledGoal
  <2> QED
    BY <1>1, <1>2, <2>1 DEF CancelAllGoals, StopRetrying, CancelGoal, OneGoalInv, OneGoalAtATime
<1>3. CASE /\ goal[g] = "accepted"
           /\ goal' = [goal EXCEPT ![g] = "awaited"]
           /\ UNCHANGED <<is_task_active, retry_timer>>
  <2>1. InFlight' = InFlight
    BY <1>1, <1>3, InvParts DEF InFlight, AgentTypeOK
  <2> QED BY <1>1, <1>3, <2>1, OneGoalUnchanged
<1> QED BY <1>2, <1>3 DEF GoalResponse

LEMMA ResultKeepsOneGoal ==
  ASSUME AgentInv, OneGoalInv, NEW g \in Goals, Result(g)
  PROVE  OneGoalInv' /\ is_task_active
<1>1. goal[g] # "free" /\ goal' = [goal EXCEPT ![g] = "free"]
      /\ UNCHANGED <<params, debug_timer>>
  BY DEF Result, DropHandle
<1>2. InFlight' = {} /\ ~params.debug_mode /\ ~debug_timer /\ is_task_active
  BY <1>1, SettledGoal
<1> QED BY <1>1, <1>2 DEF OneGoalInv, OneGoalAtATime

LEMMA TimersKeepOneGoal ==
  ASSUME AgentInv, OneGoalInv, RetryTimer \/ DebugTimer
  PROVE  OneGoalInv'
<1>1. CASE RetryTimer
  <2>1. InFlight = {} /\ ~debug_timer
    BY <1>1 DEF RetryTimer, OneGoalInv, OneGoalAtATime
  <2> QED BY <1>1, <2>1, SegmentSendsOne DEF RetryTimer
<1>2. CASE DebugTimer
  <2>1. debug_timer' = FALSE /\ InFlight' = InFlight
        /\ UNCHANGED <<params, retry_timer>>
    BY <1>2 DEF DebugTimer, serverVars, InFlight
  <2>2. InFlight = {} /\ ~retry_timer
    BY <1>2 DEF DebugTimer, OneGoalInv
  <2> QED BY <2>1, <2>2 DEF OneGoalInv, OneGoalAtATime
<1> QED BY <1>1, <1>2

LEMMA EnvironmentKeepsOneGoal ==
  ASSUME AgentInv, OneGoalInv
  PROVE  /\ PoseCallback \/ ChildExit \/ RecordStart \/ RecordStop => OneGoalInv'
         /\ \A g \in Goals : ServerAnswers(g) => OneGoalInv'
         /\ \A g \in Goals : \A how : ServerEnds(g, how) => OneGoalInv'
         /\ Restart => OneGoalInv'
         /\ UNCHANGED vars => OneGoalInv'
<1>1. ASSUME PoseCallback \/ ChildExit \/ RecordStart \/ RecordStop
      PROVE  OneGoalInv'
  BY <1>1, OneGoalUnchanged
  DEF PoseCallback, ChildExit, RecordStart, RecordStop, missionVars, timerVars,
      serverVars, InFlight
<1>2. ASSUME NEW g \in Goals, ServerAnswers(g)
      PROVE  OneGoalInv'
  <2>1. PICK answer \in {"accepted", "refused"} : goal' = [goal EXCEPT ![g] = answer]
    BY <1>2 DEF ServerAnswers
  <2>2. goal[g] = "requested"
    BY <1>2 DEF ServerAnswers
  <2>3. InFlight' = InFlight
    BY <2>1, <2>2, InvParts DEF InFlight, AgentTypeOK
  <2> QED BY <1>2, <2>3, OneGoalUnchanged DEF ServerAnswers, missionVars, timerVars
<1>3. ASSUME NEW g \in Goals, NEW how, ServerEnds(g, how)
      PROVE  OneGoalInv'
  BY <1>3, OneGoalUnchanged DEF ServerEnds, missionVars, timerVars, InFlight
<1>4. ASSUME Restart
      PROVE  OneGoalInv'
  <2>1. InFlight' = {}
    BY <1>4 DEF Restart, InFlight
  <2> QED BY <1>4, <2>1 DEF Restart, OneGoalInv, OneGoalAtATime
<1>5. ASSUME UNCHANGED vars
      PROVE  OneGoalInv'
  BY <1>5, OneGoalUnchanged
  DEF vars, agentVars, missionVars, timerVars, serverVars, InFlight
<1> QED BY <1>1, <1>2, <1>3, <1>4, <1>5

LEMMA NextKeepsOneGoal ==
  ASSUME "cancel_nav" \notin Commands, AgentInv, OneGoalInv, [Next]_vars
  PROVE  OneGoalInv'
<1>1. CASE TargetPose \/ StartScanAll
  BY <1>1, AnswerKeepsOneGoal, MissionKeepsOneGoal DEF TargetPose, StartScanAll, Accepting
<1>2. CASE GetPose \/ GetStatus
  BY <1>2, AnswerKeepsOneGoal DEF GetPose, GetStatus
<1>3. ~CancelNav
  BY DEF CancelNav
<1> QED
  BY <1>1, <1>2, <1>3, ResponseKeepsOneGoal, ResultKeepsOneGoal, TimersKeepOneGoal,
     EnvironmentKeepsOneGoal
  DEF Next

LEMMA InitialOneGoal == Init => OneGoalInv
BY DEF Init, OneGoalInv, OneGoalAtATime, InFlight

LEMMA OneGoalInvariant ==
  ASSUME "cancel_nav" \notin Commands
  PROVE  Spec => []OneGoalInv
<1>1. Init => OneGoalInv
  BY InitialOneGoal
<1>2. AgentInv /\ OneGoalInv /\ [Next]_vars => OneGoalInv'
  BY NextKeepsOneGoal
<1> QED BY <1>1, <1>2, AgentInvariant, PTL DEF Spec

\* Unless the operator cancels, at most one goal of the node is on the server,
\* and it belongs to the task in progress: retries never overlap.
THEOREM OneGoal ==
  ASSUME "cancel_nav" \notin Commands
  PROVE  Spec => []OneGoalAtATime
<1>1. OneGoalInv => OneGoalAtATime
  BY DEF OneGoalInv
<1> QED BY <1>1, OneGoalInvariant, PTL

\* Unless the operator cancels, completion is announced exactly when an active
\* task ends.
THEOREM CompletionEarned ==
  ASSUME "cancel_nav" \notin Commands
  PROVE  Spec => CompletionIsEarned
<1> DEFINE Earned == reply' = <<"info mission_complete">> /\ reply' # reply =>
                       is_task_active /\ ~is_task_active'
<1>1. ASSUME AgentInv, OneGoalInv, Next, reply' = <<"info mission_complete">>
      PROVE  is_task_active /\ ~is_task_active'
  <2>1. CASE DebugTimer
    BY <1>1, <2>1 DEF DebugTimer, OneGoalInv, CompleteMission, EndTask, FinalState
  <2>2. ASSUME NEW g \in Goals, Result(g)
        PROVE  is_task_active /\ ~is_task_active'
    BY <1>1, <2>2, ResultKeepsOneGoal DEF Result, RetryLater, ArmRetry, CompleteMission, EndTask, FinalState, Silent
  <2>3. ~(TargetPose \/ StartScanAll)
    BY <1>1 DEF TargetPose, StartScanAll, Accepting, Answer, StartMission, BeginMission,
                RefuseMission, Silent
  <2>4. ~(RecordStart \/ RecordStop \/ GetPose \/ GetStatus)
    BY <1>1 DEF RecordStart, RecordStop, GetPose, GetStatus, Answer
  <2>5. ~(CancelNav \/ GoalResponse \/ RetryTimer \/ PoseCallback \/ ChildExit \/ Restart)
    BY <1>1 DEF CancelNav, GoalResponse, RetryTimer, PoseCallback, ChildExit, Restart, Silent
  <2>6. ~(\E g \in Goals : ServerAnswers(g) \/ \E how : ServerEnds(g, how))
    BY <1>1 DEF ServerAnswers, ServerEnds, Silent
  <2> QED BY <1>1, <2>1, <2>2, <2>3, <2>4, <2>5, <2>6 DEF Next
<1>2. AgentInv /\ OneGoalInv /\ [Next]_vars => [Earned]_vars
  BY <1>1
<1>3. Spec => [][Earned]_vars
  BY <1>2, AgentInvariant, OneGoalInvariant, PTL DEF Spec
<1> QED BY <1>3 DEF CompletionIsEarned
==============================================================================
