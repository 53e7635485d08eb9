# TLA+ models of the AMR2 navigation session

This directory holds a formal model of the first-party code of the repository:
the ROS 2 nodes that take commands from an operator, drive Nav2, record bags,
write to the wheels, build a map and localize in it. Modules named `MC...` and
the `.cfg` files are checked with TLC; modules named `...Proofs` are checked
with the TLA+ proof system (`tlapm`). `PROJECT.json` maps every definition to
the source lines it models.

Paths below are relative to `src/ros2_ws/src`.

## 1. Inventory of the system

| Component | State it keeps | Operations | Interacts with |
|---|---|---|---|
| robot agent (`mobile_robot/src/robot_agent.cpp`) | mission state, waypoints, goal handle, retry and debug timers, last pose | commands (`target_pose`, `start_scan_all`, `cancel_nav`, `cmd_vel`, `get_pose`, `get_status`, `record_start`, `record_stop`), goal response, result, timers, pose | UDP server (two topics), Nav2 `FollowPath` action, child processes, `/cmd_vel` |
| bag recorder (same file) | `is_recording_`, `recording_pid_`, `current_bag_name_`, `ssh_conversion_pid_` | start, stop (SIGINT, SIGTERM, SIGKILL with bounded waits), conversion, cleanup, destructor | the kernel (fork, kill, waitpid), `ros2 bag record`, the converter |
| twist controller (`mobile_robot/src/twist_controller.cpp`) | serial descriptor, error count, watchdog flag, straight-run heading | `cmd_vel`, IMU, watchdog tick, read thread, destructor | `/cmd_vel`, IMU, the serial port of the base |
| UDP server (`mobile_robot/src/udp_server.cpp`) | socket, last client address | 10 ms drain of the socket, reply callback | operators, robot agent |
| goal script (`mobile_robot/scripts/send_nav_goal.py`) | one goal handle | send, wait, cancel on Ctrl+C | Nav2 `NavigateToPose` |
| launch files (`mobile_robot/launch`) | - | start order and delays, lifecycle transitions of the localization | all nodes |
| mapper synchronisation (`map_updater_ros2/src/LIVMapper.cpp`) | lidar, image and IMU buffers, last timestamps, `lidar_pushed`, measurement group | sensor callbacks on several executor threads, `sync_packages` in a timer | lidar, camera, IMU drivers |
| map saving (`map_updater_ros2/src/LIVMapper_mapping.cpp`) | auto-save flag, last message time | `/save_map` service, auto-mode timer | operator, file system |
| IMU processing (`map_updater_ros2/src/IMU_Processing.cpp`) | initialisation counters, filter state | initialise, propagate, undistort, reset | mapper synchronisation |
| voxel map (`map_updater_ros2/src/voxel_map.cpp`) | hash map of octrees | build, update, cut, freeze, slide | mapper |
| visual odometry (`map_updater_ros2/src/{vio,visual_point,frame}.cpp`) | map of visual points with their observations and references | retrieve, align, generate, update points and references | mapper |
| preprocessing (`map_updater_ros2/src/preprocess.cpp`) | the cloud of one scan | one handler per lidar type: filter, time, sort | sensor callbacks, IMU processing |
| lidar localization (`3rdparty/ndt/lidar_localization_ros2`) | lifecycle state, initial pose, map, last scan, odometry and IMU buffers | lifecycle transitions, pose, map, odometry, IMU and cloud callbacks | launch, robot agent (`pcl_pose`), Nav2 |
| vendored libraries (`3rdparty/{kiss-icp,rpg_vikit,livox_to_pointcloud2}`, `ndt_omp_ros2`) | - | - | used by the above, not this program's logic |

What makes these components correct, and what is hard about them:

* **Robot agent.** One executor thread, but the action protocol spans three
  asynchronous exchanges (goal response, result, cancellation) that interleave
  with two timers and the operator. A goal may be cancelled before it is
  answered; a result may arrive for a goal of an earlier mission; `result_callback`
  never looks at which goal ended. Correct means: an active task is planned,
  reported and never left waiting for nothing; cancel requests use live handles
  and skip none; a task in progress is never redirected; without cancellations
  goals never preempt each other, completion is reported once, every mission ends.
* **Bag recorder.** Pids outlive processes as zombies, children exit on their
  own, a stop has failure paths at fork, and four callers share one recorder. A
  stop takes seconds and may fail, and the launch system sends the node SIGTERM
  five seconds after Ctrl+C and SIGKILL two seconds later. Correct means: signals
  only reach the node's own children, no child is lost but one that was sent
  SIGKILL, a stop returns, and five seconds suffice for one child unless it heeds
  neither SIGINT nor SIGTERM.
* **Twist controller.** A second thread reads the port outside the mutex; the
  port disappears and comes back; the watchdog speaks once. Correct means: only
  the port is written to, no descriptor leaks, commands get through again after
  a fault, the wheels stop when commands stop, the destructor ends.
* **UDP server.** Replies are routed to the last sender; the topics keep ten
  messages; the agent blocks for seconds while it stops a recorder. Correct means:
  commands run once and in order, an answer goes to who asked or to somebody heard
  since, every command is answered unless newer messages or a restart overtook it.
* **Mapper synchronisation.** Buffers are tested and read without the mutex;
  loop-backs clear one of two parallel queues; a frame is chosen in one call and
  popped in a later one.
  With a camera a scan is cut at an image, the rest waits for the next frame, and
  three buffers are emptied by two different steps. Correct means: every frame
  leaves once, with its own stamp, its own IMU samples, no point lost or given a
  wrong time, and coloured once, in order, from an image that goes with its time.
* **Preprocessing and IMU processing.** The undistortion walks a cloud backwards
  and takes for granted an order the handlers establish, each in its own way.
  Correct means: times ascend, the integration covers the frame, each point is moved
  once, with the pose it was measured at.
* **Voxel map.** Five thresholds that differ by one decide when a node is
  fitted, split, frozen and emptied. Correct means: no plane is hidden or stale, and
  memory is bounded.
* **Visual odometry.** Observations are pruned, replaced and referred to by
  pointer; the map is searched at one pose and filled at another. Correct means: no
  reference dangles, no list is empty or overlong, and no point that is looked for
  where it is made is made twice.
* **Map saving, localization, goal script.** Service answers, lifecycle
  restarts with stale flags, cancellation racing the result.

`PROJECT.json` lists every hazard at its line, with the properties that cover it
or the reason none does.

## 2. What is modelled

### BagRecorder

State: the four members and `proc`, the kernel's table of the node's children
(`recorder`, `conversion`, each running or a zombie). `StartBagRecord`,
`StopBagRecord` and `DestroyRecorder` are `start_ros2_bag_record`,
`stop_ros2_bag_record` with `cleanup_ssh_process`, and the destructor, with all
early returns and both fork failures; `ChildExits` is a child ending by itself.
`RobotAgent` extends the module and calls these operators where the code does.
The thread blocks while it stops a child, so a stop is one step; the step takes
for granted that SIGKILL ends a child within the last wait of `wait_for_child`.
`BagStop` drops that and shows what is left of the promise. `BagNext` and
`BagSpec` are the module by itself, as the abstract specification `BagStop`
implements.

### BagStop

The same code with a stop taken apart: `BeginStop` (SIGINT), `ChildReaped`
(`waitpid` finds the child), `SignalHarder` (a deadline passes: SIGTERM, SIGKILL),
`Forget` (the last wait ends without the child), with the conversion after the
recorder (`conv_term`, `conv_kill`). `Tick` is a second; a child may end at any
moment, be asleep in the kernel where no signal reaches it (`Blocks`), and wake up.
`Shutdown` is SIGINT to the node: the callback under way goes on (`closing`), then
`SpinReturns` takes `main` through `rclcpp::shutdown()`, and `DestroyRecorder`,
`DestroyConversion` and `Exit` are the destructor (`destroying`). launch sends SIGTERM
after `sigterm_timeout` seconds (`LaunchTerminates`) and SIGKILL `sigkill_timeout`
seconds later (`LaunchKills`). As long as a callback runs, rclcpp's handler takes
the SIGTERM and nothing happens; `rclcpp::shutdown()` removes the handlers, so a
SIGTERM that meets the destructor ends the node there. `Restart` is a new node that
knows nothing of children left over. A zombie is found before the clock moves on:
the code polls every 50 ms.

Refinement. `Recorder` instantiates `BagRecorder` with what the node can know: a
recorder that has been given up stays recorded until its stop returns, and a child
no member names counts as gone. Under this mapping the return of a stop is
`StopBagRecord`, the end of a node, however it comes, is `DestroyRecorder`, and the
signals and waits in between are stutters.

### RemoteControl

`udp_server_node`, its two topics of bounded depth (`Publish` drops the oldest
message) and the recording side of `robot_agent_node`, on top of `BagRecorder`.
`ReadDatagram` and `DrainEnds` are `check_udp_loop`, `ReplyCallback` sends to the
last sender, `TakeCommand` is `process_command_string` for `record_start`,
`record_stop` and `get_status`. An empty datagram (`ReadEmpty`) is no command, but
`recvfrom` has kept its sender by then. `record_stop` is answered before the stop; the
agent takes nothing until `StopReturns`. `MissionEnds` is a completion that stops
the recorder and reports without a request. Datagrams the network lost were never
read; those it reordered are numbered as read.

### RobotAgent

One action per callback: the commands (`TargetPose`, `StartScanAll`, `CancelNav`,
`RecordStart`, `RecordStop`, `GetPose`, `GetStatus`), `GoalResponse`, `Result`,
`RetryTimer`, `DebugTimer`, `PoseCallback`; plus `ServerAnswers` and `ServerEnds`
(the `FollowPath` server, external), `ChildExit` and `Restart`. An action is the
whole callback: `TargetPose` contains `start_mission`, `start_ros2_bag_record`,
`execute_next_nav_segment` and, where planning fails, `cancel_all_goals`.

* A goal goes `requested -> accepted | refused -> awaited -> free`; `outcome` is
  what the server did with it, `cancels` the goals it was asked to cancel. The
  server may end a goal before the node has seen its acceptance, and may end a
  goal as SUCCEEDED or ABORTED although a cancellation is under way.
* A pose is one of a few `Places`. Planning is reduced to the relation
  `Connected`: A* finds a path between two places or it does not. Snapping a
  target to the map is absorbed in the choice of the place. Which points a patrol
  visits depends on distances, so any two places may be chosen.
* `reply` is the last message on `udp_write_string`.
* The tests at `robot_agent.cpp:682` (fewer than two waypoints) and `:729` (empty
  path) are dead: `TaskIsPlanned` is the reason, and it is proved. A retry timer
  that fires with no active task does nothing and is left out as a stuttering step.
* Parameters are read once, in the constructor (the start pose is read later, and
  never changed by any file of the repository), so they are a constant of a run.

### TwistController

The executor's `send_command` is cut at its locks (`Connect`, `WriteSucceeds`,
`WriteFails`, `Close`), because the read thread can run between them; each
callback sets the command and calls it. `TakeFd` and `Read` are the two halves of
an iteration of the read thread. The file table of the process tells apart the
port, the port after it was unplugged, and files of other parts of the process.
`wheels` is the last command the base received; the base is assumed to keep it.
Velocities and yaw are integers: half the wheel base and the rpm factor are 1,
and a full turn is `2 * HalfTurn` steps. The constructor's `init_serial` is part
of `Init`; `open` succeeds when the base is plugged in.

### MapSaving

The `/save_map` service (`SaveMap`), `savePCD` and the automatic mode of
`timer_callback` (`AutoSave`). The map is the sequence of frames added to it,
`saved` how many of them the file holds, and `silent` says that the timeout has
passed since the last message. The deployed file has `auto_mode.enabled: false`;
the constant `AutoMode` covers both. `MapperSync` extends the module: timers and
the service share the node's default callback group, so a save never overlaps a
timer call.

### MapperSync

The lidar and IMU callbacks and `sync_packages` in the deployed mode (`img_en: 0`,
`imu_en: true`, hence `ONLY_LIO`).

* The sensor subscriptions are in a reentrant group of a multi-threaded executor.
  `TakeLidar` and `TakeImu` are a thread taking a message; up to `MaxInFlight`
  callbacks of one subscription are under way and reach `mtx_buffer` in any order.
* `livox_pcl_cbk` is cut where another thread can see a difference: `LidarLock`
  (loop back, preprocessing, rejection of an empty cloud), `PushCloud`,
  `PushStamp`. `imu_cbk` changes everything at once under the mutex and is one step.
* `timer_callback` is cut at each unlocked read of a buffer: the test of the clouds
  (`TimerFires`), the choice of a frame (`ChooseFrame`), its stamp (`ReadStamp`), the
  test for the newest IMU sample and the locked drain (`AwaitImu`, `Drain`), the
  processing (`InitialiseImu`, `MapFrame`). Tests whose outcome only the timer
  thread could change back are merged with the step after them.
* Reading or popping an empty deque is undefined; the timer then goes to
  `undefined` and takes no more steps. Nothing is claimed about what follows, and
  the runs do not check for deadlock for this reason and because the sensors of the
  model stop after the last frame.
* A cloud is the number of its frame and the number of its points (0, 1, or 2 for
  more). Times are integers, one IMU period apart; every frame lasts `FrameSpan`
  periods; the frame ends when the next one begins. The depth of the topics (20 and
  2000) is not reached and messages are not lost on the way.
* Every frame with points that is undistorted is taken to add to the map; the
  filters that may leave nothing of it are numerical.

### LivoSync

All three modes of `sync_packages`, above all `LIVO`, with `img_cbk` and the parts
of `handleLIO` and `handleVIO` that share its buffers. `PushCloud`/`PushCloudTime`
and `ImgCallback`/`PushImageTime` are the two pushes of a callback that the timer
can fall between; the timer is cut at every access a callback can disturb
(`ReadImageTime`, `ThrowImage`, `DrainImu`, `CutScan`, `FrameComplete`, and, of the image
that is taken at last, `ReadVioTime`, `ReadImage` and `TakeImage`: its time, itself, and
both popped). A scan is its points, one at each instant; `Cut` is where an image falls
in it, `BeforeCut` goes to the frame and `LeftOver`, with its times shifted, to the
next. `Through` is how far the loop over the IMU buffer gets before it meets a sample
that is too late. `ProcessLio` includes the image
`pose_output_en` saves and erases, `ProcessVio` the colouring (`HandleVio`): a frame's
points join those that wait, and at every `pub_scan_num`-th frame the image colours what
it shows of them all; they go if it shows a point, and wait on if it shows none. Points
are told apart by their frame's time; what an image shows is open (`seen`). `lidar_en` is
taken to be on. `jumped` records that an image was taken whose time is not the one the frame
was cut at. The lidar's clock does not jump here and its callbacks do not overlap:
that is `MapperSync`'s subject.

### ScanTiming

The handlers of `preprocess.cpp` for every lidar type (`AviaHandler`,
`VelodyneHandler`, `OusterHandler`, `PandarHandler`, `RobosenseHandler`) as
operators from a scan to a cloud, and `UndistortPcl`: which samples it integrates
(`SamplesUpTo`, `WithLast`), its time steps (`Step`) and their sum (`Integrated`), the
poses it keeps (`Poses`) and which point is moved with which (`MoveAll`). `std::sort`
may leave points with the same time in any order, so `Process` is the set of the clouds
that may come of a scan (`ByTime`). The points of a scan come in any order, but the
first is its earliest: three handlers count from it. Scans and samples may be lost,
frames may have no points, and `last_prop_end_time` starts with any value because the
code never writes it before it is read. The names `ScanInit`, `ScanNext` and `ScanSpec`
let `MapperProofs` extend this module and `MapperSync`.

### VoxelOctree

One root voxel: `BuildVoxelMap`, `UpdateVoxelMap` for one point, and
`ClearMemOutOfMap`. A node is the path of leaf numbers to it, a point the deepest
node it falls into. `init_octo_tree`, the recursive `cut_octo_tree` and
`UpdateOctoTree` are operators on the whole tree (`InitOctoTree`, `CutBelow`,
`UpdateOctoTree`); every fit may find a plane or not. `Size` counts the points of a
node (`Numbered`). `Reached` and `FindCorrespond` are the two searches that read the
tree. The names `VoxelInit`, `VoxelNext` and `VoxelSpec` let `MapProofs` extend both
maps.

### VisualMap

`processFrame` in its steps: `Retrieve` (`retrieveFromVisualSparseMap`),
`UpdateState` (the filter may move the camera), `Generate`
(`generateVisualMapPoints`), `UpdatePoints` (`updateVisualMapPoints`),
`UpdateReference` (`updateReferencePatch`). The world is a line; which patches
match, which cells get a new point (`Appended`: a point that lies on no plane is
skipped, and a cell without a corner gets none), which observation scores best and
which point converges is open. `predicted` remembers, for `NoDoubles` only, the pose the
map was searched from, and `born.moved` whether the corrected pose saw a new point in
another cell than that one did (`ChangesCell`). Of the limits only `1 < MaxObs` is
assumed: with lists of 1 the pruning would empty them.

## 3. What the runs show

| Run | Bounds | Shows |
|---|---|---|
| `agent_full` | deployed parameters with map updates, and every mission mode, debug mode and map state; 3 places on a map in two parts, 2 goals, 2 pids, all commands and restarts (about 1 130 000 states) | `TaskIsPlanned`, `NeverWaitsOnNothing`, `HandleIsAwaited`, `NoGoalSilentlyDropped`, `ChildrenTracked` |
| `agent_uncancelled` | `target_pose` and `record_stop` only, all parameters, fairness | `OneGoalAtATime`, `CompletionIsEarned`, `MissionEnds` |
| `bag_stop` | 3 pids, SIGTERM after 5 s and SIGKILL 2 s later as in the launch file, the waits of the code (3, 2 and 1 s; 2 and 1 s), fairness (about 640 000 states) | `ForgottenIsDoomed`, `KilledOnlyIfDeaf`, `StopReturns`, and that `BagStop` implements `BagRecorder` (`RecorderSpec`) |
| `remote_control` | 2 clients, 3 commands and an empty datagram, topics of depth 1, 1 pid, fairness (about 1 170 000 states) | `CommandsInOrder`, `AnswerGoesToAsker`, `EveryCommandAnswered` |
| `twist` | 2 descriptors, error limit 2 (10 in the code), base unplugged at any time, yaw of four steps, fairness (about 410 000 states) | `PortOwned`, `StopForgetsHeading`, `CommandsGetThrough`, `WatchdogStopsWheels` |
| `mapper_ordered` | 3 frames of 2 IMU periods with 0, 1 or 2 points, callbacks of one subscription one at a time, fairness (about 200 000 states) | `FrameKeepsItsStamp`, `EachFrameOnce`, `ImuCoversFrame`, `FramesGetThrough` |
| `mapper_overlap` | 2 frames, two callbacks of each subscription at once, automatic mode on (about 320 000 states) | `ImuAscends`, `FileGrows`, whatever loop backs and undefined reads do to the frames |
| `mapper_loop_back_log` (violation) | 3 usable frames, two callbacks at once | after a loop back the map takes frames at the times of others |
| `livo_sync` | every mode, 3 scans of 2 points, IMU period 2, 4 images with any of four stamps, colours at every frame or every second (about 9 920 000 states) | `ColouredOnce`, `TimeJumpsOnlyIf`, `PointsOnTime`, `NoPointLost`, `SamplesCoverFrame` |
| `scan_timing` | seven lidar types, scans of 3 points on 2 lines with times up to 3, also out of order, IMU period 2, any samples lost (about 3 400 000 states) | `TimesAscend`, `NeverTooLate`, `CoversFrame`, `EachPointOnce` |
| `voxel_octree` | 2 layers, 3 cells, up to 5 points per cell in the first scan, thresholds 1, 1 and 4 (about 900 000 states) | `EveryPlaneFound`, `PlanesKeepUp`, `MemoryBounded` |
| `visual_map` | 3 positions in 3 voxels, 3 camera poses, 4 images, lists of 3 (about 1 580 000 states) | `RefIsObserved`, `ObservationsBounded`, `NoDoubles` |

`BagStop` implementing `BagRecorder` is also what lets `RobotAgent` and
`RemoteControl` take a stop as one step.

Why the bounds are enough. Two goals are what it takes for one to be stale while
the other runs; a third only repeats the pattern, and the proofs below cover any
number. Two pids are one recorder and one conversion, and fork may always fail; in
`BagStop` the third is what a child left over holds on to while both run. Two places
are a start and a target; the third, unconnected, makes planning fail with the map
loaded. Topics of depth 1 overflow at the second message, as those of depth 10 do
at the eleventh; two clients are one that asks and one that speaks up before the
answer. Two descriptors are the port and the file that takes its number. The error
limit only has to be passed, and reset before it is. In the mapper, three frames
are one chosen, one waiting behind it and one whose callback is under way, of
clouds that are empty, a single point or usable; two IMU periods give a sample
inside a frame and one at its end; two callbacks at once are what it takes for one
to overtake the other. The initialisation averages 30 samples in the code and has
to be passed: 1 here, so that some frames fall before its end and some after. With
a camera, stamps fall before a scan, inside it, on its last point and after it, so
a scan is cut, kept whole or spans two images, and four images let two frames wait for
one image and a third be coloured after them. Three points are one before, one
after and one at a gap. In the octree the thresholds are the smallest that keep
"equal" and "greater" apart, and two layers give a root, a node that may be split
and a node at the bottom. Lists of 3 with limits 1 and 2 let a point be scored, converge,
overflow and be pruned in four images.

Deadlock is checked where the system never stops (`agent_*`, `twist`,
`voxel_octree`); the other models stop with their bounded inputs.

Fairness. The executor runs every callback that stays ready (weak fairness of
`GoalResponse`, `Result`, the timers, the steps of `send_command`, the watchdog
and the read thread). The action server answers and ends what it accepts, and a
path that is retried again and again is driven to its end at last (strong
fairness of `ServerEnds(g, "SUCCEEDED")`): without it an obstacle that never
leaves makes the retries endless, which is what the code intends. A connected
port takes a command at last (strong fairness of `WriteSucceeds`). In the mapper
the sensors go on, every callback taken runs, and the timer thread keeps running (weak
fairness; the mutex is only held for a bounded time). In `BagStop` the thread is
scheduled, time passes, launch keeps its word, and a child that was sent SIGKILL and
is awake ends; a child asleep in the kernel may sleep for ever, and a stop returns
all the same. In `RemoteControl` both nodes are spun and a stop ends, which is
`StopReturns` of `BagStop`. Nothing is assumed about operators, cables, the network
or the other files.

`WatchdogStopsWheels` is stated for a port that stays good (`GoodPort`): the stop is
sent once, so it is lost with a failed write. `FramesGetThrough` is stated for frames
with no cloud of a single point at or before them: such a cloud is refused without
being popped and blocks the buffer for good.

`MissionEnds`, `OneGoalAtATime` and `CompletionIsEarned` are stated for runs
without `cancel_nav`, and the first two need that: after a cancellation that
overtakes the goal response the old goal runs on, its result clears the handle of
the next mission's goal and arms a retry, which preempts that goal, whose abort
arms the next retry.

### Disagreements between the code and what is said about it

One has a run of its own:

* On a loop back the lidar callback logs that it clears the buffer and clears one
  of the two; overlapping callbacks of the reentrant group suffice for a loop back
  (`mapper_loop_back_log`).

Others are plain from the actions of the models:

* `result_callback` arms a retry for any unsuccessful goal (`robot_agent.cpp:916`);
  its comment (`:921`) speaks of an aborted goal whose task is kept active.
* `docs/ros2_basics.md:66` promises that a watchdog stops the wheels; the stop is
  sent once and not repeated when the write fails (`twist_controller.cpp:259`).
* The read thread copies the descriptor and reads it without the mutex
  (`twist_controller.cpp:166-168`), relying on reads of a closed descriptor failing; a
  descriptor that has been reused breaks that.
* The comment at the head of `sync_packages` (`LIVMapper.cpp:1009`) leaves the
  locking of its tests to the caller, which does none; with a cloud pushed and its
  stamp not yet, `front()` is called on an empty deque (`:1030`).
* The documentation (`ros2_ws/README.md:231`) tells the operator to wait for
  `success: true`, which the service never sets (`LIVMapper_mapping.cpp:88`).
* `planning_params.yaml` draws `patrol` and `single_point` as round trips, and the
  code plans neither back; `mid360.yaml` says that the automatic mode saves after a
  silence and exits, but it may spend its only save on an empty map, and it never exits.

Where a property leaves a case out, the code does otherwise there, and the
property's comment says so: where the frame that ends the IMU initialisation is
followed by an image older than its cut, the filter's time turns back over points
the initialisation has dropped, and the first frame begins before them
(`NoPointLost`; it takes four images, such as those of times 6, 3, 4 and 7); points with negative coordinates, points behind the
camera and points the corrected pose puts into another cell than the predicted one did
may enter the visual map twice (`NoDoubles`; a correction alone excuses nothing); the first point of a cloud is moved more than once and one
with time 0 never (`EachPointOnce`); velodyne, XT32 and AVIA clouds are not sorted, so
those of an AVIA ascend only for scans sent in order with every line taken
(`Trusted`, `InOrderAndTaken`); with `pose_output_en` in LIVO mode the image of a frame may be erased
before the visual step takes it (`TimeJumpsOnlyIf`); where the camera's clock turns
back between the two unlocked reads of `LIVMapper.cpp:1138` and `:1144`, an image colours
under the time of another, and after such a jump frames may be coloured by an image from
before their end (`ColouredOnce`).

## 4. What is proved

All proofs hold for every value of the constants that satisfies the named
assumptions (`NoPidAssumption`, `PlacesAssumption`, `NoGoalAssumption`,
`ParamsAssumption`; `PidAssumption`, `GraceAssumption`; `FdsAssumption`,
`ErrorsAssumption`, `TurnAssumption`, `VelocityAssumption`, `FaultsAssumption`;
`SensorAssumption`, `ThreadAssumption`, `InitCountAssumption`,
`AutoModeAssumption`; `FilterAssumption`, `TimeAssumption`, `LidarTypesAssumption`,
`ScansAssumption`; `DepthAssumption`; `CellsAssumption`, `SizesAssumption`;
`SizeAssumption`, `WorldAssumption`, `LimitAssumption`, `ScoreAssumption`;
`LidarAssumption`, `ImageAssumption`, `CountAssumption`), hence for any number of
goals, pids, places, descriptors, frames, clients, layers, thresholds, scans, points,
samples and images. The type invariants of these modules, and `MissionUndisturbed`, `EndsClean`,
`PopsWhatItChose` and `SignalsOwnChild`, are established here and take no run.

* **`BagRecorderProofs`**: each operator of `BagRecorder` preserves
  `BagTypeOK /\ ChildrenTracked`. `ChildrenTracked` is inductive as it stands: the
  flag, the pid and the process table only change together.
* **`BagStopProofs`**: `StopInv` says how the members, the thread's place in a stop
  and the kernel's table go together: a pid the node holds has not been reaped, a
  recorder given up is never the conversion waited for, and what a last wait is
  about has been sent SIGKILL. From it: `Doomed` (`ForgottenIsDoomed`, not
  inductive without the rest), `OwnChildSignalled`, and, with the bounds of the two
  clocks, `StopTypeCorrect`. `FiveSecondsSuffice` (`KilledOnlyIfDeaf`)
  assumes `sigterm_timeout >= 5` and adds `InTime`: in a destructor with one child the
  seconds since SIGINT are those of the waits behind it plus those of the current
  one, which are five only at the end of the wait after SIGTERM or past it.
  `StopImplementsRecorder` proves the refinement: one lemma for
  each action of `BagRecorder` in terms of what the node sees (`SeenStart`,
  `SeenStop`, `SeenDestroy`, `SeenExits`), and every step of `BagStop` shown to be one
  of these or a stutter.
* **`RobotAgentProofs`**: the inductive invariant adds to the checked invariants
  that a goal is in `unanswered` exactly once while it is requested, accepted or
  refused, which is what lets `GoalResponse` take over a handle safely. From it:
  `TypeCorrect`, `ChildrenSafe`, `TaskSafe`, `TaskAwake`, `HandleSafe`,
  `CancelReaches`, `NotRedirected`; and, assuming no `cancel_nav`, `OneGoal` and `CompletionEarned`, whose invariant ties
  every goal, timer and handle to an active task. One lemma per callback.
* **`RemoteControlProofs`**: the invariant says that the command topic holds the last
  datagrams read without a gap, for newer ones push older ones out and a restart
  empties it; so what was executed or dropped is older than all that is queued, and
  of a dropped command's successors a whole topic has been heard. The address is that
  of the sender of the last command, or of an empty datagram since, and nothing
  answers what was not heard. From it: `OrderSafe`,
  `AnswerSafe`, `RemoteChildrenSafe`, for any clients and any depth; the lemmas of
  `BagRecorderProofs` carry the children.
* **`TwistControllerProofs`**: the invariant adds which callback is inside
  `send_command` and that the error count passes the limit only on the way to
  `close_serial`, and that a node that has timed out drives no straight run
  (`StopEndsRun`). From it: `TypeCorrect`, `PortSafe`, `EndSafe`, `StopSafe`;
  `ShortWay` is about the yaw correction alone.
* **`MapperProofs`**, of `MapperSync`: `TypeCorrect` for any number of threads, and `StampsSafe`
  (`PopsWhatItChose` and `FrameKeepsItsStamp`) for one lidar callback at a time,
  the assumption `mapper_loop_back_log` shows to be needed. Neither property is
  inductive: that the popped stamp belongs to the popped cloud follows from the two
  queues being paired element by element, off by one cloud while a callback is
  between its two pushes (`Paired`); that a new frame is no loop back, so that only
  the timer takes from the queues, follows from the frames in flight being newer
  than everything stamped (`OneInFlight`, `InOrder`); and what the timer thread read
  in one step still stands in the next (`Choice`). `Splits` and `LoopStops` are
  about the loop over the IMU buffer. `ImuSafe` (`ImuAscends`) holds for any number
  of threads; its invariant `ImuInv` orders the samples handed over, buffered,
  accepted last and still to come. `SavesGrow` (`FileGrows`) rests on the file never
  holding more than the map. `FramesSafe` (`EachFrameOnce`) and `CoverSafe`
  (`ImuCoversFrame`) are for one callback at a time again. The first says where every
  frame is: one that has points and is not yet mapped is taken, buffered or chosen, in
  the order of the scans, and all that is mapped is before all of these. The second
  says what the buffer of samples and the one accepted last stand for: from the last
  sample the filter has seen, no sample is missing up to the newest, so that a drain
  up to the end of a frame hands over all the frame lasts.

  Of `ScanTiming`: everything `scan_timing` checks, for scans of any length. What the
  recursive definitions compute is shown without induction on a formula: of the places
  where a claim fails there would be a least one (`LeastMember`).
  - `Recursion`: a definition of each value from those of lower rank has a solution. It
    gives the handlers' times (`AviaEquation`, `YawEquation`), the partial sums and the
    nested loops their recursion equations.
  - `TimesSafe` (`TimesAscend`) and `NeverLateSafe` (`NeverTooLate`): `CloudOfScan` says
    that a cloud is one the handler may make of its scan (`ProcessPoints`), and the
    order is the handler's (`AviaInOrder`, `AviaOnTime`, `SortedCloud`,
    `TrustedInOrder`). An AVIA time that is doubted is the one before and a bit, and
    the proof says why that neither overtakes the next good time nor is later than
    the true one.
  - `CoverageSafe` (`CoversFrame`): time steps are differences of neighbouring samples
    cut at the two ends, so that they telescope (`PartialSums`, `StepsAddUp`). This
    needs `FrameBounds` (after the first frame `last_prop_end_time` is where the buffer
    was drained to, no sample taken is later, and no cloud begins before), for without
    it the property is not inductive: a frame could begin behind its own samples.
  - `MovesSafe` (`EachPointOnce`): the inner loop leaves a point to an earlier pose
    exactly when it is not later than the pose at hand, so point j is moved with the last
    pose before its time and no other (`MoveEquation`, `MovedOnce`).
* **`LivoSyncProofs`**: everything `livo_sync` checks, for any stamps the camera may
  give. `Types` couples each image with its own time element by element (`Coupled`),
  each scan with its (`Paired`), and ties the last cut and the image taken since to
  where the timer thread is (`Phase`). Each theorem has an invariant that says what holds
  between the cut of one frame and that of the next.
  - `ColoursSafe` (`ColouredOnce`): as long as the camera's clock does not turn back, what
    is pushed is newer than all that is buffered, and the timer takes from the front only
    (`ImagesQueueUp`, `LastSent`), so the image that is first is the one whose time was
    first a step before (`FirstWithTime`, `TakenWithTime`). What waits for colours is the
    frames up to the last, all of them later than the last image that coloured any
    (`ToColour`, `ColourInv`), and times go forward from cut to image to cut (`Forward`).
  - `TimeSafe` (`TimeJumpsOnlyIf`): with ordered stamps and no image saved, the queue
    only loses what the timer takes, so the image a frame was cut at is still its head
    (`HeadKept`). No interleaving with the callbacks disturbs that.
  - `SamplesSafe` (`SamplesCoverFrame`): the samples up to the newest are in the
    buffer, but for those the filter is past (`Buffered`), and the newest is tested
    before the drain, so what is drained is complete (`Complete`).
  - `PointsSafe` (`PointsOnTime`): a left-over is timed from the cut, and that is where
    the next frame begins (`PointsKept`); scans are buffered in the order of their
    times although some are lost (`ScansInOrder`), so joining pieces keeps a cloud
    in order (`JoinedCloud`).
  - `PointsOnceSafe` (`NoPointLost`): two invariants. In one order
    (`FramesOrdered`, `HeldOrdered`): every frame lies behind every earlier one and
    before what waits, and at most one scan is cut at a time (`CutInOrder`: where a scan
    is left to be cut, nothing has been left over before it). That gives "once", whether
    the filter's time jumps or not. Whole (`WaitingWhole`, `SeenWhole`): what waits has all
    points of its scans from the last cut on, and frames and what waits together all
    from the beginning of the first frame.
* **`MapProofs`**: everything the runs check of the two maps.
  - `NoPlaneHidden` (`EveryPlaneFound`), for any depth, cells and thresholds:
    `SplitAbove` says that whatever is in the tree hangs below split nodes only. The
    property follows from it and is not inductive by itself, for a fit may turn any
    node that was not split into a plane. A node a point lands on is not split and has
    nothing below it, so it may become anything (`Replaced`), and what `cut_octo_tree`
    makes below it hangs on nodes it splits (`CutPreserves`); that a point always
    lands somewhere is the least layer whose node is not split (`LandingCanLand`).
  - `PlanesFresh` (`PlanesKeepUp`) and `MemorySafe` (`MemoryBounded`): `NodeOK` says
    of each node, plane or not, that it waits for its first fit with few points,
    learns, with the points after its last fit counted (`Learns`), or stopped
    (`Stopped`). It takes the planes with the other nodes, because one may be lost and
    found again with its counts. `SizePushed`, `SizeUnder` and `SizeOfScan` say how
    many points a node has after a push, a split and a first scan.
  - `RefsSafe`, `ObservationsSafe` and `DoublesSafe`, for any world, image and limits.
    `PointOK` adds to the properties that a point that converged has a reference:
    `deleteNonRefPatchFeatures` keeps nothing else, so without that the list would be
    emptied. `PointsOK` adds that until `UpdatePoints` the submap has no observation
    of the current image, so the new one is the newest. `MapFillsGrid` is why there
    are no doubles: each point of the scan the map has fills the cell the predicted pose
    sees it in, itself or by a nearer one (`Found`), so a point the corrected pose leaves
    in its cell is not made again (`AppendedNew`).

`MemoryBounded` allows a node one point more than its bound: a node at the bottom that
is no plane is not stopped by its first fit (`voxel_map.cpp:176`), however many points
it has, and takes a point before its size is compared (`:306`).

Only model-checked: the liveness properties (`MissionEnds`, `CommandsGetThrough`,
`WatchdogStopsWheels`, `FramesGetThrough`, `StopReturns`, `EveryCommandAnswered`),
which rest on fairness and are out of the proof system's reach.

## 5. Not modelled

* **Numerical parts**: NDT matching, the IMU filter and its initial values, residuals
  and plane fitting, patch alignment, path smoothing. They are floating-point
  arithmetic; the models keep what control depends on and leave their outcomes open.
* **Mapper**: the IMU propagation timer, `ndt_cbk` and trajectory alignment (a
  numerical comparison of two paths), propagation without IMU (`ONLY_LO`; its buffers
  are in `LivoSync`), the reset functions of IMU processing, which nothing calls,
  feature extraction (`feature_enabled` is off), ray casting (off as deployed).
* **Mission path algorithms**: A*, downsampling, interpolation and smoothing;
  `RobotAgent` keeps whether a path is found.
* **Localization**: a third-party node with local changes; its lifecycle hazard is
  listed.
* **Goal script, launch files**: a client that sends one goal and waits, and
  configuration. Of the launch system `BagStop` has the SIGTERM and the SIGKILL that follow SIGINT.
* **Vendored libraries**: not this program's logic.
* File and terminal output.
