------------------------------ MODULE MapperSync ------------------------------
(***************************************************************************)
(* The mapper's sensor buffers and sync_packages, as deployed: lidar and   *)
(* IMU, no camera (slam_mode_ is ONLY_LIO).                                *)
(*                                                                         *)
(* The sensor callbacks are in a reentrant group of a multi-threaded       *)
(* executor, so even two callbacks of one subscription may overlap and     *)
(* reach mtx_buffer in either order.  The timer is in another group: one   *)
(* thread runs it, and sync_packages reads the buffers without the mutex.  *)
(* What happens between two accesses another thread can disturb is one     *)
(* action.  Times are integers; a frame and its stamp are told apart by    *)
(* the number of the frame.                                                *)
(***************************************************************************)
EXTENDS MapSaving, Integers, FiniteSets, Functions

CONSTANTS
  NFrames,      \* bounds the frames the lidar sends
  FrameSpan,    \* IMU periods from a frame's first point to its last
  Clouds,       \* how many points a cloud may keep; 2 stands for more
  MaxInFlight,  \* executor threads that may run one subscription at a time
  MAX_INI_COUNT \* IMU samples the initialisation averages

ASSUME SensorAssumption ==
  /\ NFrames \in Nat
  /\ FrameSpan \in Nat \ {0}
  /\ Clouds \subseteq {0, 1, 2}
ASSUME ThreadAssumption == MaxInFlight \in Nat \ {0}
ASSUME InitCountAssumption == MAX_INI_COUNT \in Nat

VARIABLES
  points,       \* the size of each frame's cloud after preprocessing
  now,          \* the time of the newest IMU sample sent
  lidar_next,   \* the next frame to be taken from the subscription
  imu_next,     \* the next IMU sample to be taken
  lidar_taken,  \* frames whose callback has not locked mtx_buffer yet
  imu_taken,    \* IMU samples whose callback has not
  lidar_cbk,    \* where livox_pcl_cbk is in its locked section
  lidar_ptr,    \* the cloud it has there; 0 if none
  lid_raw_data_buffer,
  lid_header_time_buffer,
  imu_buffer,
  last_timestamp_lidar,
  last_timestamp_imu,
  timer,        \* where the timer thread is
  lidar_pushed,
  lidar,        \* meas.lidar, the frame chosen; 0 if none
  lidar_frame_beg_time,
  last_lio_update_time,
  measures,     \* meas.measures
  init_iter_num,
  imu_need_init

sensorVars == <<points, now, lidar_next, imu_next>>
takenVars  == <<lidar_taken, imu_taken>>
cbkVars    == <<lidar_cbk, lidar_ptr>>
lidVars    == <<lid_raw_data_buffer, lid_header_time_buffer, last_timestamp_lidar>>
imuVars    == <<imu_buffer, last_timestamp_imu>>
measVars   == <<lidar_pushed, lidar, lidar_frame_beg_time, measures>>
filterVars == <<last_lio_update_time, init_iter_num, imu_need_init>>
mapVars    == <<map, saveVars>>
vars == <<sensorVars, takenVars, cbkVars, lidVars, imuVars, timer, measVars,
          filterVars, mapVars>>

Frames == 1 .. NFrames
Beg(f) == f * FrameSpan
End(time) == time + FrameSpan
LastTime == (NFrames + 1) * FrameSpan

Init ==
  /\ points \in [Frames -> Clouds]
  /\ now = FrameSpan
  /\ lidar_next = 1
  /\ imu_next = FrameSpan
  /\ lidar_taken = {}
  /\ imu_taken = {}
  /\ lidar_cbk = "free"
  /\ lidar_ptr = 0
  /\ lid_raw_data_buffer = <<>>
  /\ lid_header_time_buffer = <<>>
  /\ imu_buffer = <<>>
  /\ last_timestamp_lidar = -1
  /\ last_timestamp_imu = -1
  /\ timer = "idle"
  /\ lidar_pushed = FALSE
  /\ lidar = 0
  /\ lidar_frame_beg_time = 0
  /\ last_lio_update_time = -1
  /\ measures = <<>>
  /\ init_iter_num = 1
  /\ imu_need_init = TRUE
  /\ SavingInit

-------------------------------------------------------------------------------
(* The sensors and the subscriptions. *)

(* The next IMU sample is sent, and the frame that ends with it. *)
Tick ==
  /\ now < LastTime
  /\ now' = now + 1
  /\ UNCHANGED <<points, lidar_next, imu_next, takenVars, cbkVars, lidVars, imuVars,
                 timer, measVars, filterVars, mapVars>>

(* The mutex is held between livox_pcl_cbk's lock and its unlock. *)
Unlocked == lidar_cbk = "free"
LidarInFlight == Cardinality(lidar_taken) + (IF Unlocked THEN 0 ELSE 1)

(* An executor thread takes the next message of a subscription. *)
TakeLidar ==
  /\ lidar_next \in Frames
  /\ End(Beg(lidar_next)) <= now
  /\ LidarInFlight < MaxInFlight
  /\ lidar_taken' = lidar_taken \cup {lidar_next}
  /\ lidar_next' = lidar_next + 1
  /\ UNCHANGED <<points, now, imu_next, imu_taken, cbkVars, lidVars, imuVars,
                 timer, measVars, filterVars, mapVars>>

TakeImu ==
  /\ imu_next <= now
  /\ Cardinality(imu_taken) < MaxInFlight
  /\ imu_taken' = imu_taken \cup {imu_next}
  /\ imu_next' = imu_next + 1
  /\ UNCHANGED <<points, now, lidar_next, lidar_taken, cbkVars, lidVars, imuVars,
                 timer, measVars, filterVars, mapVars>>

-------------------------------------------------------------------------------
(* livox_pcl_cbk. *)

(* A cloud without points is kept. *)
KeepsEmpty(f) == FALSE

(* A loop back is not looked for. *)
NeverBack(t) == FALSE

LoopBack(f) == Beg(f) < last_timestamp_lidar

Rejected(f) == points[f] = 0

(* It locks, clears the clouds on a loop back, and preprocesses the new    *)
(* one; an empty cloud is dropped there and then.                          *)
LidarLock(f) ==
  /\ Unlocked
  /\ lidar_taken' = lidar_taken \ {f}
  /\ lid_raw_data_buffer' = IF LoopBack(f) THEN <<>> ELSE lid_raw_data_buffer
  /\ IF Rejected(f) THEN UNCHANGED cbkVars
                    ELSE lidar_cbk' = "cloud" /\ lidar_ptr' = f
  /\ UNCHANGED <<sensorVars, imu_taken, lid_header_time_buffer, last_timestamp_lidar,
                 imuVars, timer, measVars, filterVars, mapVars>>

PushCloud ==
  /\ lidar_cbk = "cloud"
  /\ lid_raw_data_buffer' = Append(lid_raw_data_buffer, lidar_ptr)
  /\ lidar_cbk' = "stamp"
  /\ UNCHANGED <<sensorVars, takenVars, lidar_ptr, lid_header_time_buffer,
                 last_timestamp_lidar, imuVars, timer, measVars, filterVars,
                 mapVars>>

PushStamp ==
  /\ lidar_cbk = "stamp"
  /\ lid_header_time_buffer' = Append(lid_header_time_buffer, Beg(lidar_ptr))
  /\ last_timestamp_lidar' = Beg(lidar_ptr)
  /\ lidar_cbk' = "free"
  /\ lidar_ptr' = 0
  /\ UNCHANGED <<sensorVars, takenVars, lid_raw_data_buffer, imuVars, timer, measVars,
                 filterVars, mapVars>>

(* imu_cbk. *)

BeforeLidar == last_timestamp_lidar < 0

ImuLoopBack(t) == last_timestamp_imu > 0 /\ t < last_timestamp_imu

AcceptImu(t) ==
  /\ imu_buffer' = Append(imu_buffer, t)
  /\ last_timestamp_imu' = t

ImuCallback(t) ==
  /\ imu_taken' = imu_taken \ {t}
  /\ \/ BeforeLidar /\ UNCHANGED imuVars
     \/ ~BeforeLidar /\ Unlocked /\ ImuLoopBack(t) /\ UNCHANGED imuVars
     \/ ~BeforeLidar /\ Unlocked /\ ~ImuLoopBack(t) /\ AcceptImu(t)
  /\ UNCHANGED <<sensorVars, lidar_taken, cbkVars, lidVars, timer, measVars, filterVars, mapVars>>

-------------------------------------------------------------------------------
(* timer_callback and sync_packages. *)

(* Reading or popping an empty deque: nothing is known of what follows. *)
Undefined ==
  /\ timer' = "undefined"
  /\ UNCHANGED <<sensorVars, takenVars, cbkVars, lidVars, imuVars, measVars, filterVars,
                 mapVars>>

(* The timer fires, looks after the automatic mode, and sync_packages      *)
(* tests the clouds.                                                       *)
TimerFires ==
  /\ timer = "idle"
  /\ AutoSave
  /\ timer' = IF lid_raw_data_buffer = <<>> THEN "idle" ELSE "choose"
  /\ UNCHANGED <<sensorVars, takenVars, cbkVars, lidVars, imuVars, measVars, filterVars, map>>

(* The other tests before a frame is chosen: what they see only this       *)
(* thread can undo, so they belong to the step that reads the front.       *)
NothingToChoose ==
  \/ imu_buffer = <<>>
  \/ last_lio_update_time < 0 /\ lid_header_time_buffer = <<>>

FirstUpdateTime ==
  IF last_lio_update_time < 0 THEN Head(lid_header_time_buffer) ELSE last_lio_update_time

ReturnEarly ==
  /\ timer = "choose"
  /\ NothingToChoose
  /\ timer' = "idle"
  /\ UNCHANGED <<sensorVars, takenVars, cbkVars, lidVars, imuVars, measVars, filterVars, mapVars>>

(* A frame chosen by an earlier call is still waiting for IMU samples. *)
ResumeFrame ==
  /\ timer = "choose"
  /\ ~NothingToChoose
  /\ lidar_pushed
  /\ timer' = "drain"
  /\ last_lio_update_time' = FirstUpdateTime
  /\ UNCHANGED <<sensorVars, takenVars, cbkVars, lidVars, imuVars, measVars,
                 init_iter_num, imu_need_init, mapVars>>

TooFewPoints(f) == points[f] <= 1

ChooseFrame ==
  /\ timer = "choose"
  /\ ~NothingToChoose
  /\ ~lidar_pushed
  /\ lid_raw_data_buffer # <<>>
  /\ lidar' = Head(lid_raw_data_buffer)
  /\ timer' = IF TooFewPoints(Head(lid_raw_data_buffer)) THEN "idle" ELSE "stamp"
  /\ last_lio_update_time' = FirstUpdateTime
  /\ UNCHANGED <<sensorVars, takenVars, cbkVars, lidVars, imuVars, lidar_pushed,
                 lidar_frame_beg_time, measures, init_iter_num, imu_need_init, mapVars>>

ChooseFromEmpty ==
  /\ timer = "choose"
  /\ ~NothingToChoose
  /\ ~lidar_pushed
  /\ lid_raw_data_buffer = <<>>
  /\ Undefined

(* The chosen frame gets the first stamp. *)
ReadStamp ==
  /\ timer = "stamp"
  /\ lid_header_time_buffer # <<>>
  /\ lidar_frame_beg_time' = Head(lid_header_time_buffer)
  /\ lidar_pushed' = TRUE
  /\ timer' = "drain"
  /\ UNCHANGED <<sensorVars, takenVars, cbkVars, lidVars, imuVars, lidar, measures,
                 filterVars, mapVars>>

StampFromEmpty ==
  /\ timer = "stamp"
  /\ lid_header_time_buffer = <<>>
  /\ Undefined

lidar_frame_end_time == End(lidar_frame_beg_time)

(* The IMU need only have reached the start of the frame. *)
StartReached == last_timestamp_imu >= lidar_frame_beg_time

ImuReady == last_timestamp_imu >= lidar_frame_end_time

AwaitImu ==
  /\ timer = "drain"
  /\ ~ImuReady
  /\ timer' = "idle"
  /\ UNCHANGED <<sensorVars, takenVars, cbkVars, lidVars, imuVars, measVars, filterVars, mapVars>>

(* The loop over imu_buffer stops at the first sample after the frame. *)
Stops(n) ==
  /\ \A i \in 1 .. n : imu_buffer[i] <= lidar_frame_end_time
  /\ n < Len(imu_buffer) => imu_buffer[n + 1] > lidar_frame_end_time

Taken == CHOOSE n \in 0 .. Len(imu_buffer) : Stops(n)
MeasureGroup == [imu |-> SubSeq(imu_buffer, 1, Taken), lio_time |-> lidar_frame_end_time]
RestOfImu == SubSeq(imu_buffer, Taken + 1, Len(imu_buffer))

(* The stamp of a cloud stays in its buffer. *)
KeptStamps == lid_header_time_buffer

PoppedClouds == Tail(lid_raw_data_buffer)

PoppedStamps == Tail(lid_header_time_buffer)

(* lidar_pushed is not reset. *)
StillPushed == UNCHANGED lidar_pushed

FrameDone == lidar_pushed' = FALSE

Drain ==
  /\ timer = "drain"
  /\ ImuReady
  /\ Unlocked
  /\ lid_raw_data_buffer # <<>>
  /\ lid_header_time_buffer # <<>>
  /\ measures' = Append(measures, MeasureGroup)
  /\ imu_buffer' = RestOfImu
  /\ lid_raw_data_buffer' = PoppedClouds
  /\ lid_header_time_buffer' = PoppedStamps
  /\ FrameDone
  /\ MessageSynced
  /\ timer' = "process"
  /\ UNCHANGED <<sensorVars, takenVars, cbkVars, last_timestamp_lidar,
                 last_timestamp_imu, lidar, lidar_frame_beg_time, filterVars,
                 map, saved, started, triggered, response>>

DrainEmpty ==
  /\ timer = "drain"
  /\ ImuReady
  /\ Unlocked
  /\ lid_raw_data_buffer = <<>> \/ lid_header_time_buffer = <<>>
  /\ Undefined

(* processImu and handleLIO.  While the IMU is being initialised a frame   *)
(* only feeds the average, and no frame without samples does.              *)
Group == measures[Len(measures)]

InitialiseImu ==
  /\ timer = "process"
  /\ imu_need_init
  /\ init_iter_num' = init_iter_num + Len(Group.imu)
  /\ imu_need_init' = (Group.imu = <<>> \/ init_iter_num' <= MAX_INI_COUNT)
  /\ timer' = "idle"
  /\ UNCHANGED <<sensorVars, takenVars, cbkVars, lidVars, imuVars, measVars,
                 last_lio_update_time, mapVars>>

MapFrame ==
  /\ timer = "process"
  /\ ~imu_need_init
  /\ last_lio_update_time' = Group.lio_time
  /\ map' = Append(map, [frame |-> lidar, time |-> Group.lio_time])
  /\ timer' = "idle"
  /\ UNCHANGED <<sensorVars, takenVars, cbkVars, lidVars, imuVars, measVars,
                 init_iter_num, imu_need_init, saveVars>>

(* The service and the clock of the automatic mode. *)
SaveRequest ==
  /\ timer = "idle"
  /\ SaveMap
  /\ UNCHANGED <<sensorVars, takenVars, cbkVars, lidVars, imuVars, timer, measVars,
                 filterVars>>

TimeoutPasses ==
  /\ Silence
  /\ UNCHANGED <<sensorVars, takenVars, cbkVars, lidVars, imuVars, timer, measVars,
                 filterVars>>

-------------------------------------------------------------------------------
SensorStep ==
  \/ TakeLidar
  \/ TakeImu
  \/ \E f \in lidar_taken : LidarLock(f)
  \/ PushCloud
  \/ PushStamp
  \/ \E t \in imu_taken : ImuCallback(t)

TimerStep ==
  \/ TimerFires
  \/ ReturnEarly
  \/ ResumeFrame
  \/ ChooseFrame
  \/ ChooseFromEmpty
  \/ ReadStamp
  \/ StampFromEmpty
  \/ AwaitImu
  \/ Drain
  \/ DrainEmpty
  \/ InitialiseImu
  \/ MapFrame

Next ==
  \/ Tick
  \/ SensorStep
  \/ TimerStep
  \/ SaveRequest
  \/ TimeoutPasses

Spec == Init /\ [][Next]_vars

(* The sensors keep sending, the executor runs every callback that is      *)
(* ready and the timer keeps firing.  mtx_buffer is held for a bounded     *)
(* time, so weak fairness is enough for whoever waits for it.              *)
Fairness ==
  /\ WF_vars(Tick)
  /\ WF_vars(TakeLidar)
  /\ WF_vars(TakeImu)
  /\ WF_vars((PushCloud \/ PushStamp))
  /\ \A f \in Frames : WF_vars(f \in lidar_taken /\ LidarLock(f))
  /\ \A t \in FrameSpan .. LastTime :
       WF_vars(t \in imu_taken /\ ImuCallback(t))
  /\ WF_vars(TimerStep)

FairSpec == Spec /\ Fairness

-------------------------------------------------------------------------------
Stamps == {Beg(f) : f \in Frames}

(* Type invariant of all variables of the mapper. *)
TypeOK ==
  /\ points \in [Frames -> Clouds]
  /\ now \in FrameSpan .. LastTime
  /\ lidar_next \in 1 .. NFrames + 1
  /\ imu_next \in FrameSpan .. LastTime + 1
  /\ lidar_taken \subseteq Frames
  /\ imu_taken \subseteq FrameSpan .. LastTime
  /\ lidar_cbk \in {"free", "cloud", "stamp"}
  /\ lidar_ptr \in Frames \cup {0}
  /\ lid_raw_data_buffer \in Seq(Frames)
  /\ lid_header_time_buffer \in Seq(Stamps)
  /\ imu_buffer \in Seq(FrameSpan .. LastTime)
  /\ last_timestamp_lidar \in Stamps \cup {-1}
  /\ last_timestamp_imu \in (FrameSpan .. LastTime) \cup {-1}
  /\ timer \in {"idle", "choose", "stamp", "drain", "process", "undefined"}
  /\ lidar_pushed \in BOOLEAN
  /\ lidar \in Frames \cup {0}
  /\ lidar_frame_beg_time \in Stamps \cup {0}
  /\ last_lio_update_time \in Nat \cup {-1}
  /\ measures \in Seq([imu : Seq(FrameSpan .. LastTime), lio_time : Nat])
  /\ init_iter_num \in Nat \ {0}
  /\ imu_need_init \in BOOLEAN
  /\ map \in Seq([frame : Frames, time : Nat])
  /\ saved \in Nat
  /\ started \in BOOLEAN
  /\ silent \in BOOLEAN
  /\ triggered \in BOOLEAN
  /\ response \in {"none", "success", "failure"}

(* The frame sync_packages chose in one call is still at the head of the   *)
(* clouds, with its own stamp at the head of the stamps, when a later call *)
(* pops them, whatever the callbacks did in between.                       *)
PopsWhatItChose ==
  lidar_pushed =>
    /\ lid_raw_data_buffer # <<>>
    /\ lid_header_time_buffer # <<>>
    /\ Head(lid_raw_data_buffer) = lidar
    /\ Head(lid_header_time_buffer) = Beg(lidar)
    /\ lidar_frame_beg_time = Beg(lidar)

(* Every frame in the map was placed at the time it was scanned: two       *)
(* parallel queues, filled and emptied by different threads, never drift   *)
(* apart.                                                                  *)
FrameKeepsItsStamp == \A i \in DOMAIN map : map[i].time = End(Beg(map[i].frame))

(* Between the lidar callback and the filter no frame with points is lost  *)
(* or used twice: what was stamped waits in the buffers or was handed over *)
(* once, and the map takes frames in the order they were scanned.          *)
HandedOver(f) == {k \in DOMAIN measures : measures[k].lio_time = End(Beg(f))}

EachFrameOnce ==
  /\ \A f \in Frames :
       Cardinality(HandedOver(f)) =
         IF points[f] = 0 \/ Beg(f) > last_timestamp_lidar
           \/ Beg(f) \in Range(lid_header_time_buffer)
         THEN 0 ELSE 1
  /\ \A i, j \in DOMAIN map : i < j => map[i].frame < map[j].frame

(* Once a frame has come with IMU samples, every later frame comes with    *)
(* all samples since the frame before it and no others: what the filter    *)
(* integrates has no gap, although the test for the newest sample is made  *)
(* before the lock.                                                        *)
ImuCoversFrame ==
  \A j, k \in DOMAIN measures :
    (j < k /\ measures[j].imu # <<>>) =>
      LET from == measures[k - 1].lio_time
      IN  measures[k].imu = [i \in 1 .. measures[k].lio_time - from |-> from + i]

(* Even when IMU callbacks overlap and overtake each other, the filter     *)
(* gets the samples in the order of their times, none twice, and none      *)
(* later than its frame.                                                   *)
ImuAscends ==
  \A j, k \in DOMAIN measures : \A a \in DOMAIN measures[j].imu :
    /\ measures[j].imu[a] <= measures[j].lio_time
    /\ \A b \in DOMAIN measures[k].imu :
         (j < k \/ (j = k /\ a < b)) => measures[j].imu[a] < measures[k].imu[b]

(* A frame that reached the buffers is handed to the filter once the IMU   *)
(* has passed its end, however the timer and the callbacks interleave.     *)
(* (A cloud of a single point would stay at the head for ever.)            *)
Waiting(f) ==
  /\ \A g \in 1 .. f : points[g] # 1
  /\ Beg(f) \in Range(lid_header_time_buffer)
  /\ last_timestamp_imu >= End(Beg(f))

FramesGetThrough ==
  \A f \in Frames : Waiting(f) ~> (HandedOver(f) # {} \/ timer = "undefined")
===============================================================================
