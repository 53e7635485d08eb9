----------------------------- MODULE MapperProofs ------------------------------
(***************************************************************************)
(* The mapper as it is deployed, from the callbacks to the undistortion.   *)
(*                                                                         *)
(* The synchronisation, for any number of frames, any clouds, any frame    *)
(* length and any length of the initialisation: the variables keep their   *)
(* types, and while the callbacks of the lidar do not overlap a frame that *)
(* was chosen is the frame that is popped, every frame of the map has its  *)
(* own time, none is mapped twice, and every frame has all the IMU samples *)
(* it lasts.                                                               *)
(*                                                                         *)
(* The timing of a scan, for any scans, any lidar and any samples lost:    *)
(* the times the undistortion relies on ascend, the integration covers the *)
(* frame, and the loops over poses and points move each point once, with   *)
(* the pose it was measured at.  What the recursive definitions of the     *)
(* model compute is shown from the least rank at which it would be wrong.  *)
(***************************************************************************)
EXTENDS MapperSync, ScanTiming, SequenceTheorems, FiniteSetTheorems,
        WellFoundedInduction, TLAPS

\* Callbacks run one at a time: the frame in flight is the last one taken.
OneInFlight ==
  /\ lidar_taken \subseteq {lidar_next - 1}
  /\ ~Unlocked => lidar_taken = {} /\ lidar_ptr = lidar_next - 1

\* What the callbacks still hold or will get is later than what they stamped.
InOrder ==
  \A f \in Frames :
    (f >= lidar_next \/ f \in lidar_taken \/ (~Unlocked /\ f = lidar_ptr)) =>
      last_timestamp_lidar < Beg(f)

\* The two buffers of the lidar go together, but for the moment in which a cloud
\* is there and its stamp is not.
Paired ==
  /\ Len(lid_raw_data_buffer) =
       Len(lid_header_time_buffer) + (IF lidar_cbk = "stamp" THEN 1 ELSE 0)
  /\ \A i \in 1 .. Len(lid_header_time_buffer) :
       lid_header_time_buffer[i] = Beg(lid_raw_data_buffer[i])
  /\ lidar_cbk = "stamp" => lid_raw_data_buffer[Len(lid_raw_data_buffer)] = lidar_ptr

\* Where the timer is inside sync_packages tells what it has chosen.
Choice ==
  /\ timer = "stamp" => /\ ~lidar_pushed
                        /\ lid_raw_data_buffer # <<>>
                        /\ Head(lid_raw_data_buffer) = lidar
  /\ timer = "drain" => lidar_pushed
  /\ timer = "process" => /\ ~lidar_pushed
                          /\ measures # <<>>
                          /\ Group.lio_time = End(Beg(lidar))

Inv == OneInFlight /\ InOrder /\ Paired /\ Choice /\ PopsWhatItChose /\ FrameKeepsItsStamp

\* Later frames have later stamps, all of them positive.
LEMMA StampsAscend ==
  /\ \A f \in Frames : Beg(f) \in Nat /\ Beg(f) > 0
  /\ \A f, g \in Frames : f < g => Beg(f) < Beg(g)
<1>1. \A f \in Nat : f * FrameSpan \in Nat
  BY SensorAssumption
<1>2. \A f, g \in Nat : f < g => f * FrameSpan < g * FrameSpan
  <2> SUFFICES ASSUME NEW f \in Nat, NEW g \in Nat, f < g
               PROVE  f * FrameSpan < g * FrameSpan
    OBVIOUS
  <2>1. PICK d \in Nat \ {0} : g = f + d
    <3>1. g - f \in Nat \ {0} /\ g = f + (g - f)
      OBVIOUS
    <3> QED BY <3>1
  <2>2. g * FrameSpan = f * FrameSpan + d * FrameSpan
    BY <2>1, SensorAssumption
  <2>3. d * FrameSpan > 0
    BY SensorAssumption
  <2> QED BY <1>1, <2>2, <2>3
<1>3. \A f \in Frames : f \in Nat /\ 0 < f
  BY SensorAssumption DEF Frames
<1>4. 0 * FrameSpan = 0
  BY SensorAssumption
<1> QED
  BY <1>1, <1>2, <1>3, <1>4 DEF Beg

LEMMA LastTimeIsNat == LastTime \in Nat /\ LastTime >= FrameSpan /\ FrameSpan \in Nat \ {0}
<1>1. NFrames * FrameSpan \in Nat
  BY SensorAssumption
<1>2. (NFrames + 1) * FrameSpan = NFrames * FrameSpan + FrameSpan
  BY SensorAssumption
<1> QED BY <1>1, <1>2, SensorAssumption DEF LastTime

\* Draining splits imu_buffer in two.
LEMMA Splits ==
  ASSUME NEW S, imu_buffer \in Seq(S), Taken \in 0 .. Len(imu_buffer)
  PROVE  SubSeq(imu_buffer, 1, Taken) \in Seq(S) /\ RestOfImu \in Seq(S)
<1>1. \A i \in 1 .. Len(imu_buffer) : imu_buffer[i] \in S
  OBVIOUS
<1>2. \A i \in 1 .. Taken : imu_buffer[i] \in S
  BY <1>1
<1>3. \A i \in Taken + 1 .. Len(imu_buffer) : imu_buffer[i] \in S
  BY <1>1
<1>4. SubSeq(imu_buffer, 1, Taken) \in Seq(S)
  BY <1>2, SubSeqProperties
<1>5. SubSeq(imu_buffer, Taken + 1, Len(imu_buffer)) \in Seq(S)
  BY <1>3, SubSeqProperties
<1> QED BY <1>4, <1>5 DEF RestOfImu

\* The loop of Drain stops.
LEMMA LoopStops ==
  ASSUME NEW S, S \subseteq Int, imu_buffer \in Seq(S), lidar_frame_end_time \in Int
  PROVE  Taken \in 0 .. Len(imu_buffer) /\ Stops(Taken)
<1> DEFINE Later == {i \in 1 .. Len(imu_buffer) : imu_buffer[i] > lidar_frame_end_time}
<1>0. Len(imu_buffer) \in Nat /\ \A i \in 1 .. Len(imu_buffer) : imu_buffer[i] \in Int
  <2>1. \A i \in 1 .. Len(imu_buffer) : imu_buffer[i] \in S
    BY ElementOfSeq
  <2> QED BY <2>1, LenProperties
<1>1. \E n \in 0 .. Len(imu_buffer) : Stops(n)
  <2>1. CASE Later = {}
    BY <1>0, <2>1 DEF Stops
  <2>2. CASE Later # {}
    <3>1. Later \subseteq Nat
      BY <1>0
    <3>2. PICK i \in Later : \A j \in Later : ~ (<<j, i>> \in OpToRel(<, Nat))
      BY <2>2, <3>1, WFMin, NatLessThanWellFounded
    <3>3. \A j \in Later : ~ (j < i)
      BY <3>1, <3>2 DEF OpToRel
    <3>4. i - 1 \in 0 .. Len(imu_buffer) /\ Stops(i - 1)
      <4>1. \A j \in 1 .. i - 1 : imu_buffer[j] <= lidar_frame_end_time
        BY <1>0, <3>3
      <4> QED BY <1>0, <4>1 DEF Stops
    <3> QED BY <3>4
  <2> QED BY <2>1, <2>2
<1> QED BY <1>1 DEF Taken

-------------------------------------------------------------------------------
\* The types of what the sensors and their callbacks change.
SensorTypes ==
  /\ points \in [Frames -> Clouds]
  /\ now \in FrameSpan .. LastTime
  /\ lidar_next \in 1 .. NFrames + 1
  /\ imu_next \in FrameSpan .. LastTime + 1
  /\ lidar_taken \subseteq Frames
  /\ imu_taken \subseteq FrameSpan .. LastTime
  /\ lidar_cbk \in {"free", "cloud", "stamp"}
  /\ lidar_ptr \in Frames \cup {0}
  /\ ~Unlocked => lidar_ptr \in Frames
  /\ lid_raw_data_buffer \in Seq(Frames)
  /\ lid_header_time_buffer \in Seq(Stamps)
  /\ imu_buffer \in Seq(FrameSpan .. LastTime)
  /\ last_timestamp_lidar \in Stamps \cup {-1}
  /\ last_timestamp_imu \in (FrameSpan .. LastTime) \cup {-1}

\* Of what the timer thread changes.
TimerTypes ==
  /\ timer \in {"idle", "choose", "stamp", "drain", "process", "undefined"}
  /\ lidar_pushed \in BOOLEAN
  /\ lidar \in Frames \cup {0}
  /\ timer \in {"stamp", "drain", "process"} \/ lidar_pushed => lidar \in Frames
  /\ lidar_frame_beg_time \in Stamps \cup {0}
  /\ last_lio_update_time \in Nat \cup {-1}
  /\ measures \in Seq([imu : Seq(FrameSpan .. LastTime), lio_time : Nat])
  /\ timer = "process" => measures # <<>>
  /\ init_iter_num \in Nat \ {0}
  /\ imu_need_init \in BOOLEAN

\* Of the map and its file.
SavingTypes ==
  /\ map \in Seq([frame : Frames, time : Nat])
  /\ saved \in Nat
  /\ started \in BOOLEAN
  /\ silent \in BOOLEAN
  /\ triggered \in BOOLEAN
  /\ response \in {"none", "success", "failure"}

Types == SensorTypes /\ TimerTypes /\ SavingTypes

LEMMA StampsAreNat == Stamps \subseteq Nat /\ \A f \in Frames : Beg(f) \in Stamps
BY StampsAscend DEF Stamps

LEMMA InitTypes == Init => Types
<1> SUFFICES ASSUME Init PROVE Types
  OBVIOUS
<1>1. SensorTypes
  BY LastTimeIsNat, SensorAssumption, EmptySeq DEF Init, SensorTypes, Unlocked
<1>2. TimerTypes
  <2>1. measures \in Seq([imu : Seq(FrameSpan .. LastTime), lio_time : Nat])
    BY EmptySeq DEF Init
  <2>2. lidar_frame_beg_time \in Stamps \cup {0}
    BY DEF Init
  <2>3. /\ last_lio_update_time \in Nat \cup {-1}
        /\ init_iter_num \in Nat \ {0}
        /\ lidar \in Frames \cup {0}
    BY DEF Init
  <2>4. /\ timer = "idle"
        /\ lidar_pushed = FALSE
        /\ imu_need_init = TRUE
    BY DEF Init
  <2> QED BY <2>1, <2>2, <2>3, <2>4 DEF TimerTypes
<1>3. SavingTypes
  <2>1. map \in Seq([frame : Frames, time : Nat])
    BY EmptySeq DEF Init, SavingInit
  <2> QED BY <2>1 DEF Init, SavingTypes, SavingInit
<1> QED BY <1>1, <1>2, <1>3 DEF Types

\* The sensors and their callbacks keep the types.
LEMMA SensorStepTypes ==
  ASSUME Types, Tick \/ SensorStep
  PROVE  Types'
<1> USE DEF sensorVars, takenVars, cbkVars, lidVars, imuVars, measVars, filterVars, mapVars,
            saveVars, autoVars
<1> USE DEF Types
<1>1. CASE Tick
  BY <1>1, LastTimeIsNat DEF Tick, SensorTypes, TimerTypes, SavingTypes, Unlocked
<1>2. CASE TakeLidar
  BY <1>2, SensorAssumption DEF TakeLidar, SensorTypes, TimerTypes, SavingTypes, Unlocked, Frames
<1>3. CASE TakeImu
  BY <1>3, LastTimeIsNat DEF TakeImu, SensorTypes, TimerTypes, SavingTypes, Unlocked
<1>4. CASE \E f \in lidar_taken : LidarLock(f)
  <2> PICK f \in lidar_taken : LidarLock(f)
    BY <1>4
  <2>1. f \in Frames
    BY DEF SensorTypes
  <2>2. lid_raw_data_buffer' \in Seq(Frames)
    BY EmptySeq DEF LidarLock, SensorTypes
  <2> QED BY <2>1, <2>2 DEF LidarLock, SensorTypes, TimerTypes, SavingTypes, Unlocked
<1>5. CASE PushCloud
  BY <1>5, AppendProperties DEF PushCloud, SensorTypes, TimerTypes, SavingTypes, Unlocked
<1>6. CASE PushStamp
  <2>1. lidar_ptr \in Frames /\ Beg(lidar_ptr) \in Stamps
    BY <1>6, StampsAreNat DEF PushStamp, SensorTypes, Unlocked
  <2> QED BY <1>6, <2>1, AppendProperties DEF PushStamp, SensorTypes, TimerTypes, SavingTypes, Unlocked
<1>7. CASE \E t \in imu_taken : ImuCallback(t)
  <2> PICK t \in imu_taken : ImuCallback(t)
    BY <1>7
  <2>1. t \in FrameSpan .. LastTime
    BY DEF SensorTypes
  <2>2. imu_buffer' \in Seq(FrameSpan .. LastTime)
    <3>1. imu_buffer' = imu_buffer \/ imu_buffer' = Append(imu_buffer, t)
      BY DEF ImuCallback, AcceptImu
    <3>2. imu_buffer \in Seq(FrameSpan .. LastTime)
      BY DEF SensorTypes
    <3>3. Append(imu_buffer, t) \in Seq(FrameSpan .. LastTime)
      BY <2>1, <3>2, AppendProperties
    <3> QED BY <3>1, <3>2, <3>3
  <2>3. last_timestamp_imu' \in (FrameSpan .. LastTime) \cup {-1}
    BY <2>1 DEF ImuCallback, AcceptImu, SensorTypes
  <2> QED BY <2>2, <2>3 DEF ImuCallback, SensorTypes, TimerTypes, SavingTypes, Unlocked
<1> QED BY <1>1, <1>2, <1>3, <1>4, <1>5, <1>6, <1>7 DEF SensorStep

\* The steps of the timer thread that fill no sequence.
LEMMA SyncTypes ==
  ASSUME Types,
         TimerFires \/ ReturnEarly \/ ResumeFrame \/ ChooseFrame \/ ChooseFromEmpty
           \/ ReadStamp \/ StampFromEmpty \/ AwaitImu \/ DrainEmpty
  PROVE  Types'
<1> USE DEF sensorVars, takenVars, cbkVars, lidVars, imuVars, measVars, filterVars, mapVars,
            saveVars, autoVars, Types
<1>1. CASE TimerFires
  <2>1. SavingTypes'
    <3>1. Len(map) \in Nat
      BY LenProperties DEF SavingTypes
    <3> QED BY <1>1, <3>1, AutoModeAssumption
            DEF TimerFires, AutoSave, AutoSaving, TimeoutDue, SavePCD, SavingTypes
  <2> QED BY <1>1, <2>1 DEF TimerFires, SensorTypes, TimerTypes, Unlocked
<1>2. CASE ReturnEarly
  BY <1>2 DEF ReturnEarly, SensorTypes, TimerTypes, SavingTypes, Unlocked
<1>3. ~NothingToChoose /\ Types => FirstUpdateTime \in Nat \cup {-1}
  <2> SUFFICES ASSUME ~NothingToChoose, last_lio_update_time < 0
               PROVE  FirstUpdateTime \in Nat
    BY DEF FirstUpdateTime, TimerTypes
  <2>1. lid_header_time_buffer # <<>> /\ lid_header_time_buffer \in Seq(Stamps)
    BY DEF NothingToChoose, SensorTypes
  <2>2. Head(lid_header_time_buffer) \in Stamps
    BY <2>1, HeadTailProperties
  <2> QED BY <2>2, StampsAreNat DEF FirstUpdateTime
<1>4. CASE ResumeFrame
  BY <1>3, <1>4 DEF ResumeFrame, SensorTypes, TimerTypes, SavingTypes, Unlocked
<1>5. CASE ChooseFrame
  <2>1. Head(lid_raw_data_buffer) \in Frames
    BY <1>5, HeadTailProperties DEF ChooseFrame, SensorTypes
  <2> QED BY <1>3, <1>5, <2>1 DEF ChooseFrame, SensorTypes, TimerTypes, SavingTypes, Unlocked
<1>6. CASE ReadStamp
  <2>1. Head(lid_header_time_buffer) \in Stamps
    BY <1>6, HeadTailProperties DEF ReadStamp, SensorTypes
  <2> QED BY <1>6, <2>1 DEF ReadStamp, SensorTypes, TimerTypes, SavingTypes, Unlocked
<1>7. CASE AwaitImu
  BY <1>7 DEF AwaitImu, SensorTypes, TimerTypes, SavingTypes, Unlocked
<1>8. CASE ChooseFromEmpty \/ StampFromEmpty \/ DrainEmpty
  <2>1. Undefined
    BY <1>8 DEF ChooseFromEmpty, StampFromEmpty, DrainEmpty
  <2> QED BY <2>1 DEF Undefined, SensorTypes, TimerTypes, SavingTypes, Unlocked
<1> QED BY <1>1, <1>2, <1>4, <1>5, <1>6, <1>7, <1>8

\* Draining and processing.
LEMMA FrameTypes ==
  ASSUME Types, Drain \/ InitialiseImu \/ MapFrame
  PROVE  Types'
<1> USE DEF sensorVars, takenVars, cbkVars, lidVars, imuVars, measVars, filterVars, mapVars,
            saveVars, autoVars, Types
<1>1. CASE Drain
  <2>1. lidar_frame_end_time \in Nat /\ lidar_frame_end_time \in Int
    BY StampsAreNat, SensorAssumption DEF TimerTypes, lidar_frame_end_time, End
  <2>2. FrameSpan .. LastTime \subseteq Int /\ imu_buffer \in Seq(FrameSpan .. LastTime)
    BY LastTimeIsNat DEF SensorTypes
  <2>3. Taken \in 0 .. Len(imu_buffer)
    BY <2>1, <2>2, LoopStops
  <2>4. /\ SubSeq(imu_buffer, 1, Taken) \in Seq(FrameSpan .. LastTime)
        /\ RestOfImu \in Seq(FrameSpan .. LastTime)
    BY <2>2, <2>3, Splits
  <2>5. MeasureGroup \in [imu : Seq(FrameSpan .. LastTime), lio_time : Nat]
    BY <2>1, <2>4 DEF MeasureGroup
  <2>6. /\ measures' \in Seq([imu : Seq(FrameSpan .. LastTime), lio_time : Nat])
        /\ measures' # <<>>
    BY <1>1, <2>5, AppendProperties DEF Drain, TimerTypes
  <2>7. /\ lid_raw_data_buffer' \in Seq(Frames)
        /\ lid_header_time_buffer' \in Seq(Stamps)
    BY <1>1, HeadTailProperties DEF Drain, PoppedClouds, PoppedStamps, SensorTypes
  <2>8. SensorTypes'
    BY <1>1, <2>4, <2>7 DEF Drain, SensorTypes, Unlocked
  <2>9. TimerTypes'
    BY <1>1, <2>6 DEF Drain, TimerTypes, FrameDone
  <2>10. SavingTypes'
    BY <1>1 DEF Drain, SavingTypes, MessageSynced
  <2> QED BY <2>8, <2>9, <2>10
<1>2. timer = "process" => Group \in [imu : Seq(FrameSpan .. LastTime), lio_time : Nat]
  <2> SUFFICES ASSUME timer = "process"
               PROVE  Group \in [imu : Seq(FrameSpan .. LastTime), lio_time : Nat]
    OBVIOUS
  <2>1. /\ measures \in Seq([imu : Seq(FrameSpan .. LastTime), lio_time : Nat])
        /\ measures # <<>>
    BY DEF TimerTypes
  <2>2. Len(measures) \in 1 .. Len(measures)
    BY <2>1, EmptySeq
  <2> QED BY <2>1, <2>2, ElementOfSeq DEF Group
<1>3. CASE InitialiseImu
  <2>1. Len(Group.imu) \in Nat
    BY <1>2, <1>3, LenProperties DEF InitialiseImu
  <2> QED BY <1>3, <2>1 DEF InitialiseImu, SensorTypes, TimerTypes, SavingTypes, Unlocked
<1>4. CASE MapFrame
  <2>1. Group.lio_time \in Nat /\ lidar \in Frames
    BY <1>2, <1>4 DEF MapFrame, TimerTypes
  <2>2. map' \in Seq([frame : Frames, time : Nat])
    BY <1>4, <2>1, AppendProperties DEF MapFrame, SavingTypes
  <2> QED BY <1>4, <2>1, <2>2 DEF MapFrame, SensorTypes, TimerTypes, SavingTypes, Unlocked
<1> QED BY <1>1, <1>3, <1>4

\* Every step keeps the types.
LEMMA StepTypes == Types /\ [Next]_vars => Types'
<1> SUFFICES ASSUME Types, [Next]_vars PROVE Types'
  OBVIOUS
<1> USE DEF sensorVars, takenVars, cbkVars, lidVars, imuVars, measVars, filterVars, mapVars,
            saveVars, autoVars
<1>1. CASE Tick \/ SensorStep
  BY <1>1, SensorStepTypes
<1>2. CASE TimerStep
  BY <1>2, SyncTypes, FrameTypes DEF TimerStep
<1>3. CASE SaveRequest
  <2>1. Len(map) \in Nat
    BY LenProperties DEF Types, SavingTypes
  <2> QED BY <1>3, <2>1 DEF SaveRequest, SaveMap, SavePCD, Answer, Types, SensorTypes,
                            TimerTypes, SavingTypes, Unlocked
<1>4. CASE TimeoutPasses
  BY <1>4 DEF TimeoutPasses, Silence, Types, SensorTypes, TimerTypes, SavingTypes, Unlocked
<1>5. CASE UNCHANGED vars
  BY <1>5 DEF vars, Types, SensorTypes, TimerTypes, SavingTypes, Unlocked
<1> QED BY <1>1, <1>2, <1>3, <1>4, <1>5 DEF Next

\* Every variable of the mapper keeps its type.
THEOREM TypeCorrect == Spec => []TypeOK
<1>1. Types => TypeOK
  BY DEF Types, SensorTypes, TimerTypes, SavingTypes, TypeOK
<1> QED BY <1>1, InitTypes, StepTypes, PTL DEF Spec

-------------------------------------------------------------------------------
\* The head of a sequence is its first element.
LEMMA HeadIsFirst ==
  ASSUME NEW S, NEW s \in Seq(S), s # <<>>
  PROVE  Head(s) = s[1] /\ Len(s) \in Nat \ {0}
BY EmptySeq

LEMMA InitInv == Init => Inv
<1> SUFFICES ASSUME Init PROVE Inv
  OBVIOUS
<1>1. Unlocked /\ lidar_taken = {}
  BY DEF Init, Unlocked
<1>2. OneInFlight /\ InOrder
  BY <1>1, StampsAscend DEF Init, OneInFlight, InOrder
<1>3. Paired
  BY EmptySeq DEF Init, Paired
<1>4. Choice /\ PopsWhatItChose
  BY DEF Init, Choice, PopsWhatItChose
<1>5. FrameKeepsItsStamp
  BY DEF Init, SavingInit, FrameKeepsItsStamp
<1> QED BY <1>2, <1>3, <1>4, <1>5 DEF Inv

\* Alone in flight: what is taken is taken when no other is.
LEMMA TakenAlone ==
  ASSUME Types, MaxInFlight = 1, TakeLidar
  PROVE  lidar_taken = {} /\ Unlocked
<1>1. IsFiniteSet(lidar_taken)
  <2>1. IsFiniteSet(Frames)
    BY SensorAssumption, FS_Interval DEF Frames
  <2> QED BY <2>1, FS_Subset DEF Types, SensorTypes
<1>2. Cardinality(lidar_taken) \in Nat
  BY <1>1, FS_CardinalityType
<1>3. Cardinality(lidar_taken) + (IF Unlocked THEN 0 ELSE 1) < 1
  BY DEF TakeLidar, LidarInFlight
<1>4. Cardinality(lidar_taken) = 0 /\ Unlocked
  BY <1>2, <1>3
<1> QED BY <1>1, <1>4, FS_EmptySet

\* What the timer has chosen does not depend on what is in flight.
LEMMA TakeLidarPreserves ==
  ASSUME Types, Inv, MaxInFlight = 1, TakeLidar
  PROVE  Inv'
<1> USE DEF takenVars, cbkVars, lidVars, imuVars, measVars, filterVars, mapVars
<1>1. lidar_taken = {} /\ Unlocked
  BY TakenAlone
<1>2. OneInFlight'
  BY <1>1 DEF TakeLidar, OneInFlight, Unlocked, Types, SensorTypes
<1>3. InOrder'
  BY <1>1 DEF TakeLidar, InOrder, Inv, Unlocked, Types, SensorTypes, Frames
<1>4. Paired' /\ Choice' /\ PopsWhatItChose' /\ FrameKeepsItsStamp'
  BY DEF TakeLidar, Inv, Paired, Choice, PopsWhatItChose, FrameKeepsItsStamp, Group
<1> QED BY <1>2, <1>3, <1>4 DEF Inv

\* The clouds are never cleared: what a callback locks in with is newer.
LEMMA LidarLockPreserves ==
  ASSUME Types, Inv, NEW f \in lidar_taken, LidarLock(f)
  PROVE  Inv'
<1> USE DEF sensorVars, cbkVars, imuVars, measVars, filterVars, mapVars
<1>1. f = lidar_next - 1 /\ f \in Frames /\ lidar_taken = {f}
  BY DEF Inv, OneInFlight, Types, SensorTypes
<1>2. last_timestamp_lidar < Beg(f) /\ Beg(f) \in Int /\ last_timestamp_lidar \in Int
  BY <1>1, StampsAscend, StampsAreNat DEF Inv, InOrder, Types, SensorTypes
<1>3. UNCHANGED lid_raw_data_buffer
  BY <1>2 DEF LidarLock, LoopBack
<1>4. Unlocked /\ lidar_taken' = {}
  BY <1>1 DEF LidarLock
<1>5. ~Unlocked' => lidar_ptr' = f /\ lidar_cbk' = "cloud"
  BY <1>4 DEF LidarLock, Unlocked
<1>6. OneInFlight' /\ InOrder'
  BY <1>1, <1>2, <1>4, <1>5 DEF LidarLock, Inv, OneInFlight, InOrder
<1>7. Paired'
  BY <1>3, <1>4, <1>5 DEF LidarLock, Inv, Paired, Unlocked
<1>8. Choice' /\ PopsWhatItChose' /\ FrameKeepsItsStamp'
  BY <1>3 DEF LidarLock, Inv, Choice, PopsWhatItChose, FrameKeepsItsStamp, Group
<1> QED BY <1>6, <1>7, <1>8 DEF Inv

\* A cloud, and then its stamp, go to the end of the buffers.
LEMMA PushCloudPreserves ==
  ASSUME Types, Inv, PushCloud
  PROVE  Inv'
<1> USE DEF sensorVars, takenVars, imuVars, measVars, filterVars, mapVars
<1>1. lid_raw_data_buffer \in Seq(Frames) /\ lidar_ptr \in Frames
  BY DEF PushCloud, Types, SensorTypes, Unlocked
<1>2. lid_header_time_buffer \in Seq(Stamps) /\ Len(lid_header_time_buffer) \in Nat
  BY LenProperties DEF Types, SensorTypes
<1>3. /\ Len(lid_raw_data_buffer') = Len(lid_raw_data_buffer) + 1
      /\ \A i \in 1 .. Len(lid_raw_data_buffer) : lid_raw_data_buffer'[i] = lid_raw_data_buffer[i]
      /\ lid_raw_data_buffer'[Len(lid_raw_data_buffer) + 1] = lidar_ptr
      /\ lid_raw_data_buffer' # <<>>
  BY <1>1, AppendProperties DEF PushCloud
<1>4. lid_raw_data_buffer # <<>> => Head(lid_raw_data_buffer') = Head(lid_raw_data_buffer)
  BY <1>1, HeadTailAppend DEF PushCloud
<1>5. Len(lid_raw_data_buffer) = Len(lid_header_time_buffer)
  BY <1>2 DEF PushCloud, Inv, Paired
<1>6. OneInFlight' /\ InOrder'
  BY DEF PushCloud, Inv, OneInFlight, InOrder, Unlocked
<1>7. Paired'
  BY <1>2, <1>3, <1>5 DEF PushCloud, Inv, Paired
<1>8. Choice' /\ PopsWhatItChose'
  BY <1>3, <1>4 DEF PushCloud, Inv, Choice, PopsWhatItChose, Group
<1>9. FrameKeepsItsStamp'
  BY DEF PushCloud, Inv, FrameKeepsItsStamp
<1> QED BY <1>6, <1>7, <1>8, <1>9 DEF Inv

LEMMA PushStampPreserves ==
  ASSUME Types, Inv, PushStamp
  PROVE  Inv'
<1> USE DEF sensorVars, takenVars, imuVars, measVars, filterVars, mapVars
<1>1. lidar_ptr \in Frames /\ lidar_ptr = lidar_next - 1 /\ lidar_taken = {}
  BY DEF PushStamp, Types, SensorTypes, Unlocked, Inv, OneInFlight
<1>2. lid_header_time_buffer \in Seq(Stamps) /\ Len(lid_header_time_buffer) \in Nat
  BY LenProperties DEF Types, SensorTypes
<1>3. Beg(lidar_ptr) \in Stamps
  BY <1>1, StampsAreNat
<1>4. /\ Len(lid_header_time_buffer') = Len(lid_header_time_buffer) + 1
      /\ \A i \in 1 .. Len(lid_header_time_buffer) :
           lid_header_time_buffer'[i] = lid_header_time_buffer[i]
      /\ lid_header_time_buffer'[Len(lid_header_time_buffer) + 1] = Beg(lidar_ptr)
      /\ lid_header_time_buffer' # <<>>
  BY <1>2, <1>3, AppendProperties DEF PushStamp
<1>5. lid_header_time_buffer # <<>> =>
        Head(lid_header_time_buffer') = Head(lid_header_time_buffer)
  BY <1>2, HeadTailAppend DEF PushStamp
<1>6. OneInFlight'
  BY <1>1 DEF PushStamp, OneInFlight, Unlocked
<1>7. InOrder'
  <2> SUFFICES ASSUME NEW f \in Frames, f >= lidar_next
               PROVE  Beg(lidar_ptr) < Beg(f)
    BY <1>1 DEF PushStamp, InOrder, Unlocked
  <2>1. lidar_ptr < f
    BY <1>1 DEF Frames, Types, SensorTypes
  <2> QED BY <1>1, <2>1, StampsAscend
<1>8. Paired'
  BY <1>2, <1>4 DEF PushStamp, Inv, Paired
<1>9. Choice' /\ PopsWhatItChose'
  BY <1>4, <1>5 DEF PushStamp, Inv, Choice, PopsWhatItChose, Group
<1>10. FrameKeepsItsStamp'
  BY DEF PushStamp, Inv, FrameKeepsItsStamp
<1> QED BY <1>6, <1>7, <1>8, <1>9, <1>10 DEF Inv

\* The timer chooses, stamps, pops and maps one and the same frame.
LEMMA ChoosePreserves ==
  ASSUME Types, Inv, ResumeFrame \/ ChooseFrame \/ ReadStamp
  PROVE  Inv'
<1> USE DEF sensorVars, takenVars, cbkVars, lidVars, imuVars, measVars, filterVars, mapVars
<1>1. OneInFlight' /\ InOrder' /\ Paired' /\ FrameKeepsItsStamp'
  BY DEF ResumeFrame, ChooseFrame, ReadStamp, Inv, OneInFlight, InOrder, Paired,
         FrameKeepsItsStamp, Unlocked
<1>2. CASE ResumeFrame
  BY <1>1, <1>2 DEF ResumeFrame, Inv, Choice, PopsWhatItChose, Group
<1>3. CASE ChooseFrame
  BY <1>1, <1>3 DEF ChooseFrame, Inv, Choice, PopsWhatItChose, Group
<1>4. CASE ReadStamp
  <2>1. lid_raw_data_buffer # <<>> /\ Head(lid_raw_data_buffer) = lidar
    BY <1>4 DEF ReadStamp, Inv, Choice
  <2>2. Head(lid_raw_data_buffer) = lid_raw_data_buffer[1]
    BY <2>1, HeadIsFirst DEF Types, SensorTypes
  <2>3. /\ Head(lid_header_time_buffer) = lid_header_time_buffer[1]
        /\ Len(lid_header_time_buffer) \in Nat \ {0}
    BY <1>4, HeadIsFirst DEF ReadStamp, Types, SensorTypes
  <2>4. lid_header_time_buffer[1] = Beg(lid_raw_data_buffer[1])
    BY <2>3 DEF Inv, Paired
  <2> QED BY <1>1, <1>4, <2>1, <2>2, <2>3, <2>4
          DEF ReadStamp, Inv, Choice, PopsWhatItChose, Group
<1> QED BY <1>2, <1>3, <1>4

LEMMA DrainPreserves ==
  ASSUME Types, Inv, Drain
  PROVE  Inv'
<1> USE DEF sensorVars, takenVars, cbkVars, filterVars
<1> DEFINE raw == lid_raw_data_buffer
           hdr == lid_header_time_buffer
<1>1. raw \in Seq(Frames) /\ raw # <<>> /\ hdr \in Seq(Stamps) /\ hdr # <<>>
  BY DEF Drain, Types, SensorTypes
<1>2. /\ Len(raw') = Len(raw) - 1
      /\ \A i \in 1 .. Len(raw') : raw'[i] = raw[i + 1]
  BY <1>1, HeadTailProperties DEF Drain, PoppedClouds
<1>3. /\ Len(hdr') = Len(hdr) - 1
      /\ \A i \in 1 .. Len(hdr') : hdr'[i] = hdr[i + 1]
  BY <1>1, HeadTailProperties DEF Drain, PoppedStamps
<1>4. Len(raw) \in Nat \ {0} /\ Len(hdr) \in Nat \ {0}
  BY <1>1, HeadIsFirst
<1>5. lidar_cbk = "free" /\ Len(raw) = Len(hdr)
  BY <1>4 DEF Drain, Unlocked, Inv, Paired
<1>6. Paired'
  <2>1. \A i \in 1 .. Len(hdr') : i \in 1 .. Len(raw') /\ i + 1 \in 1 .. Len(hdr)
    BY <1>2, <1>3, <1>4, <1>5
  <2>2. \A i \in 1 .. Len(hdr') : hdr'[i] = Beg(raw'[i])
    BY <1>2, <1>3, <2>1 DEF Inv, Paired
  <2> QED BY <1>2, <1>3, <1>4, <1>5, <2>2 DEF Drain, Paired
<1>7. OneInFlight' /\ InOrder' /\ FrameKeepsItsStamp'
  BY DEF Drain, Inv, OneInFlight, InOrder, FrameKeepsItsStamp, Unlocked
<1>8. ~lidar_pushed'
  BY DEF Drain, FrameDone
<1>9. measures' # <<>> /\ measures'[Len(measures')] = MeasureGroup
  <2>1. measures \in Seq([imu : Seq(FrameSpan .. LastTime), lio_time : Nat])
    BY DEF Types, TimerTypes
  <2>2. measures' = Append(measures, MeasureGroup)
    BY DEF Drain
  <2>3. Len(measures) \in Nat
    BY <2>1, LenProperties
  <2> QED BY <2>1, <2>2, <2>3
<1>10. MeasureGroup.lio_time = End(Beg(lidar'))
  <2>1. lidar_frame_beg_time = Beg(lidar)
    BY DEF Drain, Inv, Choice, PopsWhatItChose
  <2>2. lidar' = lidar
    BY DEF Drain
  <2> QED BY <2>1, <2>2 DEF MeasureGroup, lidar_frame_end_time
<1>11. Choice' /\ PopsWhatItChose'
  BY <1>8, <1>9, <1>10 DEF Drain, Choice, PopsWhatItChose, Group
<1> QED BY <1>6, <1>7, <1>11 DEF Inv

LEMMA MapFramePreserves ==
  ASSUME Types, Inv, MapFrame
  PROVE  Inv'
<1> USE DEF sensorVars, takenVars, cbkVars, lidVars, imuVars, measVars
<1>1. map \in Seq([frame : Frames, time : Nat]) /\ Len(map) \in Nat /\ DOMAIN map = 1 .. Len(map)
  BY LenProperties DEF Types, SavingTypes
<1>2. [frame |-> lidar, time |-> Group.lio_time] \in [frame : Frames, time : Nat]
  <2>1. map' \in Seq([frame : Frames, time : Nat])
    BY FrameTypes DEF Types, SavingTypes
  <2>2. map' = Append(map, [frame |-> lidar, time |-> Group.lio_time])
    BY DEF MapFrame
  <2>3. Len(map) + 1 \in 1 .. Len(map') /\ map'[Len(map) + 1] = [frame |-> lidar, time |-> Group.lio_time]
    BY <1>1, <2>2
  <2> QED BY <2>1, <2>3, ElementOfSeq
<1>3. /\ Len(map') = Len(map) + 1
      /\ \A i \in 1 .. Len(map) : map'[i] = map[i]
      /\ map'[Len(map) + 1] = [frame |-> lidar, time |-> Group.lio_time]
      /\ DOMAIN map' = 1 .. Len(map) + 1
  BY <1>1, <1>2, AppendProperties, LenProperties DEF MapFrame
<1>4. Group.lio_time = End(Beg(lidar))
  BY DEF MapFrame, Inv, Choice
<1>5. FrameKeepsItsStamp'
  <2> SUFFICES ASSUME NEW i \in 1 .. Len(map) + 1
               PROVE  map'[i].time = End(Beg(map'[i].frame))
    BY <1>3 DEF FrameKeepsItsStamp
  <2>1. CASE i = Len(map) + 1
    BY <1>3, <1>4, <2>1
  <2>2. CASE i # Len(map) + 1
    <3>1. i \in 1 .. Len(map)
      BY <1>1, <2>2
    <3> QED BY <1>1, <1>3, <3>1 DEF Inv, FrameKeepsItsStamp
  <2> QED BY <2>1, <2>2
<1>6. OneInFlight' /\ InOrder' /\ Paired' /\ Choice' /\ PopsWhatItChose'
  BY DEF MapFrame, Inv, OneInFlight, InOrder, Paired, Choice, PopsWhatItChose, Unlocked
<1> QED BY <1>5, <1>6 DEF Inv

\* Every other step leaves what the invariant is about alone, or stops the timer.
LEMMA OthersPreserve ==
  ASSUME Inv,
         \/ UNCHANGED vars
         \/ Tick
         \/ TakeImu
         \/ \E t \in imu_taken : ImuCallback(t)
         \/ TimerFires
         \/ ReturnEarly
         \/ ChooseFromEmpty \/ StampFromEmpty \/ DrainEmpty
         \/ AwaitImu
         \/ InitialiseImu
         \/ SaveRequest
         \/ TimeoutPasses
  PROVE  Inv'
<1> USE DEF sensorVars, takenVars, cbkVars, lidVars, imuVars, measVars, filterVars, mapVars
<1>1. /\ UNCHANGED <<lidar_next, lidar_taken, cbkVars, lidVars, measVars, map>>
      /\ timer' = timer \/ timer' \in {"idle", "choose", "undefined"}
  BY DEF vars, Tick, TakeImu, ImuCallback, TimerFires, AutoSave, ReturnEarly, ChooseFromEmpty,
         StampFromEmpty, DrainEmpty, Undefined, AwaitImu, InitialiseImu, SaveRequest, SaveMap,
         TimeoutPasses, Silence
<1>2. OneInFlight' /\ InOrder' /\ Paired' /\ PopsWhatItChose' /\ FrameKeepsItsStamp'
  BY <1>1 DEF Inv, OneInFlight, InOrder, Paired, PopsWhatItChose, FrameKeepsItsStamp, Unlocked
<1>3. Choice'
  BY <1>1 DEF Inv, Choice, Group
<1> QED BY <1>2, <1>3 DEF Inv

LEMMA StepInv == Types /\ Inv /\ MaxInFlight = 1 /\ [Next]_vars => Inv'
<1> SUFFICES ASSUME Types, Inv, MaxInFlight = 1, [Next]_vars PROVE Inv'
  OBVIOUS
<1>1. CASE SensorStep
  BY <1>1, TakeLidarPreserves, LidarLockPreserves, PushCloudPreserves, PushStampPreserves,
     OthersPreserve DEF SensorStep
<1>2. CASE TimerStep
  BY <1>2, ChoosePreserves, DrainPreserves, MapFramePreserves, OthersPreserve DEF TimerStep
<1>3. CASE Tick \/ SaveRequest \/ TimeoutPasses \/ UNCHANGED vars
  BY <1>3, OthersPreserve
<1> QED BY <1>1, <1>2, <1>3 DEF Next

\* While lidar callbacks do not overlap, the frame that is popped is the frame that
\* was chosen, and no frame is placed in the map at the time of another.
THEOREM StampsSafe ==
  ASSUME MaxInFlight = 1
  PROVE  Spec => [](PopsWhatItChose /\ FrameKeepsItsStamp)
<1>1. Init => Types /\ Inv
  BY InitTypes, InitInv
<1>2. Types /\ Inv /\ [Next]_vars => (Types /\ Inv)'
  BY StepTypes, StepInv
<1>3. Inv => PopsWhatItChose /\ FrameKeepsItsStamp
  BY DEF Inv
<1> QED BY <1>1, <1>2, <1>3, PTL DEF Spec
-------------------------------------------------------------------------------
\* The file never holds more than the map.
SavedIsMapped == saved <= Len(map)

LEMMA SaveGrows ==
  ASSUME Types, SavedIsMapped
  PROVE  SavePCD \in Nat /\ saved <= SavePCD /\ SavePCD <= Len(map)
<1>1. map \in Seq([frame : Frames, time : Nat]) /\ saved \in Nat
  BY DEF Types, SavingTypes
<1>2. Len(map) \in Nat
  BY <1>1, LenProperties
<1> QED BY <1>1, <1>2 DEF SavePCD, SavedIsMapped

\* A step writes the whole map or leaves the file alone, and the map only grows.
LEMMA SavedStep ==
  ASSUME Types, SavedIsMapped, [Next]_vars
  PROVE  saved <= saved' /\ saved' <= Len(map')
<1> USE DEF mapVars, saveVars, autoVars
<1>1. Len(map) \in Nat /\ saved \in Nat
  BY LenProperties DEF Types, SavingTypes
<1>2. CASE UNCHANGED <<map, saved>>
  BY <1>1, <1>2 DEF SavedIsMapped
<1>3. CASE TimerFires
  <2>1. map' = map /\ (saved' = saved \/ saved' = SavePCD)
    BY <1>3 DEF TimerFires, AutoSave
  <2> QED BY <1>1, <2>1, SaveGrows DEF SavedIsMapped
<1>4. CASE SaveRequest
  <2>1. map' = map /\ saved' = SavePCD
    BY <1>4 DEF SaveRequest, SaveMap
  <2> QED BY <1>1, <2>1, SaveGrows
<1>5. CASE MapFrame
  <2>1. saved' = saved /\ map' = Append(map, [frame |-> lidar, time |-> Group.lio_time])
    BY <1>5 DEF MapFrame
  <2>2. Len(map') = Len(map) + 1
    BY <2>1 DEF Types, SavingTypes
  <2> QED BY <1>1, <2>1, <2>2 DEF SavedIsMapped
<1>6. CASE Tick \/ SensorStep
  <2>1. UNCHANGED <<map, saved>>
    BY <1>6 DEF SensorStep, Tick, TakeLidar, TakeImu, LidarLock, PushCloud, PushStamp, ImuCallback
  <2> QED BY <1>2, <2>1
<1>7. CASE TimerStep /\ ~TimerFires /\ ~MapFrame
  <2>1. UNCHANGED <<map, saved>>
    BY <1>7 DEF TimerStep, ReturnEarly, ResumeFrame, ChooseFrame, ChooseFromEmpty, ReadStamp,
         StampFromEmpty, AwaitImu, Drain, DrainEmpty, InitialiseImu, Undefined
  <2> QED BY <1>2, <2>1
<1>8. CASE TimeoutPasses \/ UNCHANGED vars
  <2>1. UNCHANGED <<map, saved>>
    BY <1>8 DEF TimeoutPasses, Silence, vars
  <2> QED BY <1>2, <2>1
<1> QED BY <1>3, <1>4, <1>5, <1>6, <1>7, <1>8 DEF Next

\* Whatever saves, the service or the automatic mode, and whenever it does: the file
\* never gets shorter and never holds what the map does not.
THEOREM SavesGrow == Spec => FileGrows
<1>1. Init => SavedIsMapped
  BY EmptySeq DEF Init, SavingInit, SavedIsMapped
<1>2. Types /\ SavedIsMapped /\ [Next]_vars => SavedIsMapped'
  BY SavedStep DEF SavedIsMapped
<1>3. Types /\ SavedIsMapped /\ [Next]_vars => [saved' >= saved /\ saved' <= Len(map')]_<<saved, map>>
  <2> SUFFICES ASSUME Types, SavedIsMapped, [Next]_vars
               PROVE  saved' >= saved /\ saved' <= Len(map')
    OBVIOUS
  <2>1. saved \in Nat /\ saved' \in Nat
    BY StepTypes DEF Types, SavingTypes
  <2> QED BY <2>1, SavedStep
<1> QED BY <1>1, <1>2, <1>3, InitTypes, StepTypes, PTL DEF Spec, FileGrows

-------------------------------------------------------------------------------
\* An IMU sample whose callback has not run is not the last one accepted, and none
\* that is still to come is older than it.
ImuFresh ==
  /\ \A t \in imu_taken : t < imu_next
  /\ last_timestamp_imu < imu_next
  /\ last_timestamp_imu \notin imu_taken

\* The samples in the buffer ascend up to the last one accepted.
BufferAscends ==
  \A i \in DOMAIN imu_buffer :
    /\ imu_buffer[i] <= last_timestamp_imu
    /\ \A j \in DOMAIN imu_buffer : i < j => imu_buffer[i] < imu_buffer[j]

\* What the filter has got is older than what the buffer holds.
HandedBefore ==
  \A k \in DOMAIN measures : \A a \in DOMAIN measures[k].imu :
    /\ measures[k].imu[a] <= last_timestamp_imu
    /\ \A i \in DOMAIN imu_buffer : measures[k].imu[a] < imu_buffer[i]

ImuInv == ImuFresh /\ BufferAscends /\ HandedBefore /\ ImuAscends

LEMMA Samples ==
  ASSUME Types
  PROVE  /\ Len(imu_buffer) \in Nat /\ DOMAIN imu_buffer = 1 .. Len(imu_buffer)
         /\ \A i \in DOMAIN imu_buffer : imu_buffer[i] \in Nat
         /\ Len(measures) \in Nat /\ DOMAIN measures = 1 .. Len(measures)
         /\ \A k \in DOMAIN measures : \A a \in DOMAIN measures[k].imu :
              measures[k].imu[a] \in Nat
         /\ \A t \in imu_taken : t \in Nat
         /\ last_timestamp_imu \in Int
<1>1. FrameSpan .. LastTime \subseteq Nat
  BY LastTimeIsNat
<1>2. imu_buffer \in Seq(FrameSpan .. LastTime)
  BY DEF Types, SensorTypes
<1>3. Len(imu_buffer) \in Nat /\ DOMAIN imu_buffer = 1 .. Len(imu_buffer)
  BY <1>2, LenProperties
<1>4. \A i \in DOMAIN imu_buffer : imu_buffer[i] \in FrameSpan .. LastTime
  BY <1>2, <1>3, ElementOfSeq
<1>5. measures \in Seq([imu : Seq(FrameSpan .. LastTime), lio_time : Nat])
  BY DEF Types, TimerTypes
<1>6. Len(measures) \in Nat /\ DOMAIN measures = 1 .. Len(measures)
  BY <1>5, LenProperties
<1>7. \A k \in DOMAIN measures : measures[k].imu \in Seq(FrameSpan .. LastTime)
  <2> TAKE k \in DOMAIN measures
  <2>1. measures[k] \in [imu : Seq(FrameSpan .. LastTime), lio_time : Nat]
    BY <1>5, <1>6, ElementOfSeq
  <2> QED BY <2>1
<1>8. \A k \in DOMAIN measures : \A a \in DOMAIN measures[k].imu :
        measures[k].imu[a] \in FrameSpan .. LastTime
  <2> TAKE k \in DOMAIN measures
  <2> DEFINE q == measures[k].imu
  <2>1. q \in Seq(FrameSpan .. LastTime)
    BY <1>7
  <2> HIDE DEF q
  <2>2. \A a \in DOMAIN q : q[a] \in FrameSpan .. LastTime
    BY <2>1, LenProperties, ElementOfSeq
  <2> QED BY <2>2 DEF q
<1>9. /\ \A t \in imu_taken : t \in Nat
      /\ last_timestamp_imu \in Int
  BY <1>1 DEF Types, SensorTypes
<1> QED BY <1>1, <1>3, <1>4, <1>6, <1>8, <1>9

\* What Drain takes from the front of imu_buffer is what it hands over.
LEMMA Drained ==
  ASSUME Types, Drain
  PROVE  /\ Taken \in 0 .. Len(imu_buffer) /\ Stops(Taken)
         /\ Len(imu_buffer') = Len(imu_buffer) - Taken
         /\ DOMAIN imu_buffer' = 1 .. Len(imu_buffer) - Taken
         /\ \A i \in 1 .. Len(imu_buffer) - Taken : imu_buffer'[i] = imu_buffer[Taken + i]
         /\ Len(measures') = Len(measures) + 1
         /\ DOMAIN measures' = 1 .. Len(measures) + 1
         /\ \A k \in 1 .. Len(measures) : measures'[k] = measures[k]
         /\ measures'[Len(measures) + 1].lio_time = lidar_frame_end_time
         /\ measures'[Len(measures) + 1].imu = SubSeq(imu_buffer, 1, Taken)
         /\ DOMAIN measures'[Len(measures) + 1].imu = 1 .. Taken
         /\ \A a \in 1 .. Taken : measures'[Len(measures) + 1].imu[a] = imu_buffer[a]
<1> DEFINE n == Taken
           last == Len(measures) + 1
<1> HIDE DEF n
<1>1. imu_buffer \in Seq(FrameSpan .. LastTime)
  BY DEF Types, SensorTypes
<1>2. n \in 0 .. Len(imu_buffer) /\ Stops(n)
  <2>1. lidar_frame_end_time \in Int
    BY StampsAreNat, SensorAssumption DEF Types, TimerTypes, lidar_frame_end_time, End
  <2>2. FrameSpan .. LastTime \subseteq Int
    BY LastTimeIsNat
  <2> QED BY <1>1, <2>1, <2>2, LoopStops DEF n
<1>3. /\ Len(imu_buffer') = Len(imu_buffer) - n
      /\ DOMAIN imu_buffer' = 1 .. Len(imu_buffer) - n
      /\ \A i \in 1 .. Len(imu_buffer) - n : imu_buffer'[i] = imu_buffer[n + i]
  <2>1. /\ DOMAIN imu_buffer' = 1 .. Len(imu_buffer) - n
        /\ \A i \in 1 .. Len(imu_buffer) - n : imu_buffer'[i] = imu_buffer[n + i]
    BY <1>1, <1>2, Samples DEF Drain, RestOfImu, n
  <2>2. imu_buffer' = SubSeq(imu_buffer, n + 1, Len(imu_buffer))
    BY DEF Drain, RestOfImu, n
  <2>3. Len(imu_buffer') = Len(imu_buffer) - n
    <3>1. \A i \in n + 1 .. Len(imu_buffer) : imu_buffer[i] \in FrameSpan .. LastTime
      <4>1. \A i \in 1 .. Len(imu_buffer) : imu_buffer[i] \in FrameSpan .. LastTime
        BY <1>1, ElementOfSeq
      <4> QED BY <1>2, <4>1
    <3>2. n + 1 \in Int /\ Len(imu_buffer) \in Int
      BY <1>2, Samples
    <3>3. Len(imu_buffer') = IF n + 1 <= Len(imu_buffer) THEN Len(imu_buffer) - (n + 1) + 1 ELSE 0
      BY <2>2, <3>1, <3>2, SubSeqProperties
    <3> QED BY <1>2, <3>2, <3>3
  <2> QED BY <2>1, <2>3
<1>4. /\ Len(measures') = last
      /\ DOMAIN measures' = 1 .. last
      /\ \A k \in 1 .. Len(measures) : measures'[k] = measures[k]
      /\ measures'[last].imu = SubSeq(imu_buffer, 1, n)
      /\ measures'[last].lio_time = lidar_frame_end_time
  <2>1. measures' = Append(measures, MeasureGroup)
    BY DEF Drain
  <2>2. measures \in Seq([imu : Seq(FrameSpan .. LastTime), lio_time : Nat])
    BY DEF Types, TimerTypes
  <2>3. SubSeq(imu_buffer, 1, n) \in Seq(FrameSpan .. LastTime) /\ lidar_frame_end_time \in Nat
    <3>1. SubSeq(imu_buffer, 1, n) \in Seq(FrameSpan .. LastTime)
      BY <1>1, <1>2, Splits DEF n
    <3>2. lidar_frame_end_time \in Nat
      BY StampsAreNat, SensorAssumption DEF Types, TimerTypes, lidar_frame_end_time, End
    <3> QED BY <3>1, <3>2
  <2>4. MeasureGroup = [imu |-> SubSeq(imu_buffer, 1, n), lio_time |-> lidar_frame_end_time]
    BY DEF MeasureGroup, n
  <2>5. MeasureGroup \in [imu : Seq(FrameSpan .. LastTime), lio_time : Nat]
    BY <2>3, <2>4
  <2>6. /\ Len(measures') = last
        /\ \A k \in 1 .. Len(measures) : measures'[k] = measures[k]
        /\ measures'[last] = MeasureGroup
        /\ measures' \in Seq([imu : Seq(FrameSpan .. LastTime), lio_time : Nat])
    BY <2>1, <2>2, <2>5, AppendProperties
  <2>7. DOMAIN measures' = 1 .. last
    BY <2>6, LenProperties
  <2>8. /\ measures'[last].imu = SubSeq(imu_buffer, 1, n)
        /\ measures'[last].lio_time = lidar_frame_end_time
    <3>1. /\ MeasureGroup.imu = SubSeq(imu_buffer, 1, n)
          /\ MeasureGroup.lio_time = lidar_frame_end_time
      BY <2>4
    <3> QED BY <2>6, <3>1
  <2> QED BY <2>6, <2>7, <2>8
<1>5. /\ DOMAIN measures'[last].imu = 1 .. n
      /\ \A a \in 1 .. n : measures'[last].imu[a] = imu_buffer[a]
  BY <1>1, <1>2, <1>4, Samples
<1> QED BY <1>2, <1>3, <1>4, <1>5 DEF n

LEMMA TakeImuPreserves ==
  ASSUME Types, ImuInv, TakeImu
  PROVE  ImuInv'
<1>1. imu_next \in Nat
  BY LastTimeIsNat DEF Types, SensorTypes
<1>2. ImuFresh'
  BY <1>1, Samples DEF ImuInv, ImuFresh, TakeImu, imuVars
<1>3. UNCHANGED <<imu_buffer, last_timestamp_imu, measures>>
  BY DEF TakeImu, imuVars, measVars
<1>4. BufferAscends'
  BY <1>3 DEF ImuInv, BufferAscends
<1>5. HandedBefore' /\ ImuAscends'
  BY <1>3 DEF ImuInv, HandedBefore, ImuAscends
<1> QED BY <1>2, <1>4, <1>5 DEF ImuInv

LEMMA ImuCallbackPreserves ==
  ASSUME Types, ImuInv, NEW t \in imu_taken, ImuCallback(t)
  PROVE  ImuInv'
<1>1. UNCHANGED <<measures, imu_next>>
  BY DEF ImuCallback, measVars, sensorVars
<1>2. imu_taken' = imu_taken \ {t}
  BY DEF ImuCallback
<1>3. ImuAscends'
  BY <1>1 DEF ImuInv, ImuAscends
<1>4. CASE UNCHANGED imuVars
  <2>1. ImuFresh'
    BY <1>1, <1>2, <1>4 DEF ImuInv, ImuFresh, imuVars
  <2>2. BufferAscends' /\ HandedBefore'
    BY <1>1, <1>4 DEF ImuInv, BufferAscends, HandedBefore, imuVars
  <2> QED BY <1>3, <2>1, <2>2 DEF ImuInv
<1>5. CASE ~ImuLoopBack(t) /\ AcceptImu(t)
  <2>1. t \in Nat /\ last_timestamp_imu \in Int
    BY Samples
  <2>2. last_timestamp_imu < t
    BY <1>5, <2>1 DEF ImuLoopBack, ImuInv, ImuFresh
  <2>3. last_timestamp_imu' = t /\ imu_buffer' = Append(imu_buffer, t)
    BY <1>5 DEF AcceptImu
  <2>4. ImuFresh'
    BY <1>1, <1>2, <2>3 DEF ImuInv, ImuFresh
  <2>5. /\ DOMAIN imu_buffer' = 1 .. Len(imu_buffer) + 1
        /\ \A i \in 1 .. Len(imu_buffer) : imu_buffer'[i] = imu_buffer[i]
        /\ imu_buffer'[Len(imu_buffer) + 1] = t
    <3>1. imu_buffer \in Seq(FrameSpan .. LastTime)
      BY DEF Types, SensorTypes
    <3>2. t \in FrameSpan .. LastTime
      BY DEF Types, SensorTypes
    <3> QED BY <2>3, <3>1, <3>2, AppendProperties, LenProperties
  <2>6. \A i \in 1 .. Len(imu_buffer) : imu_buffer[i] < t
    BY <2>1, <2>2, Samples DEF ImuInv, BufferAscends
  <2>7. BufferAscends'
    BY <2>1, <2>3, <2>5, <2>6, Samples DEF ImuInv, BufferAscends
  <2>8. \A k \in DOMAIN measures : \A a \in DOMAIN measures[k].imu : measures[k].imu[a] < t
    BY <2>1, <2>2, Samples DEF ImuInv, HandedBefore
  <2>9. HandedBefore'
    BY <1>1, <2>1, <2>3, <2>5, <2>8, Samples DEF ImuInv, HandedBefore
  <2> QED BY <1>3, <2>4, <2>7, <2>9 DEF ImuInv
<1> QED BY <1>4, <1>5 DEF ImuCallback

LEMMA DrainPreservesImu ==
  ASSUME Types, ImuInv, Drain
  PROVE  ImuInv'
<1> DEFINE n == Taken
           last == Len(measures) + 1
<1> HIDE DEF n
<1>1. UNCHANGED <<imu_taken, imu_next, last_timestamp_imu>>
  BY DEF Drain, takenVars, sensorVars
<1>2. ImuFresh'
  BY <1>1 DEF ImuInv, ImuFresh
<1>4. n \in 0 .. Len(imu_buffer) /\ Stops(n)
  BY Drained DEF n
<1>5. /\ DOMAIN imu_buffer' = 1 .. Len(imu_buffer) - n
      /\ \A i \in 1 .. Len(imu_buffer) - n : imu_buffer'[i] = imu_buffer[n + i]
  BY Drained DEF n
<1>6. /\ DOMAIN measures' = 1 .. last
      /\ \A k \in 1 .. Len(measures) : measures'[k] = measures[k]
      /\ measures'[last].lio_time = lidar_frame_end_time
  BY Drained
<1>7. /\ DOMAIN measures'[last].imu = 1 .. n
      /\ \A a \in 1 .. n : measures'[last].imu[a] = imu_buffer[a]
  BY Drained DEF n
<1>8. BufferAscends'
  <2> SUFFICES ASSUME NEW i \in DOMAIN imu_buffer'
               PROVE  /\ imu_buffer'[i] <= last_timestamp_imu
                      /\ \A j \in DOMAIN imu_buffer' : i < j => imu_buffer'[i] < imu_buffer'[j]
    BY <1>1 DEF BufferAscends
  <2>1. \A j \in DOMAIN imu_buffer' : n + j \in DOMAIN imu_buffer /\ imu_buffer'[j] = imu_buffer[n + j]
    BY <1>4, <1>5, Samples
  <2>2. \A j \in DOMAIN imu_buffer' : i < j => n + i < n + j
    BY <1>4, <1>5, Samples
  <2> QED BY <2>1, <2>2 DEF ImuInv, BufferAscends
<1>9. HandedBefore'
  <2> SUFFICES ASSUME NEW k \in 1 .. last, NEW a \in DOMAIN measures'[k].imu
               PROVE  /\ measures'[k].imu[a] <= last_timestamp_imu
                      /\ \A i \in DOMAIN imu_buffer' : measures'[k].imu[a] < imu_buffer'[i]
    BY <1>1, <1>6 DEF HandedBefore
  <2>1. CASE k \in 1 .. Len(measures)
    <3>1. measures'[k] = measures[k] /\ k \in DOMAIN measures
      BY <1>6, <2>1, Samples
    <3>2. \A i \in DOMAIN imu_buffer' : n + i \in DOMAIN imu_buffer /\ imu_buffer'[i] = imu_buffer[n + i]
      BY <1>4, <1>5, Samples
    <3> QED BY <3>1, <3>2 DEF ImuInv, HandedBefore
  <2>2. CASE k = last
    <3>1. a \in 1 .. n /\ a \in DOMAIN imu_buffer /\ measures'[k].imu[a] = imu_buffer[a]
      BY <1>4, <1>7, <2>2, Samples
    <3>2. \A i \in DOMAIN imu_buffer' :
            n + i \in DOMAIN imu_buffer /\ imu_buffer'[i] = imu_buffer[n + i] /\ a < n + i
      BY <1>4, <1>5, <3>1, Samples
    <3> QED BY <3>1, <3>2 DEF ImuInv, BufferAscends
  <2> QED BY <2>1, <2>2, Samples
<1>10. ImuAscends'
  <2> SUFFICES ASSUME NEW j \in 1 .. last, NEW k \in 1 .. last,
                      NEW a \in DOMAIN measures'[j].imu
               PROVE  /\ measures'[j].imu[a] <= measures'[j].lio_time
                      /\ \A b \in DOMAIN measures'[k].imu :
                           (j < k \/ (j = k /\ a < b)) => measures'[j].imu[a] < measures'[k].imu[b]
    BY <1>6 DEF ImuAscends
  <2>1. CASE j \in 1 .. Len(measures) /\ k \in 1 .. Len(measures)
    BY <1>6, <2>1, Samples DEF ImuInv, ImuAscends
  <2>2. CASE j \in 1 .. Len(measures) /\ k = last
    <3>1. measures'[j].imu[a] <= measures'[j].lio_time
      BY <1>6, <2>2, Samples DEF ImuInv, ImuAscends
    <3>2. \A b \in 1 .. n : measures'[j].imu[a] < imu_buffer[b]
      BY <1>4, <1>6, <2>2, Samples DEF ImuInv, HandedBefore
    <3> QED BY <1>7, <2>2, <3>1, <3>2
  <2>3. CASE j = last
    <3>1. measures'[j].imu[a] <= measures'[j].lio_time
      BY <1>4, <1>6, <1>7, <2>3 DEF Stops
    <3>2. ~(j < k)
      BY <2>3, Samples
    <3>3. \A b \in 1 .. n : a < b => imu_buffer[a] < imu_buffer[b]
      BY <1>4, <1>7, <2>3, Samples DEF ImuInv, BufferAscends
    <3> QED BY <1>7, <2>3, <3>1, <3>2, <3>3
  <2> QED BY <2>1, <2>2, <2>3, Samples
<1> QED BY <1>2, <1>8, <1>9, <1>10 DEF ImuInv

LEMMA InitImu == Init => ImuInv
<1> SUFFICES ASSUME Init PROVE ImuInv
  OBVIOUS
<1>1. ImuFresh
  BY SensorAssumption DEF Init, ImuFresh
<1>2. BufferAscends /\ HandedBefore /\ ImuAscends
  BY DEF Init, BufferAscends, HandedBefore, ImuAscends
<1> QED BY <1>1, <1>2 DEF ImuInv

LEMMA StepImu ==
  ASSUME Types, ImuInv, [Next]_vars
  PROVE  ImuInv'
<1> DEFINE Kept == UNCHANGED <<imu_taken, imu_next, imu_buffer, last_timestamp_imu, measures>>
<1>1. ASSUME Kept PROVE ImuInv'
  <2>1. ImuFresh' /\ BufferAscends'
    BY <1>1 DEF ImuInv, ImuFresh, BufferAscends
  <2>2. HandedBefore' /\ ImuAscends'
    BY <1>1 DEF ImuInv, HandedBefore, ImuAscends
  <2> QED BY <2>1, <2>2 DEF ImuInv
<1> USE DEF sensorVars, takenVars, imuVars, measVars
<1>2. CASE Tick \/ (SensorStep /\ ~TakeImu /\ ~(\E t \in imu_taken : ImuCallback(t)))
  <2>1. Kept
    BY <1>2 DEF SensorStep, Tick, TakeLidar, LidarLock, PushCloud, PushStamp
  <2> QED BY <1>1, <2>1
<1>3. CASE TimerStep /\ ~Drain
  <2>1. Kept
    BY <1>3 DEF TimerStep, TimerFires, ReturnEarly, ResumeFrame, ChooseFrame, ChooseFromEmpty,
         ReadStamp, StampFromEmpty, AwaitImu, DrainEmpty, InitialiseImu, MapFrame, Undefined
  <2> QED BY <1>1, <2>1
<1>4. CASE SaveRequest \/ TimeoutPasses \/ UNCHANGED vars
  <2>1. Kept
    BY <1>4 DEF SaveRequest, TimeoutPasses, vars
  <2> QED BY <1>1, <2>1
<1> QED
  BY <1>2, <1>3, <1>4, TakeImuPreserves, ImuCallbackPreserves, DrainPreservesImu DEF Next

\* However many IMU callbacks overlap and in whatever order they get the mutex, the
\* filter integrates the samples in the order of their times, none twice, and none
\* from after its frame.
THEOREM ImuSafe == Spec => []ImuAscends
<1>1. Types /\ ImuInv /\ [Next]_vars => ImuInv'
  BY StepImu
<1>2. ImuInv => ImuAscends
  BY DEF ImuInv
<1> QED BY <1>1, <1>2, InitTypes, InitImu, StepTypes, PTL DEF Spec

-------------------------------------------------------------------------------
\* No empty cloud gets past the callback.
HasPoints ==
  /\ \A i \in DOMAIN lid_raw_data_buffer : points[lid_raw_data_buffer[i]] # 0
  /\ ~Unlocked => points[lidar_ptr] # 0

\* The stamps in the buffer ascend up to the last one pushed.
BufferedInOrder ==
  \A i \in DOMAIN lid_header_time_buffer :
    /\ lid_header_time_buffer[i] <= last_timestamp_lidar
    /\ \A j \in DOMAIN lid_header_time_buffer :
         i < j => lid_header_time_buffer[i] < lid_header_time_buffer[j]

\* A frame that was taken and is no longer in flight was stamped, or was empty.
NoneSkipped ==
  \A f \in Frames :
    (f < lidar_next /\ f \notin lidar_taken /\ (Unlocked \/ f # lidar_ptr) /\ points[f] # 0) =>
      Beg(f) <= last_timestamp_lidar

\* What was handed over are frames with points, in the order they were scanned, and
\* all of them before what waits.
HandedInOrder ==
  \A k \in DOMAIN measures :
    /\ \E f \in Frames : points[f] # 0 /\ measures[k].lio_time = End(Beg(f))
    /\ measures[k].lio_time <= End(last_timestamp_lidar)
    /\ \A i \in DOMAIN lid_header_time_buffer :
         measures[k].lio_time < End(lid_header_time_buffer[i])
    /\ \A l \in DOMAIN measures : k < l => measures[k].lio_time < measures[l].lio_time

\* A stamped frame waits or was handed over.
NoneLost ==
  \A f \in Frames :
    (points[f] # 0 /\ Beg(f) <= last_timestamp_lidar) =>
      \/ \E i \in DOMAIN lid_header_time_buffer : lid_header_time_buffer[i] = Beg(f)
      \/ \E k \in DOMAIN measures : measures[k].lio_time = End(Beg(f))

\* The map is behind what was handed over.
MapInOrder ==
  /\ map # <<>> => measures # <<>>
  /\ \A i \in DOMAIN map :
       /\ map[i].time <= Group.lio_time
       /\ timer = "process" => map[i].time < Group.lio_time
       /\ \A j \in DOMAIN map : i < j => map[i].time < map[j].time

FrameInv ==
  HasPoints /\ BufferedInOrder /\ NoneSkipped /\ HandedInOrder /\ NoneLost /\ MapInOrder

LEMMA Times ==
  ASSUME Types
  PROVE  /\ last_timestamp_lidar \in Int
         /\ \A t \in Int : End(t) \in Int
         /\ \A t, u \in Int : t < u <=> End(t) < End(u)
         /\ Len(lid_header_time_buffer) \in Nat
         /\ DOMAIN lid_header_time_buffer = 1 .. Len(lid_header_time_buffer)
         /\ \A i \in DOMAIN lid_header_time_buffer : lid_header_time_buffer[i] \in Nat
         /\ Len(measures) \in Nat /\ DOMAIN measures = 1 .. Len(measures)
         /\ \A k \in DOMAIN measures : measures[k].lio_time \in Nat
         /\ Len(map) \in Nat /\ DOMAIN map = 1 .. Len(map)
         /\ \A i \in DOMAIN map : map[i].frame \in Frames /\ map[i].time \in Nat
<1>1. last_timestamp_lidar \in Int
  BY StampsAreNat DEF Types, SensorTypes
<1>2. \A t, u \in Int : End(t) \in Int /\ (t < u <=> End(t) < End(u))
  BY SensorAssumption DEF End
<1>3. lid_header_time_buffer \in Seq(Stamps)
  BY DEF Types, SensorTypes
<1>4. /\ Len(lid_header_time_buffer) \in Nat
      /\ DOMAIN lid_header_time_buffer = 1 .. Len(lid_header_time_buffer)
      /\ \A i \in DOMAIN lid_header_time_buffer : lid_header_time_buffer[i] \in Stamps
  BY <1>3, LenProperties, ElementOfSeq
<1>5. measures \in Seq([imu : Seq(FrameSpan .. LastTime), lio_time : Nat])
  BY DEF Types, TimerTypes
<1>6. /\ Len(measures) \in Nat /\ DOMAIN measures = 1 .. Len(measures)
      /\ \A k \in DOMAIN measures :
           measures[k] \in [imu : Seq(FrameSpan .. LastTime), lio_time : Nat]
  BY <1>5, LenProperties, ElementOfSeq
<1>7. map \in Seq([frame : Frames, time : Nat])
  BY DEF Types, SavingTypes
<1>8. /\ Len(map) \in Nat /\ DOMAIN map = 1 .. Len(map)
      /\ \A i \in DOMAIN map : map[i] \in [frame : Frames, time : Nat]
  BY <1>7, LenProperties, ElementOfSeq
<1>9. \A i \in DOMAIN lid_header_time_buffer : lid_header_time_buffer[i] \in Nat
  BY <1>4, StampsAreNat
<1>10. \A k \in DOMAIN measures : measures[k].lio_time \in Nat
  BY <1>6
<1>11. \A i \in DOMAIN map : map[i].frame \in Frames /\ map[i].time \in Nat
  BY <1>8
<1>12. \A t \in Int : End(t) \in Int
  BY SensorAssumption DEF End
<1> QED BY <1>1, <1>2, <1>4, <1>6, <1>8, <1>9, <1>10, <1>11, <1>12

LEMMA InitFrames == Init => FrameInv
<1> SUFFICES ASSUME Init PROVE FrameInv
  OBVIOUS
<1>1. Unlocked /\ DOMAIN lid_raw_data_buffer = {} /\ DOMAIN lid_header_time_buffer = {}
  BY DEF Init, Unlocked
<1>2. DOMAIN measures = {} /\ DOMAIN map = {} /\ map = <<>>
  BY DEF Init, SavingInit
<1>3. HasPoints /\ BufferedInOrder /\ HandedInOrder /\ MapInOrder
  BY <1>1, <1>2 DEF HasPoints, BufferedInOrder, HandedInOrder, MapInOrder
<1>4. NoneSkipped
  <2>1. lidar_next = 1 /\ \A f \in Frames : ~ (f < 1)
    BY SensorAssumption DEF Init, Frames
  <2> QED BY <2>1 DEF NoneSkipped
<1>5. NoneLost
  <2>1. last_timestamp_lidar = -1 /\ \A f \in Frames : ~ (Beg(f) <= -1)
    BY StampsAscend DEF Init
  <2> QED BY <2>1 DEF NoneLost
<1> QED BY <1>3, <1>4, <1>5 DEF FrameInv

\* Taking a frame and locking change what is in flight, not what was stamped.
LEMMA TakeLidarFrames ==
  ASSUME Types, FrameInv, TakeLidar
  PROVE  FrameInv'
<1> USE DEF cbkVars, lidVars, measVars, mapVars
<1>1. UNCHANGED <<points, lidar_cbk, lidar_ptr, lid_raw_data_buffer, lid_header_time_buffer,
                  last_timestamp_lidar, timer, measures, map>>
  BY DEF TakeLidar
<1>2. HasPoints' /\ BufferedInOrder' /\ HandedInOrder' /\ NoneLost' /\ MapInOrder'
  BY <1>1 DEF FrameInv, HasPoints, BufferedInOrder, HandedInOrder, NoneLost, MapInOrder,
              Unlocked, Group
<1>3. NoneSkipped'
  <2>1. /\ lidar_taken' = lidar_taken \cup {lidar_next}
        /\ lidar_next' = lidar_next + 1
        /\ lidar_next \in Nat
        /\ Frames \subseteq Nat
    BY DEF TakeLidar, Types, SensorTypes, Frames
  <2> QED BY <1>1, <2>1 DEF FrameInv, NoneSkipped, Unlocked
<1> QED BY <1>2, <1>3 DEF FrameInv

LEMMA LidarLockFrames ==
  ASSUME Types, Inv, FrameInv, NEW f \in lidar_taken, LidarLock(f)
  PROVE  FrameInv'
<1> USE DEF sensorVars, lidVars, measVars, mapVars
<1>1. f = lidar_next - 1 /\ f \in Frames /\ lidar_taken = {f}
  BY DEF Inv, OneInFlight, Types, SensorTypes
<1>2. last_timestamp_lidar < Beg(f) /\ Beg(f) \in Int /\ last_timestamp_lidar \in Int
  BY <1>1, StampsAscend, StampsAreNat DEF Inv, InOrder, Types, SensorTypes
<1>3. UNCHANGED lid_raw_data_buffer
  BY <1>2 DEF LidarLock, LoopBack
<1>4. /\ UNCHANGED <<points, lidar_next, lid_header_time_buffer, last_timestamp_lidar, timer,
                     measures, map>>
      /\ lidar_taken' = {} /\ Unlocked
  BY <1>1 DEF LidarLock
<1>5. /\ points[f] = 0 => Unlocked'
      /\ points[f] # 0 => ~Unlocked' /\ lidar_ptr' = f
  BY <1>4 DEF LidarLock, Rejected, Unlocked, cbkVars
<1>6. BufferedInOrder' /\ HandedInOrder' /\ NoneLost' /\ MapInOrder'
  BY <1>4 DEF FrameInv, BufferedInOrder, HandedInOrder, NoneLost, MapInOrder, Group
<1>7. HasPoints'
  BY <1>3, <1>4, <1>5 DEF FrameInv, HasPoints
<1>8. NoneSkipped'
  <2> SUFFICES ASSUME NEW g \in Frames, g < lidar_next, Unlocked' \/ g # lidar_ptr',
                      points[g] # 0
               PROVE  Beg(g) <= last_timestamp_lidar
    BY <1>4 DEF NoneSkipped
  <2>1. g # f
    BY <1>5
  <2> QED BY <1>1, <1>4, <2>1 DEF FrameInv, NoneSkipped
<1> QED BY <1>6, <1>7, <1>8 DEF FrameInv

LEMMA PushCloudFrames ==
  ASSUME Types, FrameInv, PushCloud
  PROVE  FrameInv'
<1> USE DEF sensorVars, takenVars, measVars, mapVars
<1>1. UNCHANGED <<points, lidar_next, lidar_taken, lidar_ptr, lid_header_time_buffer,
                  last_timestamp_lidar, timer, measures, map>>
  BY DEF PushCloud
<1>2. ~Unlocked /\ ~Unlocked'
  BY DEF PushCloud, Unlocked
<1>3. lid_raw_data_buffer \in Seq(Frames) /\ lidar_ptr \in Frames
  BY <1>2 DEF Types, SensorTypes
<1>4. /\ DOMAIN lid_raw_data_buffer = 1 .. Len(lid_raw_data_buffer)
      /\ DOMAIN lid_raw_data_buffer' = 1 .. Len(lid_raw_data_buffer) + 1
      /\ \A i \in 1 .. Len(lid_raw_data_buffer) : lid_raw_data_buffer'[i] = lid_raw_data_buffer[i]
      /\ lid_raw_data_buffer'[Len(lid_raw_data_buffer) + 1] = lidar_ptr
      /\ Len(lid_raw_data_buffer) \in Nat
  BY <1>3, AppendProperties, LenProperties DEF PushCloud
<1>5. HasPoints'
  <2>1. points[lidar_ptr] # 0
    BY <1>2 DEF FrameInv, HasPoints
  <2>2. \A i \in 1 .. Len(lid_raw_data_buffer) : points[lid_raw_data_buffer[i]] # 0
    BY <1>4 DEF FrameInv, HasPoints
  <2>3. \A i \in DOMAIN lid_raw_data_buffer' : points[lid_raw_data_buffer'[i]] # 0
    BY <1>4, <2>1, <2>2
  <2> QED BY <1>1, <2>1, <2>3 DEF HasPoints
<1>6. BufferedInOrder' /\ HandedInOrder' /\ NoneLost' /\ MapInOrder'
  BY <1>1 DEF FrameInv, BufferedInOrder, HandedInOrder, NoneLost, MapInOrder, Group
<1>7. NoneSkipped'
  BY <1>1, <1>2 DEF FrameInv, NoneSkipped
<1> QED BY <1>5, <1>6, <1>7 DEF FrameInv

\* A stamp goes behind the others: the frames in between were empty.
LEMMA PushStampFrames ==
  ASSUME Types, Inv, FrameInv, PushStamp
  PROVE  FrameInv'
<1> DEFINE hdr == lid_header_time_buffer
           n == Len(hdr)
           t == Beg(lidar_ptr)
<1> USE DEF sensorVars, takenVars, measVars, mapVars
<1>1. UNCHANGED <<points, lidar_next, lidar_taken, lid_raw_data_buffer, timer, measures, map>>
  BY DEF PushStamp
<1>2. lidar_ptr \in Frames /\ lidar_ptr = lidar_next - 1 /\ ~Unlocked /\ Unlocked'
  BY DEF PushStamp, Types, SensorTypes, Unlocked, Inv, OneInFlight
<1>3. t \in Stamps /\ t \in Nat /\ last_timestamp_lidar < t /\ last_timestamp_lidar' = t
  BY <1>2, StampsAreNat DEF PushStamp, Inv, InOrder
<1>4. /\ n \in Nat /\ DOMAIN hdr = 1 .. n /\ DOMAIN hdr' = 1 .. n + 1
      /\ \A i \in 1 .. n : hdr'[i] = hdr[i]
      /\ hdr'[n + 1] = t
  <2>1. hdr \in Seq(Stamps) /\ hdr' = Append(hdr, t)
    BY DEF Types, SensorTypes, PushStamp
  <2> QED BY <1>3, <2>1, AppendProperties, LenProperties
<1> HIDE DEF hdr, n, t
<1>5. HasPoints'
  BY <1>1, <1>2 DEF FrameInv, HasPoints
<1>6. MapInOrder'
  BY <1>1 DEF FrameInv, MapInOrder, Group
<1>7. \A i \in 1 .. n : hdr[i] \in Nat /\ hdr[i] <= last_timestamp_lidar /\ hdr[i] < t
  <2>1. \A i \in 1 .. n : hdr[i] \in Nat /\ hdr[i] <= last_timestamp_lidar
    BY <1>4, Times DEF FrameInv, BufferedInOrder, hdr
  <2>2. last_timestamp_lidar \in Int /\ last_timestamp_lidar < t /\ t \in Nat
    BY <1>3, Times
  <2>3. \A m \in Nat : m <= last_timestamp_lidar => m < t
    BY <2>2
  <2> QED BY <2>1, <2>3
<1>8. BufferedInOrder'
  <2> SUFFICES ASSUME NEW i \in 1 .. n + 1
               PROVE  hdr'[i] <= t /\ \A j \in 1 .. n + 1 : i < j => hdr'[i] < hdr'[j]
    BY <1>3, <1>4 DEF BufferedInOrder, hdr
  <2>1. CASE i = n + 1
    BY <1>3, <1>4, <2>1
  <2>2. CASE i \in 1 .. n
    <3>1. hdr'[i] < t
      BY <1>4, <1>7, <2>2
    <3>2. \A j \in 1 .. n : i < j => hdr'[i] < hdr'[j]
      BY <1>4, <2>2 DEF FrameInv, BufferedInOrder, hdr
    <3> QED BY <1>3, <1>4, <1>7, <2>2, <3>1, <3>2
  <2> QED BY <1>4, <2>1, <2>2
<1>9. NoneSkipped'
  <2> SUFFICES ASSUME NEW g \in Frames, g < lidar_next
               PROVE  Beg(g) <= t
    BY <1>1, <1>3 DEF NoneSkipped
  <2>1. g < lidar_ptr \/ g = lidar_ptr
    BY <1>2 DEF Types, SensorTypes, Frames
  <2> QED BY <1>2, <1>3, <2>1, StampsAscend DEF t
<1>10. HandedInOrder'
  <2>1. End(last_timestamp_lidar) < End(t) /\ End(last_timestamp_lidar) \in Int /\ End(t) \in Int
    BY <1>3, Times
  <2>2. \A k \in DOMAIN measures : measures[k].lio_time < End(t)
    <3>1. \A m \in Nat : m <= End(last_timestamp_lidar) => m < End(t)
      BY <2>1
    <3>2. \A k \in DOMAIN measures :
            measures[k].lio_time \in Nat /\ measures[k].lio_time <= End(last_timestamp_lidar)
      BY Times DEF FrameInv, HandedInOrder
    <3> QED BY <3>1, <3>2
  <2>3. \A k \in DOMAIN measures : \A i \in 1 .. n : measures[k].lio_time < End(hdr[i])
    BY <1>4 DEF FrameInv, HandedInOrder, hdr
  <2>4. \A k \in DOMAIN measures : \A i \in DOMAIN hdr' : measures[k].lio_time < End(hdr'[i])
    BY <1>4, <2>2, <2>3
  <2>5. \A k \in DOMAIN measures : measures[k].lio_time <= End(t)
    <3>1. \A m \in Nat : m < End(t) => m <= End(t)
      BY <2>1
    <3>2. \A k \in DOMAIN measures : measures[k].lio_time \in Nat
      BY Times
    <3> QED BY <2>2, <3>1, <3>2
  <2> QED BY <1>1, <1>3, <2>4, <2>5 DEF FrameInv, HandedInOrder, hdr
<1>11. NoneLost'
  <2> SUFFICES ASSUME NEW g \in Frames, points[g] # 0, Beg(g) <= t
               PROVE  \/ \E i \in DOMAIN hdr' : hdr'[i] = Beg(g)
                      \/ \E k \in DOMAIN measures : measures[k].lio_time = End(Beg(g))
    BY <1>1, <1>3 DEF NoneLost, hdr
  <2>1. CASE g = lidar_ptr
    BY <1>4, <2>1 DEF t
  <2>2. CASE g # lidar_ptr
    <3>1. g < lidar_ptr
      BY <1>2, <2>2, StampsAscend DEF Frames, t
    <3>2. g < lidar_next /\ g \notin lidar_taken
      BY <1>2, <3>1 DEF Inv, OneInFlight, Frames, Types, SensorTypes
    <3>3. Beg(g) <= last_timestamp_lidar
      BY <2>2, <3>2 DEF FrameInv, NoneSkipped
    <3>4. \/ \E i \in 1 .. n : hdr[i] = Beg(g)
          \/ \E k \in DOMAIN measures : measures[k].lio_time = End(Beg(g))
      BY <1>4, <3>3 DEF FrameInv, NoneLost, hdr
    <3> QED BY <1>4, <3>4
  <2> QED BY <2>1, <2>2
<1> QED BY <1>5, <1>6, <1>8, <1>9, <1>10, <1>11 DEF FrameInv

\* The frame at the head goes over to the filter.
LEMMA DrainFrames ==
  ASSUME Types, Inv, FrameInv, Drain
  PROVE  FrameInv'
<1> DEFINE hdr == lid_header_time_buffer
           raw == lid_raw_data_buffer
           n == Len(hdr)
           m == Len(measures)
           new == lidar_frame_end_time
<1> USE DEF sensorVars, takenVars, cbkVars, filterVars
<1>1. UNCHANGED <<points, lidar_next, lidar_taken, lidar_cbk, lidar_ptr, last_timestamp_lidar, map>>
  BY DEF Drain
<1>2. raw \in Seq(Frames) /\ raw # <<>> /\ hdr \in Seq(Stamps) /\ hdr # <<>>
  BY DEF Drain, Types, SensorTypes
<1>3. /\ n \in Nat \ {0} /\ Head(hdr) = hdr[1]
      /\ DOMAIN hdr = 1 .. n /\ DOMAIN hdr' = 1 .. n - 1
      /\ \A i \in 1 .. n - 1 : hdr'[i] = hdr[i + 1]
  <2>1. hdr' = Tail(hdr)
    BY DEF Drain, PoppedStamps
  <2> QED BY <1>2, <2>1, HeadTailProperties, HeadIsFirst, LenProperties
<1>4. /\ Len(raw) \in Nat \ {0} /\ Head(raw) = raw[1]
      /\ DOMAIN raw = 1 .. Len(raw) /\ DOMAIN raw' = 1 .. Len(raw) - 1
      /\ \A i \in 1 .. Len(raw) - 1 : raw'[i] = raw[i + 1]
  <2>1. raw' = Tail(raw)
    BY DEF Drain, PoppedClouds
  <2> QED BY <1>2, <2>1, HeadTailProperties, HeadIsFirst, LenProperties
<1>5. /\ m \in Nat /\ DOMAIN measures = 1 .. m /\ DOMAIN measures' = 1 .. m + 1
      /\ Len(measures') = m + 1
      /\ \A k \in 1 .. m : measures'[k] = measures[k]
      /\ measures'[m + 1].lio_time = new
  BY Drained, Times
<1>6. lidar = raw[1] /\ Beg(lidar) = hdr[1] /\ new = End(hdr[1]) /\ lidar \in Frames
  <2>1. lidar_pushed /\ lidar \in Frames
    BY DEF Drain, Inv, Choice, Types, TimerTypes
  <2> QED BY <1>3, <1>4, <2>1 DEF Inv, PopsWhatItChose, lidar_frame_end_time
<1>7. /\ last_timestamp_lidar \in Int /\ \A t \in Int : End(t) \in Int
      /\ \A t, u \in Int : t < u <=> End(t) < End(u)
      /\ \A i \in 1 .. n : hdr[i] \in Nat
      /\ \A k \in 1 .. m : measures[k].lio_time \in Nat
  BY <1>3, <1>5, Times
<1>8. new \in Int
  BY <1>3, <1>6, <1>7
<1> HIDE DEF hdr, raw, n, m, new
<1>9. HasPoints'
  <2>1. \A i \in 1 .. Len(raw) - 1 : i + 1 \in DOMAIN raw
    BY <1>4
  <2>2. \A i \in DOMAIN raw' : points[raw'[i]] # 0
    BY <1>4, <2>1 DEF FrameInv, HasPoints, raw
  <2> QED BY <1>1, <2>2 DEF FrameInv, HasPoints, raw, Unlocked
<1>10. NoneSkipped'
  BY <1>1 DEF FrameInv, NoneSkipped, Unlocked
<1>11. BufferedInOrder'
  <2>1. \A i \in 1 .. n - 1 : i + 1 \in 1 .. n
    BY <1>3
  <2>2. \A i, j \in 1 .. n - 1 : i < j => i + 1 < j + 1
    BY <1>3
  <2> QED BY <1>1, <1>3, <2>1, <2>2 DEF FrameInv, BufferedInOrder, hdr
<1>12. \A k \in 1 .. m : measures[k].lio_time < new
  BY <1>3, <1>5, <1>6 DEF FrameInv, HandedInOrder, hdr
<1>13. \A i \in 1 .. n - 1 : new < End(hdr'[i])
  <2>1. \A i \in 1 .. n - 1 : i + 1 \in 1 .. n /\ 1 \in 1 .. n /\ 1 < i + 1
    BY <1>3
  <2>2. \A i \in 1 .. n - 1 : hdr[1] < hdr'[i] /\ hdr[1] \in Int /\ hdr'[i] \in Int
    <3>1. \A i, j \in 1 .. n : i < j => hdr[i] < hdr[j]
      BY <1>3 DEF FrameInv, BufferedInOrder, hdr
    <3>2. \A i \in 1 .. n - 1 : hdr[1] < hdr[i + 1]
      BY <2>1, <3>1
    <3>3. \A i \in 1 .. n - 1 : hdr'[i] = hdr[i + 1]
      BY <1>3
    <3>4. \A i \in 1 .. n - 1 : hdr[1] \in Int /\ hdr[i + 1] \in Int
      BY <1>7, <2>1
    <3> QED BY <3>2, <3>3, <3>4
  <2> QED BY <1>6, <1>7, <2>2
<1>14. HandedInOrder'
  <2>1. \A k \in 1 .. m : \E f \in Frames : points[f] # 0 /\ measures[k].lio_time = End(Beg(f))
    BY <1>5 DEF FrameInv, HandedInOrder
  <2>2. points[lidar] # 0 /\ new = End(Beg(lidar))
    BY <1>4, <1>6 DEF FrameInv, HasPoints, raw
  <2>3. \A k \in 1 .. m + 1 :
          \E f \in Frames : points[f] # 0 /\ measures'[k].lio_time = End(Beg(f))
    <3> TAKE k \in 1 .. m + 1
    <3>1. k \in 1 .. m \/ k = m + 1
      BY <1>5
    <3> QED BY <1>5, <1>6, <2>1, <2>2, <3>1
  <2>4. \A k \in 1 .. m + 1 : measures'[k].lio_time <= End(last_timestamp_lidar)
    <3>1. new <= End(last_timestamp_lidar)
      <4>1. hdr[1] <= last_timestamp_lidar /\ hdr[1] \in Int
        <5>1. 1 \in 1 .. n
          BY <1>3
        <5>2. hdr[1] \in Int
          BY ONLY <1>7, <5>1
        <5>3. \A i \in DOMAIN hdr : hdr[i] <= last_timestamp_lidar
          BY ONLY FrameInv DEF FrameInv, BufferedInOrder, hdr
        <5>4. hdr[1] <= last_timestamp_lidar
          BY ONLY <1>3, <5>1, <5>3
        <5> QED BY <5>2, <5>4
      <4>2. ~ (last_timestamp_lidar < hdr[1])
        BY <1>7, <4>1
      <4> QED BY <1>6, <1>7, <4>1, <4>2
    <3>2. \A k \in 1 .. m : measures[k].lio_time <= End(last_timestamp_lidar)
      BY <1>5 DEF FrameInv, HandedInOrder
    <3> QED BY <1>5, <3>1, <3>2
  <2>5. \A k \in 1 .. m + 1 : \A i \in 1 .. n - 1 : measures'[k].lio_time < End(hdr'[i])
    <3>1. \A k \in 1 .. m : \A i \in 1 .. n : measures[k].lio_time < End(hdr[i])
      BY <1>3, <1>5 DEF FrameInv, HandedInOrder, hdr
    <3>2. \A i \in 1 .. n - 1 : i + 1 \in 1 .. n
      BY <1>3
    <3>3. \A k \in 1 .. m : \A i \in 1 .. n - 1 : measures'[k].lio_time < End(hdr'[i])
      BY <1>3, <1>5, <3>1, <3>2
    <3>4. \A k \in 1 .. m + 1 : k \in 1 .. m \/ k = m + 1
      BY <1>5
    <3> QED BY <1>5, <1>13, <3>3, <3>4
  <2>6. \A k, l \in 1 .. m + 1 : k < l => measures'[k].lio_time < measures'[l].lio_time
    <3> SUFFICES ASSUME NEW k \in 1 .. m + 1, NEW l \in 1 .. m + 1, k < l
                 PROVE  measures'[k].lio_time < measures'[l].lio_time
      OBVIOUS
    <3>1. k \in 1 .. m /\ (l \in 1 .. m \/ l = m + 1)
      BY <1>5
    <3>2. l \in 1 .. m => measures[k].lio_time < measures[l].lio_time
      BY <1>5, <3>1 DEF FrameInv, HandedInOrder
    <3> QED BY <1>5, <1>12, <3>1, <3>2
  <2>7. \A k \in DOMAIN measures' :
          /\ \E f \in Frames : points[f] # 0 /\ measures'[k].lio_time = End(Beg(f))
          /\ measures'[k].lio_time <= End(last_timestamp_lidar)
          /\ \A i \in DOMAIN hdr' : measures'[k].lio_time < End(hdr'[i])
          /\ \A l \in DOMAIN measures' : k < l => measures'[k].lio_time < measures'[l].lio_time
    BY <1>3, <1>5, <2>3, <2>4, <2>5, <2>6
  <2> QED BY <1>1, <2>7 DEF HandedInOrder, hdr
<1>15. NoneLost'
  <2> SUFFICES ASSUME NEW f \in Frames, points[f] # 0, Beg(f) <= last_timestamp_lidar
               PROVE  \/ \E i \in DOMAIN hdr' : hdr'[i] = Beg(f)
                      \/ \E k \in DOMAIN measures' : measures'[k].lio_time = End(Beg(f))
    BY <1>1 DEF NoneLost, hdr
  <2>1. CASE \E k \in DOMAIN measures : measures[k].lio_time = End(Beg(f))
    <3>1. PICK k \in 1 .. m : measures[k].lio_time = End(Beg(f))
      BY <1>5, <2>1
    <3>2. k \in 1 .. m + 1 /\ measures'[k].lio_time = End(Beg(f))
      BY <1>5, <3>1
    <3> QED BY <1>5, <3>2
  <2>2. CASE \E i \in DOMAIN hdr : hdr[i] = Beg(f)
    <3>1. PICK i \in 1 .. n : hdr[i] = Beg(f)
      BY <1>3, <2>2
    <3>2. CASE i = 1
      <4>1. m + 1 \in 1 .. m + 1 /\ measures'[m + 1].lio_time = End(Beg(f))
        BY <1>5, <1>6, <3>1, <3>2
      <4> QED BY <1>5, <4>1
    <3>3. CASE i # 1
      <4>1. i - 1 \in 1 .. n - 1 /\ (i - 1) + 1 = i
        BY <1>3, <3>3
      <4>2. hdr'[i - 1] = Beg(f)
        BY <1>3, <3>1, <4>1
      <4> QED BY <1>3, <4>1, <4>2
    <3> QED BY <3>2, <3>3
  <2> QED BY <2>1, <2>2 DEF FrameInv, NoneLost, hdr
<1>16. MapInOrder'
  <2>1. Group' = measures'[m + 1] /\ measures' # <<>>
    BY <1>5, EmptySeq DEF Group
  <2>2. \A i \in DOMAIN map : map[i].time < new /\ map[i].time \in Nat
    <3> SUFFICES ASSUME NEW i \in DOMAIN map
                 PROVE  map[i].time < new /\ map[i].time \in Nat
      OBVIOUS
    <3>1. map # <<>>
      OBVIOUS
    <3>2. m \in 1 .. m
      <4>1. measures # <<>>
        BY <3>1 DEF FrameInv, MapInOrder
      <4>2. measures \in Seq([imu : Seq(FrameSpan .. LastTime), lio_time : Nat])
        BY DEF Types, TimerTypes
      <4> QED BY <4>1, <4>2, <1>5, EmptySeq DEF m
    <3>3. map[i].time <= measures[m].lio_time /\ map[i].time \in Nat
      BY Times DEF FrameInv, MapInOrder, Group, m
    <3> QED BY <1>7, <1>8, <1>12, <3>2, <3>3
  <2>3. \A i \in DOMAIN map : map[i].time <= new
    BY <1>8, <2>2
  <2> QED BY <1>1, <1>5, <2>1, <2>2, <2>3 DEF FrameInv, MapInOrder
<1> QED BY <1>9, <1>10, <1>11, <1>14, <1>15, <1>16 DEF FrameInv

LEMMA MapFrameFrames ==
  ASSUME Types, FrameInv, MapFrame
  PROVE  FrameInv'
<1> DEFINE n == Len(map)
           entry == [frame |-> lidar, time |-> Group.lio_time]
<1> USE DEF sensorVars, takenVars, cbkVars, lidVars, measVars
<1>1. /\ UNCHANGED <<points, lidar_next, lidar_taken, lidar_cbk, lidar_ptr, lid_raw_data_buffer,
                     lid_header_time_buffer, last_timestamp_lidar, measures>>
      /\ timer = "process" /\ timer' = "idle"
  BY DEF MapFrame
<1>2. HasPoints' /\ BufferedInOrder' /\ NoneSkipped' /\ HandedInOrder' /\ NoneLost'
  BY <1>1 DEF FrameInv, HasPoints, BufferedInOrder, NoneSkipped, HandedInOrder, NoneLost, Unlocked
<1>3. /\ n \in Nat /\ DOMAIN map = 1 .. n /\ DOMAIN map' = 1 .. n + 1
      /\ \A i \in 1 .. n : map'[i] = map[i]
      /\ map'[n + 1] = entry
  <2>1. map' = Append(map, entry)
    BY DEF MapFrame
  <2>2. map \in Seq([frame : Frames, time : Nat])
    BY DEF Types, SavingTypes
  <2> QED BY <2>1, <2>2, LenProperties
<1>4. measures # <<>> /\ Group.lio_time \in Nat
  <2>1. measures # <<>> /\ measures \in Seq([imu : Seq(FrameSpan .. LastTime), lio_time : Nat])
    BY <1>1 DEF Types, TimerTypes
  <2>2. Len(measures) \in DOMAIN measures
    BY <2>1, EmptySeq
  <2> QED BY <2>1, <2>2, Times DEF Group
<1>5. Group' = Group
  BY <1>1 DEF Group
<1>6. \A i \in 1 .. n : map[i].time < Group.lio_time /\ map[i].time <= Group.lio_time
  BY <1>1, <1>3 DEF FrameInv, MapInOrder
<1> HIDE DEF n
<1>7. MapInOrder'
  <2> SUFFICES ASSUME NEW i \in 1 .. n + 1
               PROVE  /\ map'[i].time <= Group.lio_time
                      /\ \A j \in 1 .. n + 1 : i < j => map'[i].time < map'[j].time
    BY <1>1, <1>3, <1>4, <1>5 DEF MapInOrder
  <2>1. map'[n + 1].time = Group.lio_time
    BY <1>3
  <2>2. CASE i = n + 1
    BY <1>3, <1>4, <2>1, <2>2
  <2>3. CASE i \in 1 .. n
    <3>1. \A j \in 1 .. n : i < j => map'[i].time < map'[j].time
      BY <1>3, <2>3 DEF FrameInv, MapInOrder
    <3>2. \A j \in 1 .. n + 1 : j \in 1 .. n \/ j = n + 1
      BY <1>3
    <3> QED BY <1>3, <1>6, <2>1, <2>3, <3>1, <3>2
  <2> QED BY <1>3, <2>2, <2>3
<1> QED BY <1>2, <1>7 DEF FrameInv

\* What the timer does before it drains, and what the others do, changes no frame.
LEMMA OthersFrames ==
  ASSUME FrameInv,
         \/ UNCHANGED vars
         \/ Tick
         \/ TakeImu
         \/ \E t \in imu_taken : ImuCallback(t)
         \/ TimerFires
         \/ ReturnEarly
         \/ ResumeFrame \/ ChooseFrame \/ ReadStamp
         \/ ChooseFromEmpty \/ StampFromEmpty \/ DrainEmpty
         \/ AwaitImu
         \/ InitialiseImu
         \/ SaveRequest
         \/ TimeoutPasses
  PROVE  FrameInv'
<1> USE DEF sensorVars, takenVars, cbkVars, lidVars, imuVars, measVars, filterVars, mapVars
<1>1. /\ UNCHANGED <<points, lidar_next, lidar_taken, lidar_cbk, lidar_ptr, lid_raw_data_buffer,
                     lid_header_time_buffer, last_timestamp_lidar, measures, map>>
      /\ timer' = timer \/ timer' # "process"
  BY DEF vars, Tick, TakeImu, ImuCallback, TimerFires, AutoSave, ReturnEarly, ResumeFrame,
         ChooseFrame, ReadStamp, ChooseFromEmpty, StampFromEmpty, DrainEmpty, Undefined, AwaitImu,
         InitialiseImu, SaveRequest, SaveMap, TimeoutPasses, Silence
<1>2. HasPoints' /\ BufferedInOrder' /\ NoneSkipped' /\ HandedInOrder' /\ NoneLost'
  BY <1>1 DEF FrameInv, HasPoints, BufferedInOrder, NoneSkipped, HandedInOrder, NoneLost, Unlocked
<1>3. MapInOrder'
  BY <1>1 DEF FrameInv, MapInOrder, Group
<1> QED BY <1>2, <1>3 DEF FrameInv

LEMMA StepFrames == Types /\ Inv /\ FrameInv /\ [Next]_vars => FrameInv'
<1> SUFFICES ASSUME Types, Inv, FrameInv, [Next]_vars PROVE FrameInv'
  OBVIOUS
<1>1. CASE SensorStep
  BY <1>1, TakeLidarFrames, LidarLockFrames, PushCloudFrames, PushStampFrames, OthersFrames
  DEF SensorStep
<1>2. CASE TimerStep
  BY <1>2, DrainFrames, MapFrameFrames, OthersFrames DEF TimerStep
<1>3. CASE Tick \/ SaveRequest \/ TimeoutPasses \/ UNCHANGED vars
  BY <1>3, OthersFrames
<1> QED BY <1>1, <1>2, <1>3 DEF Next

\* The invariant leaves a frame one place to be.
LEMMA OncePlaced ==
  ASSUME Types, Inv, FrameInv
  PROVE  EachFrameOnce
<1>1. ASSUME NEW f \in Frames
      PROVE  Cardinality(HandedOver(f)) =
               IF points[f] = 0 \/ Beg(f) > last_timestamp_lidar
                 \/ Beg(f) \in Range(lid_header_time_buffer)
               THEN 0 ELSE 1
  <2> DEFINE late == \/ points[f] = 0
                     \/ Beg(f) > last_timestamp_lidar
                     \/ Beg(f) \in Range(lid_header_time_buffer)
  <2>1. Beg(f) \in Int /\ last_timestamp_lidar \in Int
    BY Times, StampsAscend
  <2>2. ASSUME late, NEW k \in DOMAIN measures, measures[k].lio_time = End(Beg(f))
        PROVE  FALSE
    <3>1. PICK g \in Frames : points[g] # 0 /\ measures[k].lio_time = End(Beg(g))
      BY DEF FrameInv, HandedInOrder
    <3>2. Beg(g) \in Int
      BY StampsAscend
    <3>3. Beg(g) = Beg(f)
      BY <2>1, <2>2, <3>1, <3>2, SensorAssumption DEF End
    <3>4. g = f
      <4>1. ~ (g < f) /\ ~ (f < g)
        BY <2>1, <3>3, StampsAscend
      <4> QED BY <4>1 DEF Frames
    <3>5. ~ (Beg(f) > last_timestamp_lidar)
      <4>1. End(Beg(f)) <= End(last_timestamp_lidar)
        BY <2>2 DEF FrameInv, HandedInOrder
      <4> QED BY <2>1, <4>1, SensorAssumption DEF End
    <3>6. Beg(f) \notin Range(lid_header_time_buffer)
      <4> SUFFICES ASSUME NEW i \in DOMAIN lid_header_time_buffer,
                          lid_header_time_buffer[i] = Beg(f)
                   PROVE  FALSE
        BY DEF Range
      <4>1. End(Beg(f)) < End(Beg(f))
        BY <2>2 DEF FrameInv, HandedInOrder
      <4> QED BY <2>1, <4>1, SensorAssumption DEF End
    <3> QED BY <2>2, <3>1, <3>4, <3>5, <3>6
  <2>3. CASE late
    <3>1. HandedOver(f) = {}
      BY <2>2, <2>3 DEF HandedOver
    <3> QED BY <2>3, <3>1, FS_EmptySet
  <2>4. CASE ~late
    <3>1. \E k \in DOMAIN measures : measures[k].lio_time = End(Beg(f))
      <4>1. Beg(f) <= last_timestamp_lidar
        BY <2>1, <2>4
      <4>2. ~ \E i \in DOMAIN lid_header_time_buffer : lid_header_time_buffer[i] = Beg(f)
        BY <2>4 DEF Range
      <4> QED BY <2>4, <4>1, <4>2 DEF FrameInv, NoneLost
    <3>2. PICK k \in DOMAIN measures : measures[k].lio_time = End(Beg(f))
      BY <3>1
    <3>3. ASSUME NEW l \in DOMAIN measures, measures[l].lio_time = End(Beg(f))
          PROVE  l = k
      <4>1. ~ (k < l) /\ ~ (l < k)
        <5>1. End(Beg(f)) \in Int
          BY <2>1, Times
        <5> QED BY <3>2, <3>3, <5>1 DEF FrameInv, HandedInOrder
      <4>2. k \in Nat /\ l \in Nat
        <5>1. \A j \in DOMAIN measures : j \in Nat
          BY Times
        <5> QED BY <5>1
      <4> QED BY <4>1, <4>2
    <3>4. HandedOver(f) = {k}
      BY <3>2, <3>3 DEF HandedOver
    <3> QED BY <2>4, <3>4, FS_Singleton
  <2> QED BY <2>3, <2>4
<1>2. \A i, j \in DOMAIN map : i < j => map[i].frame < map[j].frame
  <2> SUFFICES ASSUME NEW i \in DOMAIN map, NEW j \in DOMAIN map, i < j
               PROVE  map[i].frame < map[j].frame
    OBVIOUS
  <2>1. map[i].frame \in Frames /\ map[j].frame \in Frames
    BY Times
  <2>2. End(Beg(map[i].frame)) < End(Beg(map[j].frame))
    BY DEF FrameInv, MapInOrder, Inv, FrameKeepsItsStamp
  <2>3. Beg(map[i].frame) < Beg(map[j].frame)
    BY <2>1, <2>2, StampsAscend, SensorAssumption DEF End
  <2>4. ~ (map[j].frame < map[i].frame) /\ map[i].frame # map[j].frame
    BY <2>1, <2>3, StampsAscend
  <2> QED BY <2>1, <2>4 DEF Frames
<1> QED BY <1>1, <1>2 DEF EachFrameOnce

\* While lidar callbacks do not overlap, no frame with points is lost between the
\* callback and the filter or used twice, and the map takes the frames in the order
\* they were scanned, for any number of frames and any clouds.
THEOREM FramesSafe ==
  ASSUME MaxInFlight = 1
  PROVE  Spec => []EachFrameOnce
<1>1. Init => Types /\ Inv /\ FrameInv
  BY InitTypes, InitInv, InitFrames
<1>2. Types /\ Inv /\ FrameInv /\ [Next]_vars => (Types /\ Inv /\ FrameInv)'
  BY StepTypes, StepInv, StepFrames
<1>3. Types /\ Inv /\ FrameInv => EachFrameOnce
  BY OncePlaced
<1> QED BY <1>1, <1>2, <1>3, PTL DEF Spec

-------------------------------------------------------------------------------
\* Callbacks run one at a time, and every sample is accepted once one was.
OneSample ==
  /\ imu_taken \subseteq {imu_next - 1}
  /\ last_timestamp_imu # -1 =>
       /\ ~BeforeLidar
       /\ last_timestamp_imu = IF imu_taken = {} THEN imu_next - 1 ELSE imu_next - 2

\* What is buffered are the last samples accepted.
NoGap ==
  /\ last_timestamp_imu = -1 => imu_buffer = <<>>
  /\ \A i \in DOMAIN imu_buffer : imu_buffer[i] = last_timestamp_imu - Len(imu_buffer) + i

\* Once a frame has taken samples, the buffer goes on where the last frame ended.
BufferFollows ==
  (\E j \in DOMAIN measures : measures[j].imu # <<>>) =>
    /\ last_timestamp_imu # -1
    /\ last_timestamp_imu - Len(imu_buffer) = Group.lio_time

CoverInv == OneSample /\ NoGap /\ BufferFollows /\ ImuCoversFrame

\* Alone in flight: a sample is taken when no other is.
LEMMA SampleAlone ==
  ASSUME Types, MaxInFlight = 1, TakeImu
  PROVE  imu_taken = {}
<1>1. IsFiniteSet(imu_taken)
  <2>1. IsFiniteSet(FrameSpan .. LastTime)
    BY LastTimeIsNat, FS_Interval
  <2> QED BY <2>1, FS_Subset DEF Types, SensorTypes
<1>2. Cardinality(imu_taken) \in Nat /\ Cardinality(imu_taken) < 1
  BY <1>1, FS_CardinalityType DEF TakeImu
<1> QED BY <1>1, <1>2, FS_EmptySet

LEMMA TakeImuCovers ==
  ASSUME Types, CoverInv, MaxInFlight = 1, TakeImu
  PROVE  CoverInv'
<1>1. imu_taken = {}
  BY SampleAlone
<1>2. /\ UNCHANGED <<imu_buffer, last_timestamp_imu, last_timestamp_lidar, measures>>
      /\ imu_taken' = {imu_next} /\ imu_next' = imu_next + 1 /\ imu_next \in Nat
  BY <1>1, LastTimeIsNat DEF TakeImu, imuVars, lidVars, measVars, Types, SensorTypes
<1>3. OneSample'
  BY <1>1, <1>2 DEF CoverInv, OneSample, BeforeLidar
<1>4. NoGap' /\ BufferFollows' /\ ImuCoversFrame'
  BY <1>2 DEF CoverInv, NoGap, BufferFollows, ImuCoversFrame, Group
<1> QED BY <1>3, <1>4 DEF CoverInv

\* The sample accepted is the one after the last.
LEMMA ImuCallbackCovers ==
  ASSUME Types, CoverInv, ImuInv, NEW t \in imu_taken, ImuCallback(t)
  PROVE  CoverInv'
<1>1. /\ UNCHANGED <<measures, imu_next, last_timestamp_lidar>>
      /\ imu_taken' = imu_taken \ {t}
  BY DEF ImuCallback, measVars, sensorVars, lidVars
<1>2. /\ t = imu_next - 1 /\ imu_taken = {t} /\ imu_taken' = {}
      /\ imu_next \in Nat /\ t \in FrameSpan .. LastTime
      /\ t > 0 /\ last_timestamp_lidar \in Int
  <2>1. t = imu_next - 1 /\ imu_taken = {t}
    BY DEF CoverInv, OneSample
  <2>2. imu_next \in Nat /\ t \in FrameSpan .. LastTime /\ t > 0
    BY LastTimeIsNat DEF Types, SensorTypes
  <2> QED BY <1>1, <2>1, <2>2, Times
<1>3. last_timestamp_imu # -1 => last_timestamp_imu = t - 1 /\ ~BeforeLidar
  BY <1>2 DEF CoverInv, OneSample
<1>4. ImuCoversFrame'
  BY <1>1 DEF CoverInv, ImuCoversFrame
<1>5. CASE BeforeLidar /\ UNCHANGED imuVars
  <2>1. UNCHANGED <<imu_buffer, last_timestamp_imu>> /\ last_timestamp_imu = -1
    BY <1>3, <1>5 DEF imuVars
  <2>2. OneSample'
    BY <1>2, <2>1 DEF OneSample
  <2>3. NoGap' /\ BufferFollows'
    BY <1>1, <2>1 DEF CoverInv, NoGap, BufferFollows, Group
  <2> QED BY <1>4, <2>2, <2>3 DEF CoverInv
<1>6. CASE ~BeforeLidar /\ ImuLoopBack(t)
  BY <1>2, <1>3, <1>6 DEF ImuLoopBack
<1>7. CASE ~BeforeLidar /\ AcceptImu(t)
  <2>1. last_timestamp_imu' = t /\ imu_buffer' = Append(imu_buffer, t)
    BY <1>7 DEF AcceptImu
  <2>2. /\ DOMAIN imu_buffer' = 1 .. Len(imu_buffer) + 1
        /\ Len(imu_buffer') = Len(imu_buffer) + 1
        /\ \A i \in 1 .. Len(imu_buffer) : imu_buffer'[i] = imu_buffer[i]
        /\ imu_buffer'[Len(imu_buffer) + 1] = t
    <3>1. imu_buffer \in Seq(FrameSpan .. LastTime)
      BY DEF Types, SensorTypes
    <3> QED BY <1>2, <2>1, <3>1, AppendProperties, LenProperties
  <2>3. Len(imu_buffer) \in Nat /\ DOMAIN imu_buffer = 1 .. Len(imu_buffer)
    BY Samples
  <2>4. OneSample'
    BY <1>1, <1>2, <1>7, <2>1 DEF OneSample, BeforeLidar
  <2>5. CASE last_timestamp_imu = -1
    <3>1. imu_buffer = <<>> /\ Len(imu_buffer) = 0
      BY <2>5 DEF CoverInv, NoGap
    <3>2. NoGap'
      BY <1>2, <2>1, <2>2, <3>1 DEF NoGap
    <3>3. BufferFollows'
      BY <1>1, <2>5 DEF CoverInv, BufferFollows
    <3> QED BY <1>4, <2>4, <3>2, <3>3 DEF CoverInv
  <2>6. CASE last_timestamp_imu # -1
    <3>1. last_timestamp_imu = t - 1
      BY <1>3, <2>6
    <3>2. \A i \in 1 .. Len(imu_buffer) : imu_buffer[i] = t - 1 - Len(imu_buffer) + i
      BY <2>3, <3>1 DEF CoverInv, NoGap
    <3>3. \A i \in 1 .. Len(imu_buffer) + 1 :
            imu_buffer'[i] = t - (Len(imu_buffer) + 1) + i
      BY <1>2, <2>2, <2>3, <3>2
    <3>4. NoGap'
      BY <1>2, <2>1, <2>2, <3>3 DEF NoGap
    <3>5. t - (Len(imu_buffer) + 1) = last_timestamp_imu - Len(imu_buffer) /\ t # -1
      BY <1>2, <2>3, <3>1
    <3>6. BufferFollows'
      BY <1>1, <2>1, <2>2, <3>5 DEF CoverInv, BufferFollows, Group
    <3> QED BY <1>4, <2>4, <3>4, <3>6 DEF CoverInv
  <2> QED BY <2>5, <2>6
<1> QED BY <1>5, <1>6, <1>7 DEF ImuCallback

\* What Drain takes: from where the last frame ended to where this one does.
LEMMA DrainCovers ==
  ASSUME Types, Inv, FrameInv, CoverInv, Drain
  PROVE  CoverInv'
<1> DEFINE n == Taken
           m == Len(measures)
           L == Len(imu_buffer)
           new == lidar_frame_end_time
           first == last_timestamp_imu - L
<1>1. /\ UNCHANGED <<imu_taken, imu_next, last_timestamp_imu, last_timestamp_lidar>>
      /\ last_timestamp_imu >= new
  BY DEF Drain, takenVars, sensorVars, ImuReady
<1>2. /\ n \in 0 .. L /\ Stops(n)
      /\ Len(imu_buffer') = L - n
      /\ DOMAIN imu_buffer' = 1 .. L - n
      /\ \A i \in 1 .. L - n : imu_buffer'[i] = imu_buffer[n + i]
      /\ Len(measures') = m + 1
      /\ DOMAIN measures' = 1 .. m + 1
      /\ \A k \in 1 .. m : measures'[k] = measures[k]
      /\ measures'[m + 1].lio_time = new
      /\ measures'[m + 1].imu = SubSeq(imu_buffer, 1, n)
      /\ DOMAIN measures'[m + 1].imu = 1 .. n
      /\ \A a \in 1 .. n : measures'[m + 1].imu[a] = imu_buffer[a]
  BY Drained
<1>3. /\ L \in Nat /\ DOMAIN imu_buffer = 1 .. L
      /\ m \in Nat /\ DOMAIN measures = 1 .. m
      /\ last_timestamp_imu \in Int
  BY Samples
<1>4. new \in Nat
  BY StampsAreNat, SensorAssumption DEF Types, TimerTypes, lidar_frame_end_time, End
<1>5. \A i \in 1 .. L : imu_buffer[i] = first + i
  BY <1>3 DEF CoverInv, NoGap
<1>6. /\ \A i \in 1 .. n : first + i <= new
      /\ n < L => first + n + 1 > new
  <2>1. \A i \in 1 .. n : i \in 1 .. L
    BY <1>2, <1>3
  <2>2. n < L => n + 1 \in 1 .. L /\ first + (n + 1) = first + n + 1
    BY <1>2, <1>3
  <2> QED BY <1>2, <1>5, <2>1, <2>2 DEF Stops
\* The last sample accepted has reached the end of the frame, so the loop stopped there.
<1>7. n # 0 => first + n = new
  <2> SUFFICES ASSUME n # 0 PROVE first + n = new
    OBVIOUS
  <2>1. first + n <= new
    <3>1. n \in 1 .. n
      BY <1>2, <1>3
    <3> QED BY <1>6, <3>1
  <2>2. first \in Int /\ n \in Nat /\ n <= L
    BY <1>2, <1>3
  <2> HIDE DEF first, n, L, new
  <2>3. CASE n < L
    BY <1>4, <1>6, <2>1, <2>2, <2>3
  <2>4. CASE n = L
    <3>1. first + L = last_timestamp_imu
      BY <1>3 DEF first
    <3> QED BY <1>1, <1>3, <1>4, <2>1, <2>4, <3>1
  <2> QED BY <1>3, <2>2, <2>3, <2>4
<1> DEFINE Fed == \E j \in DOMAIN measures : measures[j].imu # <<>>
<1>8. Fed => first = measures[m].lio_time /\ m \in 1 .. m /\ measures[m].lio_time < new
  <2> SUFFICES ASSUME Fed
               PROVE  first = measures[m].lio_time /\ m \in 1 .. m /\ measures[m].lio_time < new
    OBVIOUS
  <2>1. first = measures[m].lio_time
    BY DEF CoverInv, BufferFollows, Group
  <2>2. m \in 1 .. m
    BY <1>3
  <2>3. 1 \in DOMAIN lid_header_time_buffer /\ new = End(lid_header_time_buffer[1])
    <3>1. lid_header_time_buffer \in Seq(Stamps) /\ lid_header_time_buffer # <<>>
      BY DEF Drain, Types, SensorTypes
    <3>2. /\ Head(lid_header_time_buffer) = lid_header_time_buffer[1]
          /\ 1 \in DOMAIN lid_header_time_buffer
      BY <3>1, HeadIsFirst, LenProperties
    <3>3. Head(lid_header_time_buffer) = lidar_frame_beg_time
      BY DEF Drain, Inv, Choice, PopsWhatItChose
    <3> QED BY <3>2, <3>3 DEF lidar_frame_end_time
  <2>4. measures[m].lio_time < new
    BY <1>3, <2>2, <2>3 DEF FrameInv, HandedInOrder
  <2> QED BY <2>1, <2>2, <2>4
<1>9. Fed => first + n = new
  <2> SUFFICES ASSUME Fed PROVE first + n = new
    OBVIOUS
  <2>1. first < new /\ first \in Int
    BY <1>3, <1>8
  <2>2. n # 0
    <3> SUFFICES ASSUME n = 0 PROVE FALSE
      OBVIOUS
    <3>1. L > 0
      BY <1>1, <1>3, <1>4, <2>1
    <3>2. first + 0 + 1 > new
      BY <1>3, <1>6, <3>1
    <3> QED BY <1>3, <1>4, <2>1, <3>2
  <2> QED BY <1>7, <2>2
<1> HIDE DEF n, m, L, new, first
<1>10. OneSample'
  BY <1>1 DEF CoverInv, OneSample, BeforeLidar
<1>11. first + n = last_timestamp_imu - (L - n)
  BY <1>2, <1>3 DEF first
<1>12. NoGap'
  <2>1. last_timestamp_imu # -1
    BY <1>1, <1>3, <1>4
  <2>2. \A i \in 1 .. L - n : n + i \in 1 .. L /\ first + (n + i) = last_timestamp_imu - (L - n) + i
    BY <1>2, <1>3 DEF first
  <2>3. \A i \in 1 .. L - n : imu_buffer'[i] = last_timestamp_imu - (L - n) + i
    BY <1>2, <1>5, <2>2
  <2> QED BY <1>1, <1>2, <2>1, <2>3 DEF NoGap
<1>13. BufferFollows'
  <2> SUFFICES ASSUME NEW j \in 1 .. m + 1, measures'[j].imu # <<>>
               PROVE  last_timestamp_imu # -1 /\ last_timestamp_imu - (L - n) = new
    BY <1>1, <1>2 DEF BufferFollows, Group
  <2>1. last_timestamp_imu # -1
    BY <1>1, <1>3, <1>4
  <2>2. CASE j \in 1 .. m
    <3>1. Fed
      BY <1>2, <1>3, <2>2
    <3> QED BY <1>9, <1>11, <2>1, <3>1
  <2>3. CASE j = m + 1
    <3>1. n # 0
      <4> SUFFICES ASSUME n = 0 PROVE FALSE
        OBVIOUS
      <4>1. SubSeq(imu_buffer, 1, 0) = <<>>
        BY SubSeqEmpty
      <4> QED BY <1>2, <2>3, <4>1
    <3> QED BY <1>7, <1>11, <2>1, <3>1
  <2> QED BY <1>3, <2>2, <2>3
<1>14. ImuCoversFrame'
  <2> SUFFICES ASSUME NEW j \in 1 .. m + 1, NEW k \in 1 .. m + 1, j < k, measures'[j].imu # <<>>
               PROVE  measures'[k].imu =
                        [i \in 1 .. measures'[k].lio_time - measures'[k - 1].lio_time |->
                           measures'[k - 1].lio_time + i]
    BY <1>2 DEF ImuCoversFrame
  <2>1. j \in 1 .. m /\ k - 1 \in 1 .. m /\ measures[j].imu # <<>>
    BY <1>2, <1>3
  <2>2. CASE k \in 1 .. m
    BY <1>2, <1>3, <2>1, <2>2 DEF CoverInv, ImuCoversFrame
  <2>3. CASE k = m + 1
    <3>1. k - 1 = m /\ Fed
      BY <1>3, <2>1, <2>3
    <3>2. first = measures'[k - 1].lio_time /\ new = measures'[k].lio_time
      BY <1>2, <1>8, <2>1, <2>3, <3>1
    <3>3. n = new - first
      BY <1>2, <1>3, <1>4, <1>9, <3>1 DEF first
    <3>4. \A a \in 1 .. n : measures'[k].imu[a] = first + a
      BY <1>2, <1>3, <1>5, <2>3
    <3>5. measures'[k].imu \in Seq(FrameSpan .. LastTime)
      <4>1. imu_buffer \in Seq(FrameSpan .. LastTime)
        BY DEF Types, SensorTypes
      <4> QED BY <1>2, <2>3, <4>1, Splits DEF n, L
    <3>6. measures'[k].imu = [i \in 1 .. n |-> first + i]
      BY <1>2, <2>3, <3>4, <3>5
    <3> QED BY <3>2, <3>3, <3>6
  <2> QED BY <1>3, <2>2, <2>3
<1> QED BY <1>10, <1>12, <1>13, <1>14 DEF CoverInv

LEMMA InitCovers == Init => CoverInv
<1> SUFFICES ASSUME Init PROVE CoverInv
  OBVIOUS
<1>1. OneSample
  BY DEF Init, OneSample
<1>2. NoGap /\ BufferFollows /\ ImuCoversFrame
  BY DEF Init, NoGap, BufferFollows, ImuCoversFrame
<1> QED BY <1>1, <1>2 DEF CoverInv

LEMMA StepCovers ==
  ASSUME Types, Inv, FrameInv, ImuInv, CoverInv, MaxInFlight = 1, [Next]_vars
  PROVE  CoverInv'
<1> DEFINE Kept == /\ UNCHANGED <<imu_taken, imu_next, imu_buffer, last_timestamp_imu, measures>>
                   /\ BeforeLidar' => BeforeLidar
<1>1. ASSUME Kept PROVE CoverInv'
  <2>1. OneSample' /\ NoGap'
    BY <1>1 DEF CoverInv, OneSample, NoGap
  <2>2. BufferFollows' /\ ImuCoversFrame'
    BY <1>1 DEF CoverInv, BufferFollows, ImuCoversFrame, Group
  <2> QED BY <2>1, <2>2 DEF CoverInv
<1> USE DEF sensorVars, takenVars, imuVars, measVars, lidVars
<1>2. CASE Tick \/ (SensorStep /\ ~TakeImu /\ ~PushStamp /\ ~(\E t \in imu_taken : ImuCallback(t)))
  <2>1. Kept
    BY <1>2 DEF SensorStep, Tick, TakeLidar, LidarLock, PushCloud, BeforeLidar
  <2> QED BY <1>1, <2>1
<1>3. CASE PushStamp
  <2>1. Beg(lidar_ptr) \in Nat
    BY <1>3, StampsAscend DEF PushStamp, Types, SensorTypes, Unlocked
  <2>2. Kept
    BY <1>3, <2>1 DEF PushStamp, BeforeLidar
  <2> QED BY <1>1, <2>2
<1>4. CASE TimerStep /\ ~Drain
  <2>1. Kept
    BY <1>4 DEF TimerStep, TimerFires, ReturnEarly, ResumeFrame, ChooseFrame, ChooseFromEmpty,
         ReadStamp, StampFromEmpty, AwaitImu, DrainEmpty, InitialiseImu, MapFrame, Undefined,
         BeforeLidar
  <2> QED BY <1>1, <2>1
<1>5. CASE SaveRequest \/ TimeoutPasses \/ UNCHANGED vars
  <2>1. Kept
    BY <1>5 DEF SaveRequest, TimeoutPasses, vars, BeforeLidar
  <2> QED BY <1>1, <2>1
<1> QED
  BY <1>2, <1>3, <1>4, <1>5, TakeImuCovers, ImuCallbackCovers, DrainCovers DEF Next

\* While the callbacks of a subscription do not overlap, the filter gets no gap to
\* integrate over: after the first frame with samples each frame brings exactly the
\* samples since the one before it, although the newest is tested before the lock.
THEOREM CoverSafe ==
  ASSUME MaxInFlight = 1
  PROVE  Spec => []ImuCoversFrame
<1> DEFINE IInv == Types /\ Inv /\ FrameInv /\ ImuInv /\ CoverInv
<1>1. Init => IInv
  BY InitTypes, InitInv, InitFrames, InitImu, InitCovers
<1>2. IInv /\ [Next]_vars => IInv'
  BY StepTypes, StepInv, StepFrames, StepImu, StepCovers
<1>3. IInv => ImuCoversFrame
  BY DEF CoverInv
<1> HIDE DEF IInv
<1> QED BY <1>1, <1>2, <1>3, PTL DEF Spec

-------------------------------------------------------------------------------

\* ScanTiming.  A non-empty set of naturals has a least member.
LEMMA LeastMember ==
  ASSUME NEW S \in SUBSET Nat, S # {}
  PROVE  \E n \in S : \A m \in S : n <= m
<1>1. PICK n \in S : \A m \in S : ~(<<m, n>> \in OpToRel(<, Nat))
  BY NatLessThanWellFounded, WFMin
<1>2. \A m \in S : n <= m
  <2> SUFFICES ASSUME NEW m \in S, m < n PROVE FALSE
    OBVIOUS
  <2>1. <<m, n>> \in OpToRel(<, Nat)
    BY DEF OpToRel
  <2> QED BY <1>1, <2>1
<1> QED BY <1>2

\* A bounded one has a greatest.
LEMMA GreatestMember ==
  ASSUME NEW N \in Nat, NEW S \in SUBSET (0 .. N), S # {}
  PROVE  \E n \in S : \A m \in S : m <= n
<1> DEFINE Left == {N - n : n \in S}
<1>1. Left \in SUBSET Nat /\ Left # {}
  OBVIOUS
<1>2. PICK l \in Left : \A m \in Left : l <= m
  BY <1>1, LeastMember
<1>3. PICK n \in S : l = N - n
  OBVIOUS
<1>4. ASSUME NEW m \in S PROVE m <= n
  <2>1. N - m \in Left
    OBVIOUS
  <2>2. N - n <= N - m /\ m \in 0 .. N /\ n \in 0 .. N
    BY <2>1, <1>2, <1>3
  <2> QED BY <2>2
<1> QED BY <1>4

\* So Max and Min return a member that bounds the others.
LEMMA MaxIsGreatest ==
  ASSUME NEW N \in Nat, NEW S \in SUBSET (0 .. N), S # {}
  PROVE  Max(S) \in S /\ \A m \in S : m <= Max(S)
<1>1. \E n \in S : \A m \in S : n >= m
  <2>1. PICK n \in S : \A m \in S : m <= n
    BY GreatestMember
  <2>2. \A m \in S : n >= m
    BY <2>1
  <2> QED BY <2>2
<1>2. Max(S) \in S /\ \A m \in S : Max(S) >= m
  BY <1>1 DEF Max
<1> QED BY <1>2

LEMMA MinIsLeast ==
  ASSUME NEW S \in SUBSET Nat, S # {}
  PROVE  Min(S) \in S /\ \A m \in S : Min(S) <= m
BY LeastMember DEF Min

\* D defines the value at every member of S from the values at those of lower rank.
Recursive(S, rank, N, V, D) ==
  /\ rank \in [S -> Nat] /\ N \in Nat /\ \A s \in S : rank[s] <= N
  /\ V # {}
  /\ D \in [S -> [[S -> V] -> V]]
  /\ \A s \in S : \A f, g \in [S -> V] :
       (\A r \in S : rank[r] < rank[s] => f[r] = g[r]) => D[s][f] = D[s][g]

\* The principle behind the recursive functions of the model: such a definition has
\* a solution.
LEMMA Recursion ==
  ASSUME NEW S, NEW rank, NEW N, NEW V, NEW D, Recursive(S, rank, N, V, D)
  PROVE  \E f \in [S -> V] : \A s \in S : f[s] = D[s][f]
<1> /\ rank \in [S -> Nat] /\ N \in Nat /\ \A s \in S : rank[s] <= N
    /\ V # {}
    /\ D \in [S -> [[S -> V] -> V]]
    /\ \A s \in S : \A f, g \in [S -> V] :
         (\A r \in S : rank[r] < rank[s] => f[r] = g[r]) => D[s][f] = D[s][g]
  BY DEF Recursive
<1> DEFINE Good(m) == \E f \in [S -> V] : \A s \in S : rank[s] <= m => f[s] = D[s][f]
           Bad == {m \in Nat : ~Good(m)}
<1>1. SUFFICES Bad = {}
  <2>1. Good(N)
    BY <1>1
  <2> QED BY <2>1
<1>2. SUFFICES ASSUME Bad # {} PROVE FALSE
  OBVIOUS
<1>3. PICK b \in Bad : \A m \in Bad : b <= m
  <2>1. Bad \in SUBSET Nat
    OBVIOUS
  <2> HIDE DEF Bad
  <2> QED BY <1>2, <2>1, LeastMember
<1>4. PICK f \in [S -> V] : \A s \in S : rank[s] < b => f[s] = D[s][f]
  <2>1. CASE b = 0
    <3>1. PICK v \in V : TRUE
      OBVIOUS
    <3>2. [s \in S |-> v] \in [S -> V]
      OBVIOUS
    <3>3. \A s \in S : ~(rank[s] < b)
      BY <2>1
    <3> QED BY <3>2, <3>3
  <2>2. CASE b # 0
    <3>1. b - 1 \in Nat /\ ~(b <= b - 1)
      BY <2>2
    <3>2. Good(b - 1)
      BY <1>3, <3>1
    <3>3. \A s \in S : rank[s] < b => rank[s] <= b - 1
      BY <3>1
    <3>4. PICK f \in [S -> V] : \A s \in S : rank[s] <= b - 1 => f[s] = D[s][f]
      BY <3>2
    <3>5. \A s \in S : rank[s] < b => f[s] = D[s][f]
      BY <3>3, <3>4
    <3> QED BY <3>5
  <2> QED BY <2>1, <2>2
<1> DEFINE g == [s \in S |-> IF rank[s] = b THEN D[s][f] ELSE f[s]]
<1>5. g \in [S -> V]
  OBVIOUS
<1>6. \A s \in S : rank[s] < b => g[s] = f[s]
  OBVIOUS
<1>7. \A s \in S : rank[s] = b => g[s] = D[s][f]
  OBVIOUS
<1> HIDE DEF g
<1> b \in Nat /\ \A s \in S : rank[s] \in Nat
  BY <1>3
<1> HIDE DEF Good, Bad
<1>8. ASSUME NEW s \in S, rank[s] <= b PROVE g[s] = D[s][g]
  <2>1. \A r \in S : rank[r] < rank[s] => f[r] = g[r]
    BY <1>6, <1>8
  <2>2. D[s][f] = D[s][g]
    BY <2>1, <1>5
  <2>3. CASE rank[s] = b
    BY <2>2, <2>3, <1>7
  <2>4. CASE rank[s] < b
    BY <2>2, <2>4, <1>4, <1>6
  <2>5. rank[s] = b \/ rank[s] < b
    <3>1. PICK r \in Nat : r = rank[s]
      OBVIOUS
    <3>2. r <= b
      BY <1>8, <3>1
    <3>3. r = b \/ r < b
      BY <3>2
    <3> QED BY <3>1, <3>3
  <2> QED BY <2>3, <2>4, <2>5
<1>9. Good(b)
  BY <1>5, <1>8 DEF Good
<1> QED BY <1>3, <1>9 DEF Bad

LEMMA BoundedIsFinite ==
  ASSUME NEW N \in Nat, NEW T \in SUBSET (0 .. N)
  PROVE  IsFiniteSet(T) /\ Cardinality(T) \in Nat
<1>1. IsFiniteSet(0 .. N)
  <2>1. 0 \in Int /\ N \in Int
    OBVIOUS
  <2> QED BY <2>1, FS_Interval
<1>2. IsFiniteSet(T)
  BY <1>1, FS_Subset
<1> QED BY <1>2, FS_CardinalityType

\* A bounded set of numbers has an order from the least to the greatest.
LEMMA OrderExists ==
  ASSUME NEW N \in Nat, NEW S \in SUBSET (0 .. N)
  PROVE  \E n \in [1 .. Cardinality(S) -> S] : \A k, l \in DOMAIN n : k < l => n[k] < n[l]
<1> DEFINE Ordered(T) ==
             \E n \in [1 .. Cardinality(T) -> T] : \A k, l \in DOMAIN n : k < l => n[k] < n[l]
           Bad == {m \in Nat : \E T \in SUBSET (0 .. N) : Cardinality(T) = m /\ ~Ordered(T)}
<1>1. \A T \in SUBSET (0 .. N) : IsFiniteSet(T) /\ Cardinality(T) \in Nat
  BY BoundedIsFinite
<1>2. SUFFICES Bad = {}
  <2>1. Cardinality(S) \in Nat
    BY <1>1
  <2>2. ~Ordered(S) => Cardinality(S) \in Bad
    BY <2>1
  <2> QED BY <1>2, <2>2
<1>3. SUFFICES ASSUME Bad # {} PROVE FALSE
  OBVIOUS
<1>4. PICK b \in Bad : \A m \in Bad : b <= m
  <2>1. Bad \in SUBSET Nat
    OBVIOUS
  <2> HIDE DEF Bad
  <2> QED BY <1>3, <2>1, LeastMember
<1>5. PICK T \in SUBSET (0 .. N) : Cardinality(T) = b /\ ~Ordered(T)
  OBVIOUS
<1>6. b \in Nat
  OBVIOUS
<1>7. T # {}
  <2>1. SUFFICES ASSUME T = {} PROVE Ordered({})
    BY <1>5
  <2>2. Cardinality({}) = 0
    BY FS_EmptySet
  <2>3. [k \in 1 .. 0 |-> k] \in [1 .. 0 -> {}]
    OBVIOUS
  <2> QED BY <2>2, <2>3
<1>8. PICK M \in T : \A m \in T : m <= M
  BY <1>7, GreatestMember
<1> DEFINE R == T \ {M}
<1>9. R \in SUBSET (0 .. N) /\ Cardinality(R) = b - 1 /\ b - 1 \in Nat
  <2>1. Cardinality(R) = Cardinality(T) - 1
    BY <1>1, FS_RemoveElement
  <2>2. Cardinality(R) \in Nat
    BY <1>1
  <2> QED BY <1>5, <1>6, <2>1, <2>2
<1>10. Ordered(R)
  <2>1. ~(b <= b - 1)
    BY <1>6
  <2>2. b - 1 \notin Bad
    BY <1>4, <2>1
  <2> HIDE DEF Ordered, R
  <2> QED BY <1>9, <2>2
<1>11. PICK n \in [1 .. b - 1 -> R] : \A k, l \in DOMAIN n : k < l => n[k] < n[l]
  BY <1>9, <1>10
<1> DEFINE o == [k \in 1 .. b |-> IF k = b THEN M ELSE n[k]]
<1>12. \A k \in 1 .. b - 1 : n[k] \in T /\ n[k] < M
  <2> SUFFICES ASSUME NEW k \in 1 .. b - 1 PROVE n[k] \in T /\ n[k] < M
    OBVIOUS
  <2>1. n[k] \in R
    OBVIOUS
  <2>2. n[k] \in T /\ n[k] # M
    BY <2>1
  <2>3. n[k] <= M /\ n[k] \in 0 .. N /\ M \in 0 .. N
    BY <1>8, <2>2
  <2> QED BY <2>2, <2>3
<1>13. o \in [1 .. b -> T]
  BY <1>6, <1>12
<1>14. ASSUME NEW k \in 1 .. b, NEW l \in 1 .. b, k < l PROVE o[k] < o[l]
  <2>1. k \in 1 .. b - 1 /\ o[k] = n[k]
    BY <1>6, <1>14
  <2>2. CASE l = b
    BY <1>12, <2>1, <2>2
  <2>3. CASE l # b
    BY <1>6, <1>11, <1>14, <2>1, <2>3
  <2> QED BY <2>2, <2>3
<1>15. DOMAIN o = 1 .. b
  OBVIOUS
<1> HIDE DEF o, Bad
<1>16. Ordered(T)
  BY <1>5, <1>13, <1>14, <1>15
<1> QED BY <1>5, <1>16

\* Ascending returns it, and it leaves no member out.
LEMMA AscendingOrder ==
  ASSUME NEW N \in Nat, NEW S \in SUBSET (0 .. N)
  PROVE  /\ IsFiniteSet(S) /\ Cardinality(S) \in Nat
         /\ Ascending(S) \in [1 .. Cardinality(S) -> S]
         /\ \A k, l \in 1 .. Cardinality(S) : k < l => Ascending(S)[k] < Ascending(S)[l]
         /\ \A x \in S : \E k \in 1 .. Cardinality(S) : Ascending(S)[k] = x
<1> DEFINE c == Cardinality(S)
           a == Ascending(S)
<1>1. IsFiniteSet(S) /\ c \in Nat
  BY BoundedIsFinite
<1>2. a \in [1 .. c -> S] /\ \A k, l \in DOMAIN a : k < l => a[k] < a[l]
  BY OrderExists DEF Ascending
<1> HIDE DEF a, c
<1>3. \A k, l \in 1 .. c : k < l => a[k] < a[l]
  BY <1>2
<1>4. \A k, l \in 1 .. c : a[k] = a[l] => k = l
  <2> SUFFICES ASSUME NEW k \in 1 .. c, NEW l \in 1 .. c, a[k] = a[l], k # l PROVE FALSE
    OBVIOUS
  <2>1. a[k] \in 0 .. N /\ a[l] \in 0 .. N
    BY <1>2
  <2>2. k < l \/ l < k
    BY <1>1
  <2> QED BY <1>3, <2>1, <2>2
<1>5. a \in Injection(1 .. c, S)
  BY <1>2, <1>4 DEF Injection, IsInjective
<1>6. Cardinality(1 .. c) = c
  BY <1>1, FS_Interval
<1>7. a \in Surjection(1 .. c, S)
  BY <1>1, <1>5, <1>6, FS_Injection DEF c
<1>8. \A x \in S : \E k \in 1 .. c : a[k] = x
  BY <1>7 DEF Surjection
<1> QED BY <1>1, <1>2, <1>3, <1>8 DEF a, c

\* In the order of the first numbers every number is at its own place.
LEMMA AscendingLast ==
  ASSUME NEW m \in Nat \ {0}
  PROVE  Cardinality(1 .. m) = m /\ Ascending(1 .. m)[m] = m
<1>1. Cardinality(1 .. m) = m
  BY FS_Interval
<1> DEFINE a == Ascending(1 .. m)
<1>2. /\ a \in [1 .. m -> 1 .. m]
      /\ \A k, l \in 1 .. m : k < l => a[k] < a[l]
      /\ \A x \in 1 .. m : \E k \in 1 .. m : a[k] = x
  <2>1. 1 .. m \in SUBSET (0 .. m) /\ m \in Nat
    OBVIOUS
  <2> QED BY <1>1, <2>1, AscendingOrder
<1> HIDE DEF a
<1>3. m \in 1 .. m
  OBVIOUS
<1>4. PICK k \in 1 .. m : a[k] = m
  BY <1>2, <1>3
<1>5. a[m] \in 1 .. m
  BY <1>2, <1>3
<1>6. k = m
  BY <1>2, <1>3, <1>4, <1>5
<1> QED BY <1>1, <1>4, <1>6 DEF a

\* What the lidar sends.
LEMMA ScanPoints ==
  ASSUME NEW s \in Scans
  PROVE  /\ Len(s) \in Nat /\ DOMAIN s = 1 .. Len(s)
         /\ \A i \in 1 .. Len(s) :
              /\ s[i].offset_time \in Nat /\ s[i].line \in Nat
              /\ s[i].yaw \in 0 .. Turn - 1 /\ s[i].blind \in BOOLEAN
              /\ s[1].offset_time <= s[i].offset_time
<1> DEFINE P == [offset_time : Nat, line : Nat, yaw : 0 .. Turn - 1, blind : BOOLEAN]
<1>1. s \in Seq(P) /\ \A i \in DOMAIN s : s[1].offset_time <= s[i].offset_time
  BY ScansAssumption
<1>2. Len(s) \in Nat /\ DOMAIN s = 1 .. Len(s) /\ \A i \in 1 .. Len(s) : s[i] \in P
  <2> HIDE DEF P
  <2> QED BY <1>1
<1>3. \A p \in P : /\ p.offset_time \in Nat /\ p.line \in Nat
                   /\ p.yaw \in 0 .. Turn - 1 /\ p.blind \in BOOLEAN
  OBVIOUS
<1> HIDE DEF P
<1> QED BY <1>1, <1>2, <1>3

AviaTime(s, i, before) ==
  IF i \notin OnLine(s) THEN 0
  ELSE IF ~FarApart(s[i].offset_time, before) THEN s[i].offset_time
  ELSE IF i = 1 THEN 0 ELSE before + 1

AviaBefore(f, i) == IF i = 1 THEN 0 ELSE f[i - 1]

\* The times of the avia's points satisfy their definition.
LEMMA AviaEquation ==
  ASSUME NEW s \in Scans
  PROVE  /\ AviaTimes(s) \in [1 .. Len(s) -> Nat]
         /\ \A i \in 1 .. Len(s) :
              AviaTimes(s)[i] = AviaTime(s, i, AviaBefore(AviaTimes(s), i))
<1> DEFINE S == 1 .. Len(s)
           rank == [i \in S |-> i]
           F == [S -> Nat]
           D == [i \in S |-> [f \in F |-> AviaTime(s, i, AviaBefore(f, i))]]
<1>1. Len(s) \in Nat /\ DOMAIN s = S /\ \A i \in S : s[i].offset_time \in Nat
  BY ScanPoints
<1>2. \A i \in S : \A before \in Nat : AviaTime(s, i, before) \in Nat
  BY <1>1 DEF AviaTime
<1>3. \A i \in S : \A f \in F : AviaBefore(f, i) \in Nat
  BY DEF AviaBefore
<1>4. D \in [S -> [F -> Nat]]
  BY <1>2, <1>3
<1>5. ASSUME NEW i \in S, NEW f \in F, NEW g \in F,
             \A r \in S : rank[r] < rank[i] => f[r] = g[r]
      PROVE  D[i][f] = D[i][g]
  <2>1. AviaBefore(f, i) = AviaBefore(g, i)
    <3>1. CASE i = 1
      BY <3>1 DEF AviaBefore
    <3>2. CASE i # 1
      <4>1. i - 1 \in S /\ rank[i - 1] < rank[i]
        BY <1>1, <3>2
      <4> QED BY <1>5, <3>2, <4>1 DEF AviaBefore
    <3> QED BY <3>1, <3>2
  <2> QED BY <2>1
<1>6. \E f \in F : \A i \in S : f[i] = D[i][f]
  <2>1. rank \in [S -> Nat] /\ \A i \in S : rank[i] <= Len(s)
    BY <1>1
  <2>2. Nat # {}
    BY 0 \in Nat
  <2>3. \A i \in S : \A f, g \in [S -> Nat] :
          (\A r \in S : rank[r] < rank[i] => f[r] = g[r]) => D[i][f] = D[i][g]
    BY <1>5
  <2>4. D \in [S -> [[S -> Nat] -> Nat]]
    BY <1>4
  <2> HIDE DEF D, rank, S
  <2>5. Recursive(S, rank, Len(s), Nat, D)
    BY ONLY <1>1, <2>1, <2>2, <2>3, <2>4 DEF Recursive
  <2>6. \E f \in [S -> Nat] : \A i \in S : f[i] = D[i][f]
    BY ONLY <2>5, Recursion
  <2> QED BY <2>6
<1>7. PICK f \in F : \A i \in S : f[i] = AviaTime(s, i, AviaBefore(f, i))
  BY <1>6
<1>8. f = [i \in DOMAIN s |-> AviaTime(s, i, AviaBefore(f, i))]
  BY <1>1, <1>7
<1> DEFINE t == AviaTimes(s)
<1>9. t = [i \in DOMAIN s |-> AviaTime(s, i, AviaBefore(t, i))]
  BY <1>8 DEF AviaTimes, AviaTime, AviaBefore
<1> HIDE DEF t
<1>10. \A i \in S : t[i] \in Nat
  <2> DEFINE Bad == {i \in S : t[i] \notin Nat}
  <2>1. SUFFICES ASSUME Bad # {} PROVE FALSE
    OBVIOUS
  <2>2. PICK b \in Bad : \A m \in Bad : b <= m
    <3>1. Bad \in SUBSET Nat
      OBVIOUS
    <3> HIDE DEF Bad
    <3> QED BY <2>1, <3>1, LeastMember
  <2>3. AviaBefore(t, b) \in Nat
    <3>1. CASE b = 1
      BY <3>1 DEF AviaBefore
    <3>2. CASE b # 1
      <4>1. b - 1 \in S /\ ~(b <= b - 1)
        BY <1>1, <3>2
      <4> QED BY <2>2, <3>2, <4>1 DEF AviaBefore
    <3> QED BY <3>1, <3>2
  <2>4. t[b] \in Nat
    BY <1>1, <1>2, <1>9, <2>3
  <2> QED BY <2>4
<1> QED BY <1>1, <1>9, <1>10 DEF t

\* A cloud has the kept points, in the order of the scan and with the times given.
LEMMA CloudPoints ==
  ASSUME NEW n \in Nat, NEW kept \in SUBSET (1 .. n), NEW time \in [1 .. n -> Nat]
  PROVE  /\ Cloud(kept, time) \in Seq([time : Nat, number : 1 .. n])
         /\ Len(Cloud(kept, time)) \in Nat
         /\ \A k \in 1 .. Len(Cloud(kept, time)) :
              /\ Cloud(kept, time)[k].number \in kept
              /\ Cloud(kept, time)[k].time = time[Cloud(kept, time)[k].number]
         /\ \A k, l \in 1 .. Len(Cloud(kept, time)) :
              k < l => Cloud(kept, time)[k].number < Cloud(kept, time)[l].number
<1> DEFINE a == Ascending(kept)
           c == Cardinality(kept)
           cloud == [k \in 1 .. c |-> [time |-> time[a[k]], number |-> a[k]]]
           P == [time : Nat, number : 1 .. n]
<1>1. /\ c \in Nat /\ a \in [1 .. c -> kept]
      /\ \A k, l \in 1 .. c : k < l => a[k] < a[l]
  <2>1. kept \in SUBSET (0 .. n)
    OBVIOUS
  <2> QED BY <2>1, AscendingOrder
<1>2. Cloud(kept, time) = cloud
  <2>1. DOMAIN a = 1 .. c
    BY <1>1
  <2> QED BY <2>1 DEF Cloud
<1> HIDE DEF a, c
<1>3. \A k \in 1 .. c : a[k] \in kept /\ a[k] \in 1 .. n /\ time[a[k]] \in Nat
  BY <1>1
<1>4. \A k \in 1 .. c : cloud[k] = [time |-> time[a[k]], number |-> a[k]]
  OBVIOUS
<1>5. \A k \in 1 .. c : cloud[k] \in P
  BY <1>3, <1>4
<1>6. cloud \in Seq(P) /\ Len(cloud) = c
  <2>1. cloud \in [1 .. c -> P]
    BY <1>5
  <2> HIDE DEF cloud, P
  <2> QED BY <1>1, <2>1
<1>7. \A k \in 1 .. c : cloud[k].number = a[k] /\ cloud[k].time = time[a[k]]
  BY <1>4
<1> HIDE DEF cloud
<1> QED BY <1>1, <1>2, <1>3, <1>6, <1>7

\* Sorting keeps the points and puts their times in order.
LEMMA ByTimePoints ==
  ASSUME NEW P, NEW cloud \in Seq(P), NEW sorted \in ByTime(cloud)
  PROVE  /\ sorted \in Seq(P) /\ Len(sorted) = Len(cloud)
         /\ \A k, l \in 1 .. Len(sorted) : k < l => sorted[k].time <= sorted[l].time
<1> DEFINE n == Len(cloud)
<1>1. n \in Nat /\ DOMAIN cloud = 1 .. n /\ \A k \in 1 .. n : cloud[k] \in P
  OBVIOUS
<1>2. PICK p \in SetToSeqs(1 .. n) : sorted = [k \in 1 .. n |-> cloud[p[k]]]
  BY <1>1 DEF ByTime
<1>3. \A k, l \in DOMAIN sorted : k < l => sorted[k].time <= sorted[l].time
  BY DEF ByTime
<1> HIDE DEF n
<1>4. p \in [1 .. n -> 1 .. n]
  <2>1. Cardinality(1 .. n) = n
    BY <1>1, FS_Interval
  <2> QED BY <2>1 DEF SetToSeqs
<1>5. sorted \in [1 .. n -> P]
  BY <1>1, <1>2, <1>4
<1>6. sorted \in Seq(P) /\ Len(sorted) = n /\ DOMAIN sorted = 1 .. n
  BY <1>1, <1>5
<1> QED BY <1>3, <1>6 DEF n

YawTime(s, i, f) ==
  IF SameRingBefore(s, i) = {} THEN 0
  ELSE LET since == (s[Min(SameRingBefore(s, i))].yaw - s[i].yaw) % Turn
       IN  IF since < f[Max(SameRingBefore(s, i))] THEN since + Turn ELSE since

LEMMA TurnedBy ==
  ASSUME NEW a \in Int
  PROVE  a % Turn \in Nat /\ (a % Turn) + Turn \in Nat
BY TimeAssumption, Z3

\* Points timed by their yaw have times.
LEMMA YawEquation ==
  ASSUME NEW s \in Scans
  PROVE  YawTimes(s) \in [1 .. Len(s) -> Nat]
<1> DEFINE S == 1 .. Len(s)
           rank == [i \in S |-> i]
           D == [i \in S |-> [f \in [S -> Nat] |-> YawTime(s, i, f)]]
<1>1. /\ Len(s) \in Nat /\ DOMAIN s = S
      /\ \A i \in S : s[i].yaw \in 0 .. Turn - 1 /\ s[i].yaw \in Int
  BY ScanPoints
<1>2. ASSUME NEW i \in S, SameRingBefore(s, i) # {}
      PROVE  /\ Min(SameRingBefore(s, i)) \in S
             /\ Max(SameRingBefore(s, i)) \in S /\ Max(SameRingBefore(s, i)) < i
  <2>1. SameRingBefore(s, i) \in SUBSET (0 .. Len(s)) /\ SameRingBefore(s, i) \in SUBSET Nat
    BY <1>1 DEF SameRingBefore
  <2>2. Min(SameRingBefore(s, i)) \in SameRingBefore(s, i)
    BY <1>2, <2>1, MinIsLeast
  <2>3. Max(SameRingBefore(s, i)) \in SameRingBefore(s, i)
    BY <1>1, <1>2, <2>1, MaxIsGreatest
  <2> QED BY <1>1, <2>2, <2>3 DEF SameRingBefore
<1>3. ASSUME NEW i \in S, NEW f PROVE YawTime(s, i, f) \in Nat
  <2>1. CASE SameRingBefore(s, i) = {}
    BY <2>1 DEF YawTime
  <2>2. CASE SameRingBefore(s, i) # {}
    <3>1. s[Min(SameRingBefore(s, i))].yaw - s[i].yaw \in Int
      BY <1>1, <1>2, <2>2
    <3> QED BY <2>2, <3>1, TurnedBy DEF YawTime
  <2> QED BY <2>1, <2>2
<1>4. Recursive(S, rank, Len(s), Nat, D)
  <2>1. rank \in [S -> Nat] /\ \A i \in S : rank[i] <= Len(s)
    BY <1>1
  <2>2. Nat # {}
    BY 0 \in Nat
  <2>3. D \in [S -> [[S -> Nat] -> Nat]]
    BY <1>3
  <2>4. ASSUME NEW i \in S, NEW f \in [S -> Nat], NEW g \in [S -> Nat],
               \A r \in S : rank[r] < rank[i] => f[r] = g[r]
        PROVE  D[i][f] = D[i][g]
    <3>1. SameRingBefore(s, i) # {} =>
            f[Max(SameRingBefore(s, i))] = g[Max(SameRingBefore(s, i))]
      BY <1>2, <2>4
    <3>2. YawTime(s, i, f) = YawTime(s, i, g)
      BY <3>1 DEF YawTime
    <3> QED BY <3>2
  <2>5. \A i \in S : \A f, g \in [S -> Nat] :
          (\A r \in S : rank[r] < rank[i] => f[r] = g[r]) => D[i][f] = D[i][g]
    BY <2>4
  <2> HIDE DEF D, rank, S
  <2> QED BY ONLY <1>1, <2>1, <2>2, <2>3, <2>5 DEF Recursive
<1>5. PICK f \in [S -> Nat] : \A i \in S : f[i] = YawTime(s, i, f)
  <2> HIDE DEF rank
  <2>1. \E f \in [S -> Nat] : \A i \in S : f[i] = D[i][f]
    <3> HIDE DEF D, S
    <3> QED BY ONLY <1>4, Recursion
  <2> QED BY <2>1
<1>6. f = [i \in DOMAIN s |-> YawTime(s, i, f)]
  BY <1>1, <1>5
<1> DEFINE t == YawTimes(s)
<1>7. t = [i \in DOMAIN s |-> YawTime(s, i, t)]
  BY <1>6 DEF YawTimes, YawTime
<1> HIDE DEF t
<1> QED BY <1>1, <1>3, <1>7 DEF t

\* Numbers that never go down from one to the next never go down at all.
LEMMA NeverDown ==
  ASSUME NEW n \in Nat, NEW f \in [1 .. n -> Nat],
         \A i \in 1 .. n : i # 1 => f[i - 1] <= f[i]
  PROVE  \A i, j \in 1 .. n : i <= j => f[i] <= f[j]
<1> DEFINE Bad == {j \in 1 .. n : \E i \in 1 .. j : ~(f[i] <= f[j])}
<1>1. SUFFICES Bad = {}
  <2>1. ASSUME NEW i \in 1 .. n, NEW j \in 1 .. n, i <= j PROVE f[i] <= f[j]
    <3>1. i \in 1 .. j
      BY <2>1
    <3>2. j \notin Bad
      BY <1>1
    <3> QED BY <3>1, <3>2
  <2> QED BY <2>1
<1>2. SUFFICES ASSUME Bad # {} PROVE FALSE
  OBVIOUS
<1>3. PICK b \in Bad : \A m \in Bad : b <= m
  <2>1. Bad \in SUBSET Nat
    OBVIOUS
  <2> HIDE DEF Bad
  <2> QED BY <1>2, <2>1, LeastMember
<1>4. PICK i \in 1 .. b : ~(f[i] <= f[b])
  OBVIOUS
<1>5. f[b] \in Nat /\ f[i] \in Nat
  OBVIOUS
<1>6. i # b
  BY <1>4, <1>5
<1>7. b - 1 \in 1 .. n /\ i \in 1 .. b - 1 /\ b # 1
  BY <1>6
<1>8. ~(b <= b - 1)
  BY <1>7
<1>9. b - 1 \notin Bad
  BY <1>3, <1>8
<1>10. f[i] <= f[b - 1] /\ f[b - 1] \in Nat
  BY <1>7, <1>9
<1>11. f[b - 1] <= f[b]
  BY <1>7
<1> QED BY <1>4, <1>5, <1>10, <1>11

Ordered(s) == \A i, j \in DOMAIN s : i <= j => s[i].offset_time <= s[j].offset_time

\* Sent in order and taken whole, the avia's points are never late and in order.
LEMMA AviaInOrder ==
  ASSUME NEW s \in Scans, OnLine(s) = DOMAIN s, Ordered(s)
  PROVE  /\ \A i \in 1 .. Len(s) : AviaTimes(s)[i] <= s[i].offset_time
         /\ \A i, j \in 1 .. Len(s) : i <= j => AviaTimes(s)[i] <= AviaTimes(s)[j]
<1> DEFINE n == Len(s)
           t == AviaTimes(s)
           off == [i \in 1 .. n |-> s[i].offset_time]
           Bad == {i \in 1 .. n : ~(t[i] <= off[i])}
<1>1. /\ n \in Nat /\ DOMAIN s = 1 .. n
      /\ \A i \in 1 .. n : s[i].offset_time \in Nat
  BY ScanPoints
<1>2. /\ t \in [1 .. n -> Nat]
      /\ \A i \in 1 .. n : t[i] = AviaTime(s, i, AviaBefore(t, i))
  BY AviaEquation
<1> HIDE DEF t
<1>3. off \in [1 .. n -> Nat] /\ \A i \in 1 .. n : off[i] = s[i].offset_time
  BY <1>1
<1>4. \A i, j \in 1 .. n : i <= j => off[i] <= off[j]
  BY <1>1, <1>3 DEF Ordered
<1> HIDE DEF off, n
<1>5. ASSUME NEW i \in 1 .. n
      PROVE  t[i] = IF ~FarApart(off[i], AviaBefore(t, i)) THEN off[i]
                    ELSE IF i = 1 THEN 0 ELSE AviaBefore(t, i) + 1
  BY <1>1, <1>2, <1>3 DEF AviaTime
<1>6. Gap \in Nat /\ Gap >= 1
  BY TimeAssumption
<1>7. ASSUME NEW i \in 1 .. n, i # 1, t[i - 1] <= off[i - 1]
      PROVE  t[i] <= off[i] /\ t[i - 1] <= t[i]
  <2>1. i \in 1 .. n /\ i - 1 \in 1 .. n /\ i - 1 <= i
    BY <1>1, <1>7
  <2>2. off[i - 1] <= off[i]
    BY <1>4, <2>1
  <2>3. t[i] = IF ~FarApart(off[i], t[i - 1]) THEN off[i] ELSE t[i - 1] + 1
    BY <1>5, <1>7 DEF AviaBefore
  <2>4. t[i - 1] \in Nat /\ off[i] \in Nat /\ off[i - 1] \in Nat
    BY <1>2, <1>3, <2>1
  <2>5. t[i - 1] <= off[i]
    BY <1>7, <2>2, <2>4
  <2>6. CASE ~FarApart(off[i], t[i - 1])
    BY <2>3, <2>4, <2>5, <2>6
  <2>7. CASE FarApart(off[i], t[i - 1])
    <3>1. off[i] - t[i - 1] >= Gap
      BY <1>6, <2>4, <2>5, <2>7 DEF FarApart
    <3>2. t[i - 1] + 1 <= off[i]
      BY <1>6, <2>4, <3>1
    <3> QED BY <2>3, <2>4, <2>7, <3>2
  <2> QED BY <2>6, <2>7
<1>8. Bad = {}
  <2> SUFFICES ASSUME Bad # {} PROVE FALSE
    OBVIOUS
  <2>1. PICK b \in Bad : \A m \in Bad : b <= m
    <3>1. Bad \in SUBSET Nat
      OBVIOUS
    <3> HIDE DEF Bad
    <3> QED BY <3>1, LeastMember
  <2>2. b \in 1 .. n /\ ~(t[b] <= off[b])
    OBVIOUS
  <2>3. CASE b = 1
    <3>1. t[1] = off[1] \/ t[1] = 0
      BY <1>5, <2>2, <2>3
    <3>2. off[1] \in Nat
      BY <1>3, <2>2, <2>3
    <3> QED BY <2>2, <2>3, <3>1, <3>2
  <2>4. CASE b # 1
    <3>1. b - 1 \in 1 .. n /\ ~(b <= b - 1)
      BY <1>1, <2>2, <2>4
    <3>2. t[b - 1] <= off[b - 1]
      BY <2>1, <3>1
    <3> QED BY <1>7, <2>2, <2>4, <3>2
  <2> QED BY <2>3, <2>4
<1>9. \A i \in 1 .. n : t[i] <= off[i]
  BY <1>8
<1>10. \A i \in 1 .. n : i # 1 => t[i - 1] <= t[i]
  <2> SUFFICES ASSUME NEW i \in 1 .. n, i # 1 PROVE t[i - 1] <= t[i]
    OBVIOUS
  <2>1. i - 1 \in 1 .. n
    BY <1>1
  <2> QED BY <1>7, <1>9, <2>1
<1>11. \A i, j \in 1 .. n : i <= j => t[i] <= t[j]
  BY <1>1, <1>2, <1>10, NeverDown
<1> QED BY <1>3, <1>9, <1>11 DEF t, n

\* Without a hole in the scan up to a point, every point up to it keeps its time.
LEMMA AviaOnTime ==
  ASSUME NEW s \in Scans, OnLine(s) = DOMAIN s, NEW n \in 1 .. Len(s),
         \A i \in 1 .. n :
           ~FarApart(s[i].offset_time, IF i = 1 THEN 0 ELSE s[i - 1].offset_time)
  PROVE  AviaTimes(s)[n] = s[n].offset_time
<1> DEFINE t == AviaTimes(s)
           Bad == {i \in 1 .. n : t[i] # s[i].offset_time}
<1>1. Len(s) \in Nat /\ DOMAIN s = 1 .. Len(s) /\ n \in 1 .. n
  BY ScanPoints
<1>2. \A i \in 1 .. Len(s) : t[i] = AviaTime(s, i, AviaBefore(t, i))
  BY AviaEquation
<1> HIDE DEF t
<1>3. SUFFICES ASSUME Bad # {} PROVE FALSE
  BY <1>1 DEF t
<1>4. PICK b \in Bad : \A m \in Bad : b <= m
  <2>1. Bad \in SUBSET Nat
    OBVIOUS
  <2> HIDE DEF Bad
  <2> QED BY <1>3, <2>1, LeastMember
<1>5. b \in 1 .. n /\ b \in 1 .. Len(s) /\ t[b] # s[b].offset_time
  BY <1>1
<1>6. AviaBefore(t, b) = IF b = 1 THEN 0 ELSE s[b - 1].offset_time
  <2>1. CASE b = 1
    BY <2>1 DEF AviaBefore
  <2>2. CASE b # 1
    <3>1. b - 1 \in 1 .. n /\ ~(b <= b - 1)
      BY <1>5, <2>2
    <3>2. t[b - 1] = s[b - 1].offset_time
      BY <1>4, <3>1
    <3> QED BY <2>2, <3>2 DEF AviaBefore
  <2> QED BY <2>1, <2>2
<1>7. ~FarApart(s[b].offset_time, AviaBefore(t, b))
  BY <1>5, <1>6
<1>8. t[b] = s[b].offset_time
  BY <1>1, <1>2, <1>5, <1>7 DEF AviaTime
<1> QED BY <1>5, <1>8

\* The order of a cloud's times that the undistortion relies on.
InTimeOrder(cloud) == \A i, j \in DOMAIN cloud : i <= j => cloud[i].time <= cloud[j].time

\* Times that are in order for the scan are in order for the cloud.
LEMMA CloudInOrder ==
  ASSUME NEW n \in Nat, NEW kept \in SUBSET (1 .. n), NEW time \in [1 .. n -> Nat],
         \A i, j \in 1 .. n : i <= j => time[i] <= time[j]
  PROVE  InTimeOrder(Cloud(kept, time))
<1> DEFINE c == Cloud(kept, time)
<1>1. /\ c \in Seq([time : Nat, number : 1 .. n])
      /\ Len(c) \in Nat
      /\ \A k \in 1 .. Len(c) : c[k].number \in kept /\ c[k].time = time[c[k].number]
      /\ \A k, l \in 1 .. Len(c) : k < l => c[k].number < c[l].number
  BY CloudPoints
<1> HIDE DEF c
<1>2. DOMAIN c = 1 .. Len(c)
  BY <1>1
<1>3. ASSUME NEW k \in 1 .. Len(c), NEW l \in 1 .. Len(c), k <= l
      PROVE  c[k].time <= c[l].time
  <2>1. /\ c[k].number \in 1 .. n /\ c[l].number \in 1 .. n
        /\ c[k].time = time[c[k].number] /\ c[l].time = time[c[l].number]
    BY <1>1
  <2>2. c[k].number <= c[l].number
    <3>1. CASE k < l
      <4>1. c[k].number < c[l].number
        BY <1>1, <3>1
      <4> QED BY <2>1, <4>1
    <3>2. CASE k = l
      BY <2>1, <3>2
    <3> QED BY <1>1, <1>3, <3>1, <3>2
  <2> QED BY <2>1, <2>2
<1> QED BY <1>2, <1>3 DEF InTimeOrder, c

\* What the handlers keep are points of the scan, with times.
LEMMA HandlerTimes ==
  ASSUME NEW s \in Scans
  PROVE  /\ Len(s) \in Nat /\ DOMAIN s = 1 .. Len(s)
         /\ Offsets(s) \in [1 .. Len(s) -> Nat]
         /\ FromFirst(s) \in [1 .. Len(s) -> Nat]
         /\ [i \in DOMAIN s |-> 0] \in [1 .. Len(s) -> Nat]
         /\ EveryNth(s) \cap Seen(s) \in SUBSET (1 .. Len(s))
<1>1. /\ Len(s) \in Nat /\ DOMAIN s = 1 .. Len(s)
      /\ \A i \in 1 .. Len(s) :
           s[i].offset_time \in Nat /\ s[1].offset_time <= s[i].offset_time
  BY ScanPoints
<1>2. Offsets(s) \in [1 .. Len(s) -> Nat]
  BY <1>1 DEF Offsets
<1>3. \A i \in 1 .. Len(s) : s[i].offset_time - s[1].offset_time \in Nat
  <2> SUFFICES ASSUME NEW i \in 1 .. Len(s)
               PROVE  s[i].offset_time - s[1].offset_time \in Nat
    OBVIOUS
  <2>1. 1 \in 1 .. Len(s)
    BY <1>1
  <2> QED BY <1>1, <2>1
<1>4. FromFirst(s) \in [1 .. Len(s) -> Nat]
  BY <1>1, <1>3 DEF FromFirst
<1> QED BY <1>1, <1>2, <1>4 DEF EveryNth, Seen

\* A sorted cloud is in order, and its points are the handler's.
LEMMA SortedCloud ==
  ASSUME NEW n \in Nat, NEW kept \in SUBSET (1 .. n), NEW time \in [1 .. n -> Nat],
         NEW c \in ByTime(Cloud(kept, time))
  PROVE  c \in Seq([time : Nat, number : 1 .. n]) /\ InTimeOrder(c)
<1> DEFINE P == [time : Nat, number : 1 .. n]
<1>1. Cloud(kept, time) \in Seq(P)
  BY CloudPoints
<1>2. c \in Seq(P) /\ \A k, l \in 1 .. Len(c) : k < l => c[k].time <= c[l].time
  <2> HIDE DEF P
  <2> QED BY <1>1, ByTimePoints
<1>3. /\ Len(c) \in Nat /\ DOMAIN c = 1 .. Len(c)
      /\ \A k \in 1 .. Len(c) : c[k].time \in Nat
  <2>1. \A p \in P : p.time \in Nat
    OBVIOUS
  <2> HIDE DEF P
  <2> QED BY <1>2, <2>1
<1>4. ASSUME NEW k \in 1 .. Len(c), NEW l \in 1 .. Len(c), k <= l
      PROVE  c[k].time <= c[l].time
  <2>1. CASE k < l
    BY <1>2, <2>1
  <2>2. CASE k = l
    BY <1>3, <2>2
  <2> QED BY <1>3, <1>4, <2>1, <2>2
<1> QED BY <1>2, <1>3, <1>4 DEF InTimeOrder

\* The clouds that come of a scan: points of it with times, in order where trusted.
LEMMA ProcessPoints ==
  ASSUME lidar_type \in LidarTypes, NEW s \in Scans, NEW c \in Process(s)
  PROVE  /\ c \in Seq([time : Nat, number : DOMAIN s])
         /\ lidar_type = "AVIA" => c = AviaHandler(s)
         /\ lidar_type \in {"OUST64", "PANDAR128", "ROBOSENSE", "L515"} => InTimeOrder(c)
<1> DEFINE n == Len(s)
           kept == EveryNth(s) \cap Seen(s)
<1>1. /\ n \in Nat /\ DOMAIN s = 1 .. n
      /\ Offsets(s) \in [1 .. n -> Nat]
      /\ FromFirst(s) \in [1 .. n -> Nat]
      /\ [i \in DOMAIN s |-> 0] \in [1 .. n -> Nat]
      /\ kept \in SUBSET (1 .. n)
  BY HandlerTimes
<1>2. \/ lidar_type = "AVIA" /\ c = AviaHandler(s)
      \/ lidar_type = "VELO16" /\ c = VelodyneHandler(s)
      \/ lidar_type = "L515" /\ c = L515Handler(s)
      \/ lidar_type = "OUST64" /\ c \in OusterHandler(s)
      \/ lidar_type = "PANDAR128" /\ c \in PandarHandler(s)
      \/ lidar_type = "XT32" /\ c = Xt32Handler(s)
      \/ lidar_type = "ROBOSENSE" /\ c \in RobosenseHandler(s)
  BY LidarTypesAssumption DEF Process
<1>3. CASE lidar_type = "AVIA" /\ c = AviaHandler(s)
  <2>1. AviaTimes(s) \in [1 .. n -> Nat]
    BY AviaEquation
  <2>2. PICK k \in SUBSET (1 .. n) : c = Cloud(k, AviaTimes(s))
    <3>1. OnLine(s) \cap Seen(s) \in SUBSET (1 .. n)
      BY <1>1 DEF OnLine, Seen
    <3> QED BY <1>3, <3>1 DEF AviaHandler
  <2>3. c \in Seq([time : Nat, number : 1 .. n])
    BY <1>1, <2>1, <2>2, CloudPoints
  <2> QED BY <1>1, <1>3, <2>3
<1>4. CASE lidar_type = "VELO16" /\ c = VelodyneHandler(s)
  <2>1. CASE s = <<>>
    BY <1>4, <2>1 DEF VelodyneHandler
  <2>2. CASE s # <<>> /\ GivenOffsetTime(s)
    <3>1. c = Cloud(kept, Offsets(s))
      BY <1>4, <2>2 DEF VelodyneHandler
    <3>2. c \in Seq([time : Nat, number : 1 .. n])
      BY <1>1, <3>1, CloudPoints
    <3> QED BY <1>1, <1>4, <3>2
  <2>3. CASE s # <<>> /\ ~GivenOffsetTime(s)
    <3>1. c = Cloud({i \in kept : SameRingBefore(s, i) # {}}, YawTimes(s))
      BY <1>4, <2>3 DEF VelodyneHandler
    <3>2. {i \in kept : SameRingBefore(s, i) # {}} \in SUBSET (1 .. n)
      BY <1>1
    <3>3. YawTimes(s) \in [1 .. n -> Nat]
      BY YawEquation
    <3>4. c \in Seq([time : Nat, number : 1 .. n])
      BY <1>1, <3>1, <3>2, <3>3, CloudPoints
    <3> QED BY <1>1, <1>4, <3>4
  <2> QED BY <2>1, <2>2, <2>3
<1>5. CASE lidar_type = "L515" /\ c = L515Handler(s)
  <2> DEFINE zero == [i \in DOMAIN s |-> 0]
  <2>1. c = Cloud(kept, zero)
    BY <1>5 DEF L515Handler
  <2>2. \A i, j \in 1 .. n : i <= j => zero[i] <= zero[j]
    BY <1>1
  <2>3. zero \in [1 .. n -> Nat]
    BY <1>1
  <2> HIDE DEF zero, kept, n
  <2>4. c \in Seq([time : Nat, number : 1 .. n]) /\ InTimeOrder(c)
    BY <1>1, <2>1, <2>2, <2>3, CloudPoints, CloudInOrder
  <2> QED BY <1>1, <1>5, <2>4
<1>6. CASE lidar_type = "OUST64" /\ c \in OusterHandler(s)
  <2>1. c \in ByTime(Cloud(kept, Offsets(s)))
    BY <1>6 DEF OusterHandler
  <2> HIDE DEF kept, n
  <2>2. c \in Seq([time : Nat, number : 1 .. n]) /\ InTimeOrder(c)
    BY <1>1, <2>1, SortedCloud
  <2> QED BY <1>1, <1>6, <2>2
<1>7. CASE \/ lidar_type = "PANDAR128" /\ c \in PandarHandler(s)
           \/ lidar_type = "ROBOSENSE" /\ c \in RobosenseHandler(s)
  <2>1. c \in ByTime(Cloud(kept, FromFirst(s)))
    BY <1>7 DEF PandarHandler, RobosenseHandler
  <2> HIDE DEF kept, n
  <2>2. c \in Seq([time : Nat, number : 1 .. n]) /\ InTimeOrder(c)
    BY <1>1, <2>1, SortedCloud
  <2> QED BY <1>1, <1>7, <2>2
<1>8. CASE lidar_type = "XT32" /\ c = Xt32Handler(s)
  <2>1. c = Cloud(kept, FromFirst(s))
    BY <1>8 DEF Xt32Handler
  <2>2. c \in Seq([time : Nat, number : 1 .. n])
    BY <1>1, <2>1, CloudPoints
  <2> QED BY <1>1, <1>8, <2>2
<1> QED BY <1>2, <1>3, <1>4, <1>5, <1>6, <1>7, <1>8

\* The samples of a frame: one from before it, the others from it, in order.
Samplings(begin, end) ==
  {v \in Seq(Nat) :
     /\ Len(v) >= 1
     /\ v[1] <= begin
     /\ \A i \in 2 .. Len(v) : begin < v[i] /\ v[i] <= end
     /\ \A i, j \in 1 .. Len(v) : i < j => v[i] < v[j]}

LEMMA SamplesOfFrame ==
  ASSUME drained \in Nat, last_imu \in Nat, last_imu <= drained,
         NEW end \in Nat, drained <= end,
         NEW samples \in SUBSET SamplesUpTo(end)
  PROVE  WithLast(samples) \in Samplings(drained, end)
<1> DEFINE a == Ascending(samples)
           c == Cardinality(samples)
           v == WithLast(samples)
<1>1. /\ c \in Nat /\ a \in [1 .. c -> samples]
      /\ \A k, l \in 1 .. c : k < l => a[k] < a[l]
  <2>1. samples \in SUBSET (0 .. end)
    BY DEF SamplesUpTo
  <2> QED BY <2>1, AscendingOrder
<1>2. \A t \in samples : t \in Nat /\ drained < t /\ t <= end
  BY DEF SamplesUpTo
<1>3. v = <<last_imu>> \o a
  BY DEF WithLast
<1> HIDE DEF a, c, v
<1>4. a \in Seq(Nat) /\ Len(a) = c /\ \A k \in 1 .. c : a[k] \in samples
  <2>1. a \in [1 .. c -> Nat]
    BY <1>1, <1>2
  <2> QED BY <1>1, <2>1
<1>5. <<last_imu>> \in Seq(Nat) /\ Len(<<last_imu>>) = 1 /\ <<last_imu>>[1] = last_imu
  OBVIOUS
<1>6. /\ v \in Seq(Nat) /\ Len(v) = c + 1 /\ v[1] = last_imu
      /\ \A i \in 2 .. c + 1 : v[i] = a[i - 1]
  <2>1. v \in Seq(Nat) /\ Len(v) = c + 1
    BY <1>1, <1>3, <1>4, <1>5
  <2>2. \A i \in 1 .. c + 1 : v[i] = IF i <= 1 THEN <<last_imu>>[i] ELSE a[i - 1]
    BY <1>1, <1>3, <1>4, <1>5
  <2>3. 1 \in 1 .. c + 1
    BY <1>1
  <2>4. v[1] = last_imu
    BY <1>5, <2>2, <2>3
  <2>5. \A i \in 2 .. c + 1 : v[i] = a[i - 1]
    BY <1>1, <2>2
  <2> QED BY <2>1, <2>4, <2>5
<1>7. \A i \in 2 .. c + 1 : i - 1 \in 1 .. c
  BY <1>1
<1>8. \A i \in 2 .. c + 1 : v[i] \in Nat /\ drained < v[i] /\ v[i] <= end
  BY <1>2, <1>4, <1>6, <1>7
<1>9. ASSUME NEW i \in 1 .. c + 1, NEW j \in 1 .. c + 1, i < j PROVE v[i] < v[j]
  <2>1. j \in 2 .. c + 1
    BY <1>1, <1>9
  <2>2. CASE i = 1
    BY <1>6, <1>8, <2>1, <2>2
  <2>3. CASE i # 1
    <3>1. i \in 2 .. c + 1 /\ i - 1 < j - 1
      BY <1>1, <1>9, <2>3
    <3>2. a[i - 1] < a[j - 1]
      BY <1>1, <1>7, <2>1, <3>1
    <3> QED BY <1>6, <2>1, <3>1, <3>2
  <2> QED BY <2>2, <2>3
<1>10. Len(v) >= 1
  BY <1>1, <1>6
<1> QED BY <1>6, <1>8, <1>9, <1>10 DEF Samplings, v

\* The partial sums behind Integrated.
LEMMA PartialSums ==
  ASSUME NEW n \in Nat, NEW term \in [1 .. n -> Int]
  PROVE  \E sum \in [0 .. n -> Int] :
           sum = [i \in 0 .. n |-> IF i = 0 THEN 0 ELSE sum[i - 1] + term[i]]
<1> DEFINE S == 0 .. n
           rank == [i \in S |-> i]
           D == [i \in S |-> [f \in [S -> Int] |-> IF i = 0 THEN 0 ELSE f[i - 1] + term[i]]]
<1>1. \A i \in S : i # 0 => i - 1 \in S /\ i \in 1 .. n /\ term[i] \in Int
  OBVIOUS
<1>2. Recursive(S, rank, n, Int, D)
  <2>1. rank \in [S -> Nat] /\ \A i \in S : rank[i] <= n
    OBVIOUS
  <2>2. Int # {}
    BY 0 \in Int
  <2>3. D \in [S -> [[S -> Int] -> Int]]
    <3>1. \A i \in S : \A f \in [S -> Int] :
            (IF i = 0 THEN 0 ELSE f[i - 1] + term[i]) \in Int
      BY <1>1
    <3> QED BY <3>1
  <2>4. ASSUME NEW i \in S, NEW f \in [S -> Int], NEW g \in [S -> Int],
               \A r \in S : rank[r] < rank[i] => f[r] = g[r]
        PROVE  D[i][f] = D[i][g]
    <3>1. CASE i = 0
      BY <3>1
    <3>2. CASE i # 0
      <4>1. i - 1 \in S /\ rank[i - 1] < rank[i]
        BY <1>1, <3>2
      <4>2. f[i - 1] = g[i - 1]
        BY <2>4, <4>1
      <4> QED BY <3>2, <4>2
    <3> QED BY <3>1, <3>2
  <2>5. \A i \in S : \A f, g \in [S -> Int] :
          (\A r \in S : rank[r] < rank[i] => f[r] = g[r]) => D[i][f] = D[i][g]
    BY <2>4
  <2> HIDE DEF D, rank, S
  <2> QED BY ONLY <2>1, <2>2, <2>3, <2>5, n \in Nat DEF Recursive
<1>3. PICK f \in [S -> Int] : \A i \in S : f[i] = IF i = 0 THEN 0 ELSE f[i - 1] + term[i]
  <2> HIDE DEF rank
  <2>1. \E f \in [S -> Int] : \A i \in S : f[i] = D[i][f]
    <3> HIDE DEF D, S
    <3> QED BY ONLY <1>2, Recursion
  <2> QED BY <2>1
<1>4. f = [i \in 0 .. n |-> IF i = 0 THEN 0 ELSE f[i - 1] + term[i]]
  BY <1>3
<1> QED BY <1>3, <1>4

\* Integrated adds up the steps of the pairs.
LEMMA IntegratedIsSum ==
  ASSUME last_prop_end_time \in Int, NEW end \in Nat, NEW v \in Seq(Nat), Len(v) >= 1
  PROVE  \E sum \in [0 .. Len(v) - 1 -> Int] :
           /\ sum[0] = 0
           /\ \A i \in 1 .. Len(v) - 1 :
                sum[i] = sum[i - 1] + (IF i \in Pairs(v) THEN Step(v, i, end) ELSE 0)
           /\ Integrated(v, end) = sum[Len(v) - 1]
<1> DEFINE n == Len(v) - 1
           T(i) == IF i \in Pairs(v) THEN Step(v, i, end) ELSE 0
           term == [i \in 1 .. n |-> T(i)]
           Sums(f) == f = [i \in 0 .. n |-> IF i = 0 THEN 0 ELSE f[i - 1] + T(i)]
<1>1. n \in Nat
  OBVIOUS
<1>2. term \in [1 .. n -> Int]
  <2> SUFFICES ASSUME NEW i \in 1 .. n PROVE T(i) \in Int
    OBVIOUS
  <2>1. v[i] \in Int /\ v[i + 1] \in Int
    <3>1. i \in 1 .. Len(v) /\ i + 1 \in 1 .. Len(v)
      BY <1>1
    <3> QED BY <3>1
  <2> QED BY <2>1 DEF Step
<1>3. PICK f \in [0 .. n -> Int] :
        f = [i \in 0 .. n |-> IF i = 0 THEN 0 ELSE f[i - 1] + term[i]]
  <2> HIDE DEF n, term
  <2> QED BY <1>1, <1>2, PartialSums
<1>4. Sums(f)
  <2> HIDE DEF T
  <2>1. \A i \in 0 .. n : i # 0 => term[i] = T(i)
    <3>1. \A i \in 0 .. n : i # 0 => i \in 1 .. n
      BY <1>1
    <3> QED BY <3>1
  <2> HIDE DEF term, n
  <2> QED BY <1>3, <2>1
<1>5. \E g : Sums(g) /\ Integrated(v, end) = g[n]
  BY <1>4 DEF Integrated
<1>6. PICK g : Sums(g) /\ Integrated(v, end) = g[n]
  BY <1>5
<1> HIDE DEF T
<1>7. \A i \in 1 .. n : g[i] = g[i - 1] + T(i)
  BY <1>1, <1>6
<1>8. g[0] = 0
  BY <1>1, <1>6
<1>9. \A i \in 1 .. n : T(i) \in Int
  BY <1>2
<1>10. \A i \in 0 .. n : g[i] \in Int
  <2> DEFINE Bad == {i \in 0 .. n : g[i] \notin Int}
  <2>1. SUFFICES ASSUME Bad # {} PROVE FALSE
    OBVIOUS
  <2>2. PICK b \in Bad : \A m \in Bad : b <= m
    <3>1. Bad \in SUBSET Nat
      BY <1>1
    <3> HIDE DEF Bad
    <3> QED BY <2>1, <3>1, LeastMember
  <2>3. b \in 0 .. n /\ g[b] \notin Int
    OBVIOUS
  <2>4. b # 0
    BY <1>8, <2>3
  <2>5. b - 1 \in 0 .. n /\ b \in 1 .. n /\ ~(b <= b - 1)
    BY <1>1, <2>3, <2>4
  <2>6. g[b - 1] \in Int
    BY <2>2, <2>5
  <2> QED BY <1>7, <1>9, <2>3, <2>5, <2>6
<1>11. g \in [0 .. n -> Int]
  BY <1>6, <1>10
<1> QED BY <1>6, <1>7, <1>8, <1>11 DEF T

\* The poses of a frame, one for each pair of samples that is integrated.
LEMMA PosesOfFrame ==
  ASSUME last_prop_end_time \in Int, NEW end \in Nat, NEW v \in Seq(Nat), Len(v) >= 1
  PROVE  /\ Poses(v, end) \in Seq(Int)
         /\ Len(Poses(v, end)) = Cardinality(Pairs(v))
         /\ \A k \in 1 .. Cardinality(Pairs(v)) :
              Poses(v, end)[k] = OffsetTime(v, Ascending(Pairs(v))[k], end)
<1> DEFINE a == Ascending(Pairs(v))
           c == Cardinality(Pairs(v))
           n == Len(v) - 1
           O(i) == OffsetTime(v, i, end)
           p == [k \in 1 .. c |-> O(a[k])]
<1>1. n \in Nat /\ Pairs(v) \in SUBSET (1 .. n)
  BY DEF Pairs
<1>2. c \in Nat /\ a \in [1 .. c -> Pairs(v)]
  <2>1. Pairs(v) \in SUBSET (0 .. n)
    BY <1>1
  <2> HIDE DEF n
  <2> QED BY <1>1, <2>1, AscendingOrder
<1>3. \A i \in 1 .. n : O(i) \in Int
  <2> SUFFICES ASSUME NEW i \in 1 .. n PROVE O(i) \in Int
    OBVIOUS
  <2>1. v[i] \in Int /\ v[i + 1] \in Int
    <3>1. i \in 1 .. Len(v) /\ i + 1 \in 1 .. Len(v)
      BY <1>1
    <3> QED BY <3>1
  <2> QED BY <2>1 DEF OffsetTime
<1>4. Poses(v, end) = p
  <2>1. DOMAIN a = 1 .. c
    BY <1>2
  <2> QED BY <2>1 DEF Poses
<1> HIDE DEF a, c, n, O
<1>5. p \in [1 .. c -> Int]
  BY <1>1, <1>2, <1>3
<1>6. p \in Seq(Int) /\ Len(p) = c
  <2> HIDE DEF p
  <2> QED BY <1>2, <1>5
<1> QED BY <1>4, <1>6 DEF O, a, c

\* A frame that begins where the last one ended uses all pairs of its samples.
LEMMA AllPairs ==
  ASSUME last_prop_end_time \in Nat, NEW end \in Nat,
         NEW v \in Samplings(last_prop_end_time, end)
  PROVE  Pairs(v) = 1 .. Len(v) - 1
<1>1. v \in Seq(Nat) /\ \A i \in 2 .. Len(v) : last_prop_end_time < v[i]
  BY DEF Samplings
<1>2. \A i \in 1 .. Len(v) - 1 : v[i + 1] >= last_prop_end_time
  <2> SUFFICES ASSUME NEW i \in 1 .. Len(v) - 1 PROVE v[i + 1] >= last_prop_end_time
    OBVIOUS
  <2>1. i + 1 \in 2 .. Len(v) /\ v[i + 1] \in Nat
    BY <1>1
  <2> QED BY <1>1, <2>1
<1> QED BY <1>2 DEF Pairs

\* Its steps add up to its length if it has two samples, and to no more if not.
LEMMA StepsAddUp ==
  ASSUME last_prop_end_time \in Nat, NEW end \in Nat, last_prop_end_time <= end,
         NEW v \in Samplings(last_prop_end_time, end)
  PROVE  /\ Integrated(v, end) <= end - last_prop_end_time
         /\ Len(v) > 2 => Integrated(v, end) = end - last_prop_end_time
<1> DEFINE n == Len(v) - 1
           lp == last_prop_end_time
<1>1. /\ v \in Seq(Nat) /\ Len(v) >= 1
      /\ v[1] <= lp
      /\ \A i \in 2 .. Len(v) : lp < v[i] /\ v[i] <= end
  BY DEF Samplings
<1>2. n \in Nat /\ Len(v) = n + 1 /\ \A i \in 1 .. n + 1 : v[i] \in Nat
  BY <1>1
<1>3. Pairs(v) = 1 .. n
  BY AllPairs
<1>4. PICK sum \in [0 .. n -> Int] :
        /\ sum[0] = 0
        /\ \A i \in 1 .. n :
             sum[i] = sum[i - 1] + (IF i \in Pairs(v) THEN Step(v, i, end) ELSE 0)
        /\ Integrated(v, end) = sum[n]
  <2>1. last_prop_end_time \in Int
    OBVIOUS
  <2> QED BY ONLY <1>1, <2>1, end \in Nat, IntegratedIsSum
<1> HIDE DEF n
<1>5. \A i \in 1 .. n : sum[i] = sum[i - 1] + Step(v, i, end)
  BY <1>3, <1>4
<1>6. \A i \in 1 .. n : Step(v, i, end) = IF v[i] < lp THEN v[i + 1] - lp
                                          ELSE IF i < n THEN v[i + 1] - v[i] ELSE end - v[i]
  BY <1>2 DEF Step
<1>7. CASE n = 0
  BY <1>2, <1>4, <1>7
<1>8. CASE n = 1
  <2>1. 1 \in 1 .. n /\ 2 \in 2 .. Len(v) /\ v[1] \in Nat /\ v[2] \in Nat
    BY <1>2, <1>8
  <2>2. sum[1] = sum[0] + Step(v, 1, end)
    BY <1>5, <2>1
  <2>3. Step(v, 1, end) = IF v[1] < lp THEN v[2] - lp ELSE end - v[1]
    BY <1>6, <1>8, <2>1
  <2>4. v[1] <= lp /\ v[2] <= end
    BY <1>1, <2>1
  <2>5. sum[1] <= end - lp
    BY <1>4, <2>1, <2>2, <2>3, <2>4
  <2> QED BY <1>2, <1>4, <1>8, <2>5
<1>9. CASE n > 1
  <2> DEFINE Bad == {i \in 1 .. n - 1 : sum[i] # v[i + 1] - lp}
  <2>1. Bad = {}
    <3> SUFFICES ASSUME Bad # {} PROVE FALSE
      OBVIOUS
    <3>1. PICK b \in Bad : \A m \in Bad : b <= m
      <4>1. Bad \in SUBSET Nat
        BY <1>2
      <4> HIDE DEF Bad
      <4> QED BY <4>1, LeastMember
    <3>2. b \in 1 .. n - 1 /\ sum[b] # v[b + 1] - lp
      OBVIOUS
    <3>3. b \in 1 .. n /\ b < n /\ v[b] \in Nat /\ v[b + 1] \in Nat
      BY <1>2, <3>2
    <3>4. sum[b] = sum[b - 1] + Step(v, b, end)
      BY <1>5, <3>3
    <3>5. Step(v, b, end) = IF v[b] < lp THEN v[b + 1] - lp ELSE v[b + 1] - v[b]
      BY <1>6, <3>3
    <3>6. CASE b = 1
      <4>1. sum[b - 1] = 0 /\ v[b] <= lp
        BY <1>1, <1>4, <3>6
      <4>2. Step(v, b, end) = v[b + 1] - lp
        BY <3>3, <3>5, <4>1
      <4> QED BY <3>2, <3>3, <3>4, <4>1, <4>2
    <3>7. CASE b # 1
      <4>1. b - 1 \in 1 .. n - 1 /\ ~(b <= b - 1) /\ b \in 2 .. Len(v)
        BY <1>2, <3>2, <3>7
      <4>2. sum[b - 1] = v[b] - lp
        <5>1. sum[b - 1] = v[b - 1 + 1] - lp
          BY <3>1, <4>1
        <5>2. b - 1 + 1 = b
          BY <3>3
        <5> QED BY <5>1, <5>2
      <4>3. lp < v[b]
        BY <1>1, <4>1
      <4>4. Step(v, b, end) = v[b + 1] - v[b]
        BY <3>3, <3>5, <4>3
      <4> QED BY <3>2, <3>3, <3>4, <4>2, <4>4
    <3> QED BY <3>6, <3>7
  <2>2. n - 1 \in 1 .. n - 1 /\ n \in 1 .. n /\ n \in 2 .. Len(v)
    BY <1>2, <1>9
  <2>3. sum[n - 1] = v[n] - lp
    <3>1. sum[n - 1] = v[n - 1 + 1] - lp
      BY <2>1, <2>2
    <3>2. n - 1 + 1 = n
      BY <1>2
    <3> QED BY <3>1, <3>2
  <2>4. lp < v[n] /\ v[n] \in Nat
    BY <1>1, <1>2, <2>2
  <2>5. Step(v, n, end) = end - v[n]
    BY <1>2, <1>6, <2>2, <2>4
  <2>6. sum[n] = end - lp
    BY <1>5, <2>2, <2>3, <2>4, <2>5
  <2> QED BY <1>4, <2>6
<1> QED BY <1>2, <1>7, <1>8, <1>9

\* Its last pose is the one at its end.
LEMMA LastPose ==
  ASSUME last_prop_end_time \in Nat, NEW end \in Nat,
         NEW v \in Samplings(last_prop_end_time, end), Len(v) > 1
  PROVE  /\ Poses(v, end) \in Seq(Int) /\ Len(Poses(v, end)) = Len(v) - 1
         /\ Len(v) > 2 => Poses(v, end)[Len(v) - 1] = end - last_prop_end_time
<1> DEFINE n == Len(v) - 1
<1>1. /\ v \in Seq(Nat) /\ Len(v) >= 1
      /\ \A i \in 2 .. Len(v) : last_prop_end_time < v[i]
  BY DEF Samplings
<1>2. n \in Nat \ {0} /\ Len(v) = n + 1
  BY <1>1
<1>3. Pairs(v) = 1 .. n
  BY AllPairs
<1>4. /\ Poses(v, end) \in Seq(Int)
      /\ Len(Poses(v, end)) = Cardinality(Pairs(v))
      /\ \A k \in 1 .. Cardinality(Pairs(v)) :
           Poses(v, end)[k] = OffsetTime(v, Ascending(Pairs(v))[k], end)
  BY <1>1, PosesOfFrame
<1> HIDE DEF n
<1>5. Cardinality(1 .. n) = n /\ Ascending(1 .. n)[n] = n
  BY <1>2, AscendingLast
<1>6. n \in 1 .. n
  BY <1>2
<1>7. Poses(v, end)[n] = OffsetTime(v, n, end)
  BY <1>3, <1>4, <1>5, <1>6
<1>8. ASSUME Len(v) > 2 PROVE OffsetTime(v, n, end) = end - last_prop_end_time
  <2>1. n \in 2 .. Len(v) /\ v[n] \in Nat
    BY <1>1, <1>2, <1>8
  <2>2. last_prop_end_time < v[n]
    BY <1>1, <2>1
  <2>3. ~(v[n] < last_prop_end_time) /\ ~(n < Len(v) - 1)
    BY <1>2, <2>1, <2>2
  <2> QED BY <2>3 DEF OffsetTime
<1> QED BY <1>3, <1>4, <1>5, <1>7, <1>8 DEF n

\* One step of the loops over poses and points.
MoveStep(cloud, heads, f, k, i) ==
  IF k = 0 THEN {}
  ELSE IF cloud[i].time <= heads[k] THEN f[<<k - 1, i>>]
  ELSE {<<i, k>>} \cup (IF i = 1 THEN f[<<k - 1, 1>>] ELSE f[<<k, i - 1>>])

\* The loops satisfy their definition.
LEMMA MoveEquation ==
  ASSUME NEW cloud, Len(cloud) \in Nat \ {0}, NEW heads, Len(heads) \in Nat \ {0}
  PROVE  \E m \in [(0 .. Len(heads)) \X (1 .. Len(cloud)) ->
                     SUBSET ((1 .. Len(cloud)) \X (1 .. Len(heads)))] :
           /\ \A k \in 0 .. Len(heads) : \A i \in 1 .. Len(cloud) :
                m[<<k, i>>] = MoveStep(cloud, heads, m, k, i)
           /\ MoveAll(cloud, heads) = m[<<Len(heads) - 1, Len(cloud)>>]
<1> DEFINE K == Len(heads)
           n == Len(cloud)
           S == (0 .. K) \X (1 .. n)
           V == SUBSET ((1 .. n) \X (1 .. K))
           B(f, k, i) == MoveStep(cloud, heads, f, k, i)
           rank == [p \in S |-> p[1] + p[2]]
           D == [p \in S |-> [f \in [S -> V] |-> B(f, p[1], p[2])]]
<1>1. K \in Nat \ {0} /\ n \in Nat \ {0}
  OBVIOUS
<1> HIDE DEF K, n
<1>2. \A p \in S : p[1] \in 0 .. K /\ p[2] \in 1 .. n /\ p = <<p[1], p[2]>>
  OBVIOUS
<1>3. \A k \in 0 .. K : \A i \in 1 .. n :
        /\ <<k, i>> \in S
        /\ k # 0 => /\ <<k - 1, i>> \in S /\ <<k - 1, 1>> \in S
                    /\ i # 1 => <<k, i - 1>> \in S
  BY <1>1
<1>4. ASSUME NEW f \in [S -> V], NEW k \in 0 .. K, NEW i \in 1 .. n PROVE B(f, k, i) \in V
  <2>1. CASE k = 0
    BY <2>1 DEF MoveStep
  <2>2. CASE k # 0
    <3>1. /\ f[<<k - 1, i>>] \in V /\ f[<<k - 1, 1>>] \in V
          /\ i # 1 => f[<<k, i - 1>>] \in V
      BY <1>3, <2>2
    <3>2. {<<i, k>>} \in V
      BY <2>2
    <3> HIDE DEF S
    <3> QED BY <2>2, <3>1, <3>2 DEF MoveStep
  <2> QED BY <2>1, <2>2
<1>5. Recursive(S, rank, K + n, V, D)
  <2>1. rank \in [S -> Nat] /\ K + n \in Nat /\ \A p \in S : rank[p] <= K + n
    <3>1. \A p \in S : p[1] + p[2] \in Nat /\ p[1] + p[2] <= K + n
      BY <1>1, <1>2
    <3> QED BY <1>1, <3>1
  <2>2. V # {}
    <3>1. {} \in V
      OBVIOUS
    <3> HIDE DEF V
    <3> QED BY <3>1
  <2>3. D \in [S -> [[S -> V] -> V]]
    <3>1. \A p \in S : \A f \in [S -> V] : B(f, p[1], p[2]) \in V
      BY <1>2, <1>4
    <3> HIDE DEF B, S, V
    <3> QED BY <3>1
  <2>4. ASSUME NEW p \in S, NEW f \in [S -> V], NEW g \in [S -> V],
               \A r \in S : rank[r] < rank[p] => f[r] = g[r]
        PROVE  D[p][f] = D[p][g]
    <3>1. PICK k \in 0 .. K, i \in 1 .. n : p = <<k, i>> /\ p[1] = k /\ p[2] = i
      OBVIOUS
    <3>2. rank[p] = k + i
      BY <3>1
    <3>3. CASE k = 0
      BY <3>1, <3>3 DEF MoveStep
    <3>4. CASE k # 0
      <4>1. /\ f[<<k - 1, i>>] = g[<<k - 1, i>>]
            /\ i = 1 => f[<<k - 1, 1>>] = g[<<k - 1, 1>>]
        <5>1. <<k - 1, i>> \in S /\ rank[<<k - 1, i>>] = k - 1 + i
          BY <1>3, <3>4
        <5> QED BY <2>4, <3>2, <5>1
      <4>2. i # 1 => f[<<k, i - 1>>] = g[<<k, i - 1>>]
        <5>1. ASSUME i # 1 PROVE <<k, i - 1>> \in S /\ rank[<<k, i - 1>>] = k + (i - 1)
          BY <1>3, <3>4, <5>1
        <5> QED BY <2>4, <3>2, <5>1
      <4>3. B(f, k, i) = B(g, k, i)
        <5> HIDE DEF S, V
        <5> QED BY <3>4, <4>1, <4>2 DEF MoveStep
      <4> HIDE DEF B, V
      <4> QED BY <3>1, <4>3
    <3> QED BY <3>3, <3>4
  <2>5. \A p \in S : \A f, g \in [S -> V] :
          (\A r \in S : rank[r] < rank[p] => f[r] = g[r]) => D[p][f] = D[p][g]
    BY <2>4
  <2> HIDE DEF D, rank, S, V
  <2> QED BY ONLY <2>1, <2>2, <2>3, <2>5 DEF Recursive
<1>6. PICK f \in [S -> V] : \A p \in S : f[p] = B(f, p[1], p[2])
  <2> HIDE DEF rank, B
  <2>1. \E f \in [S -> V] : \A p \in S : f[p] = D[p][f]
    <3> HIDE DEF D, S, V
    <3> QED BY ONLY <1>5, Recursion
  <2> HIDE DEF S, V
  <2> QED BY <2>1
<1>7. f = [p \in S |-> B(f, p[1], p[2])]
  <2> HIDE DEF B, S, V
  <2> QED BY <1>6
<1>8. \E m : m = [p \in S |-> B(m, p[1], p[2])] /\ MoveAll(cloud, heads) = m[<<K - 1, n>>]
  BY <1>7 DEF MoveAll, MoveStep, K, n
<1>9. PICK m : m = [p \in S |-> B(m, p[1], p[2])] /\ MoveAll(cloud, heads) = m[<<K - 1, n>>]
  BY <1>8
<1>10. \A k \in 0 .. K : \A i \in 1 .. n : m[<<k, i>>] = B(m, k, i)
  <2> HIDE DEF B
  <2> QED BY <1>9
<1>11. ASSUME NEW k \in 0 .. K, NEW i \in 1 .. n, m[<<k, i>>] \notin V PROVE FALSE
  <2> DEFINE Bad == {r \in Nat : \E x \in 0 .. K : \E y \in 1 .. n :
                                    x + y = r /\ m[<<x, y>>] \notin V}
  <2>1. Bad # {}
    <3>1. k + i \in Nat
      OBVIOUS
    <3> HIDE DEF V
    <3> QED BY <1>11, <3>1
  <2>2. PICK b \in Bad : \A r \in Bad : b <= r
    <3>1. Bad \in SUBSET Nat
      OBVIOUS
    <3> HIDE DEF Bad
    <3> QED BY <2>1, <3>1, LeastMember
  <2>3. PICK x \in 0 .. K : \E y \in 1 .. n : x + y = b /\ m[<<x, y>>] \notin V
    OBVIOUS
  <2>4. PICK y \in 1 .. n : x + y = b /\ m[<<x, y>>] \notin V
    BY <2>3
  <2>5. b \in Nat /\ \A r \in Nat : r < b => r \notin Bad
    <3>1. b \in Nat
      OBVIOUS
    <3> HIDE DEF Bad
    <3> QED BY <2>2, <3>1
  <2>6. \A v \in 0 .. K : \A w \in 1 .. n : v + w < x + y => m[<<v, w>>] \in V
    <3> SUFFICES ASSUME NEW v \in 0 .. K, NEW w \in 1 .. n, v + w < x + y
                 PROVE  m[<<v, w>>] \in V
      OBVIOUS
    <3>1. v + w \in Nat /\ v + w \notin Bad
      <4>1. v + w \in Nat /\ v + w < b
        BY <2>4
      <4> HIDE DEF Bad
      <4> QED BY <2>5, <4>1
    <3> HIDE DEF V
    <3> QED BY <3>1
  <2>7. CASE x = 0
    <3>1. m[<<x, y>>] = {}
      BY <1>10, <2>7 DEF MoveStep
    <3> QED BY <2>4, <3>1
  <2>8. CASE x # 0
    <3>1. m[<<x - 1, y>>] \in V
      <4>1. x - 1 \in 0 .. K /\ x - 1 + y < x + y
        BY <1>1, <2>8
      <4> QED BY <2>6, <4>1
    <3>2. y = 1 => m[<<x - 1, 1>>] \in V
      BY <3>1
    <3>3. y # 1 => m[<<x, y - 1>>] \in V
      <4>1. ASSUME y # 1 PROVE y - 1 \in 1 .. n /\ x + (y - 1) < x + y
        BY <1>1, <4>1
      <4> QED BY <2>6, <4>1
    <3>4. {<<y, x>>} \in V
      BY <2>8
    <3>5. B(m, x, y) \in V
      BY <2>8, <3>1, <3>2, <3>3, <3>4 DEF MoveStep
    <3> HIDE DEF B, V
    <3> QED BY <1>10, <2>4, <3>5
  <2> QED BY <2>7, <2>8
<1>12. m \in [S -> V]
  <2>1. \A p \in S : m[p] \in V
    BY <1>2, <1>11
  <2>2. m = [p \in S |-> m[p]]
    <3> HIDE DEF B, S, V
    <3> QED BY <1>9
  <2> HIDE DEF B, S, V
  <2> QED BY <2>1, <2>2
<1> QED BY <1>9, <1>10, <1>12 DEF K, n

\* Of the first k poses, q is the last one before the time t.
LastBefore(heads, k, t, q) ==
  q \in 1 .. k /\ heads[q] < t /\ \A r \in 1 .. k : heads[r] < t => r <= q

\* A point but the first is moved with exactly the last pose before its time, if the
\* times of the cloud are in order.
LEMMA MovedOnce ==
  ASSUME NEW cloud, Len(cloud) \in Nat \ {0},
         \A i \in 1 .. Len(cloud) : cloud[i].time \in Nat,
         \A i, j \in 1 .. Len(cloud) : i <= j => cloud[i].time <= cloud[j].time,
         NEW heads, Len(heads) \in Nat \ {0}, \A k \in 1 .. Len(heads) : heads[k] \in Int,
         NEW j \in 2 .. Len(cloud), NEW q
  PROVE  <<j, q>> \in MoveAll(cloud, heads)
           <=> LastBefore(heads, Len(heads) - 1, cloud[j].time, q)
<1> DEFINE K == Len(heads)
           n == Len(cloud)
           t == cloud[j].time
<1>1. K \in Nat \ {0} /\ n \in Nat \ {0} /\ j \in 1 .. n /\ j # 1 /\ t \in Nat
  OBVIOUS
<1>2. PICK m : /\ \A k \in 0 .. K : \A i \in 1 .. n :
                    m[<<k, i>>] = MoveStep(cloud, heads, m, k, i)
               /\ MoveAll(cloud, heads) = m[<<K - 1, n>>]
  BY <1>1, MoveEquation
<1> HIDE DEF K, n, t
<1> DEFINE Right(k, i) == <<j, q>> \in m[<<k, i>>] <=> j <= i /\ LastBefore(heads, k, t, q)
           Bad == {r \in Nat : \E x \in 0 .. K : \E y \in 1 .. n : x + y = r /\ ~Right(x, y)}
<1>3. Bad = {}
  <2> SUFFICES ASSUME Bad # {} PROVE FALSE
    OBVIOUS
  <2>1. PICK b \in Bad : \A r \in Bad : b <= r
    <3>1. Bad \in SUBSET Nat
      OBVIOUS
    <3> HIDE DEF Bad
    <3> QED BY <3>1, LeastMember
  <2>2. PICK k \in 0 .. K : \E y \in 1 .. n : k + y = b /\ ~Right(k, y)
    OBVIOUS
  <2>3. PICK i \in 1 .. n : k + i = b /\ ~Right(k, i)
    BY <2>2
  <2>4. b \in Nat /\ \A r \in Nat : r < b => r \notin Bad
    <3>1. b \in Nat
      OBVIOUS
    <3> HIDE DEF Bad
    <3> QED BY <2>1, <3>1
  <2>5. \A v \in 0 .. K : \A w \in 1 .. n : v + w < k + i => Right(v, w)
    <3> SUFFICES ASSUME NEW v \in 0 .. K, NEW w \in 1 .. n, v + w < k + i PROVE Right(v, w)
      OBVIOUS
    <3>1. v + w \in Nat /\ v + w \notin Bad
      <4>1. v + w \in Nat /\ v + w < b
        BY <2>3
      <4> HIDE DEF Bad
      <4> QED BY <2>4, <4>1
    <3> HIDE DEF Right
    <3> QED BY <3>1
  <2>6. m[<<k, i>>] = MoveStep(cloud, heads, m, k, i)
    BY <1>2
  <2>7. cloud[i].time \in Nat /\ i \in Nat /\ j \in Nat /\ j >= 2
    BY <1>1 DEF n
  <2>8. CASE k = 0
    <3>1. m[<<k, i>>] = {}
      BY <2>6, <2>8 DEF MoveStep
    <3>2. ~LastBefore(heads, k, t, q)
      BY <2>8 DEF LastBefore
    <3> QED BY <2>3, <3>1, <3>2
  <2>9. CASE k # 0 /\ cloud[i].time <= heads[k]
    <3>1. k - 1 \in 0 .. K /\ k - 1 + i < k + i /\ k \in 1 .. K
      BY <1>1, <2>9
    <3>2. m[<<k, i>>] = m[<<k - 1, i>>]
      BY <2>6, <2>9 DEF MoveStep
    <3>3. <<j, q>> \in m[<<k - 1, i>>] <=> j <= i /\ LastBefore(heads, k - 1, t, q)
      BY <2>5, <3>1
    <3>4. j <= i => (LastBefore(heads, k - 1, t, q) <=> LastBefore(heads, k, t, q))
      <4> SUFFICES ASSUME j <= i
                   PROVE  LastBefore(heads, k - 1, t, q) <=> LastBefore(heads, k, t, q)
        OBVIOUS
      <4>1. t <= cloud[i].time
        BY <1>1 DEF n, t
      <4>2. heads[k] \in Int
        BY <3>1 DEF K
      <4>3. ~(heads[k] < t)
        BY <1>1, <2>7, <2>9, <4>1, <4>2
      <4>4. 1 .. k = (1 .. k - 1) \cup {k}
        BY <3>1
      <4> QED BY <4>3, <4>4 DEF LastBefore
    <3> QED BY <2>3, <3>2, <3>3, <3>4
  <2>10. CASE k # 0 /\ ~(cloud[i].time <= heads[k])
    <3>1. k - 1 \in 0 .. K /\ k - 1 + i < k + i /\ k \in 1 .. K
      BY <1>1, <2>10
    <3>2. heads[k] \in Int
      BY <3>1 DEF K
    <3>3. CASE i = 1
      <4>1. m[<<k, i>>] = {<<1, k>>} \cup m[<<k - 1, 1>>]
        BY <2>6, <2>10, <3>3 DEF MoveStep
      <4>2. ~(<<j, q>> \in m[<<k - 1, 1>>])
        <5>1. <<j, q>> \in m[<<k - 1, i>>] <=> j <= i /\ LastBefore(heads, k - 1, t, q)
          BY <2>5, <3>1
        <5>2. ~(j <= i)
          BY <2>7, <3>3
        <5> QED BY <3>3, <5>1, <5>2
      <4>3. ~(<<j, q>> \in m[<<k, i>>])
        BY <1>1, <4>1, <4>2
      <4>4. ~(j <= i)
        BY <2>7, <3>3
      <4> QED BY <2>3, <4>3, <4>4
    <3>4. CASE i # 1
      <4>1. m[<<k, i>>] = {<<i, k>>} \cup m[<<k, i - 1>>]
        BY <2>6, <2>10, <3>4 DEF MoveStep
      <4>2. i - 1 \in 1 .. n /\ k + (i - 1) < k + i
        BY <1>1, <3>4
      <4>3. <<j, q>> \in m[<<k, i - 1>>] <=> j <= i - 1 /\ LastBefore(heads, k, t, q)
        BY <2>5, <4>2
      <4>4. CASE j = i
        <5>1. heads[k] < t
          <6>1. t = cloud[i].time
            BY <4>4 DEF t
          <6> QED BY <2>7, <2>10, <3>2, <6>1
        <5>2. LastBefore(heads, k, t, q) <=> q = k
          <6>1. ASSUME LastBefore(heads, k, t, q) PROVE q = k
            <7>1. k \in 1 .. k /\ q \in 1 .. k
              BY <3>1, <6>1 DEF LastBefore
            <7>2. k <= q
              BY <5>1, <6>1, <7>1 DEF LastBefore
            <7> QED BY <7>1, <7>2
          <6>2. ASSUME q = k PROVE LastBefore(heads, k, t, q)
            BY <3>1, <5>1, <6>2 DEF LastBefore
          <6> QED BY <6>1, <6>2
        <5>3. ~(j <= i - 1) /\ j <= i
          BY <2>7, <4>4
        <5>4. <<j, q>> \in m[<<k, i>>] <=> q = k
          BY <4>1, <4>3, <4>4, <5>3
        <5> QED BY <2>3, <5>2, <5>3, <5>4
      <4>5. CASE j # i
        <5>1. <<j, q>> \in m[<<k, i>>] <=> <<j, q>> \in m[<<k, i - 1>>]
          BY <4>1, <4>5
        <5>2. j <= i - 1 <=> j <= i
          BY <2>7, <4>5
        <5> QED BY <2>3, <4>3, <5>1, <5>2
      <4> QED BY <4>4, <4>5
    <3> QED BY <3>3, <3>4
  <2> QED BY <2>8, <2>9, <2>10
<1>4. Right(K - 1, n)
  <2>1. K - 1 \in 0 .. K /\ n \in 1 .. n /\ K - 1 + n \in Nat
    BY <1>1
  <2> HIDE DEF Right
  <2> QED BY <1>3, <2>1
<1>5. j <= n
  BY <1>1
<1> QED BY <1>2, <1>4, <1>5 DEF K, n, t

-------------------------------------------------------------------------------
\* Once a frame was integrated the next one begins where it ended, where also the
\* samples were drained up to.
FrameBounds ==
  /\ last_imu <= drained
  /\ frames # 0 => last_prop_end_time = drained
  /\ stage = "scan" => drained <= frame_beg

\* The cloud is one that may come of the scan.
CloudOfScan ==
  /\ \/ scan = <<>> /\ pl_surf = <<>>
     \/ scan \in Scans /\ pl_surf \in Process(scan)
  /\ stage = "idle" => scan = <<>> /\ pl_surf = <<>>

ScanInv == ScanTypeOK /\ FrameBounds /\ CloudOfScan /\ CoversFrame /\ EachPointOnce

LEMMA ScanInitInv == ScanInit => ScanInv
<1> SUFFICES ASSUME ScanInit PROVE ScanInv
  OBVIOUS
<1> USE DEF ScanInit
<1>1. SamplePeriod \in Nat
  BY TimeAssumption
<1>2. /\ <<>> \in Seq([time : Nat, number : DOMAIN scan])
      /\ <<>> \in Seq(Nat) /\ <<>> \in Seq(Int)
  OBVIOUS
<1>3. ScanTypeOK
  BY <1>1, <1>2 DEF ScanTypeOK
<1>4. FrameBounds
  BY <1>1 DEF FrameBounds
<1>5. CloudOfScan
  BY DEF CloudOfScan
<1>6. CoversFrame /\ EachPointOnce
  BY DEF CoversFrame, EachPointOnce
<1> QED BY <1>3, <1>4, <1>5, <1>6 DEF ScanInv

\* A trusted cloud is in the order of its times.
LEMMA TrustedInOrder ==
  lidar_type \in LidarTypes /\ CloudOfScan /\ Trusted => InTimeOrder(pl_surf)
<1> SUFFICES ASSUME lidar_type \in LidarTypes, CloudOfScan, Trusted PROVE InTimeOrder(pl_surf)
  OBVIOUS
<1>1. CASE pl_surf = <<>>
  BY <1>1 DEF InTimeOrder
<1>2. CASE scan \in Scans /\ pl_surf \in Process(scan)
  <2>1. CASE lidar_type \in {"OUST64", "PANDAR128", "ROBOSENSE", "L515"}
    BY <1>2, <2>1, ProcessPoints
  <2>2. CASE lidar_type = "AVIA" /\ InOrderAndTaken
    <3>1. pl_surf = AviaHandler(scan)
      BY <1>2, <2>2, ProcessPoints
    <3>2. OnLine(scan) = DOMAIN scan /\ Ordered(scan)
      BY <2>2 DEF InOrderAndTaken, Ordered
    <3>3. Len(scan) \in Nat /\ DOMAIN scan = 1 .. Len(scan)
      BY <1>2, ScanPoints
    <3>4. AviaTimes(scan) \in [1 .. Len(scan) -> Nat]
      BY <1>2, AviaEquation
    <3>5. \A i, j \in 1 .. Len(scan) : i <= j => AviaTimes(scan)[i] <= AviaTimes(scan)[j]
      BY <1>2, <3>2, AviaInOrder
    <3>6. PICK k \in SUBSET (1 .. Len(scan)) : pl_surf = Cloud(k, AviaTimes(scan))
      <4>1. OnLine(scan) \cap Seen(scan) \in SUBSET (1 .. Len(scan))
        BY <3>3 DEF OnLine, Seen
      <4> QED BY <3>1, <4>1 DEF AviaHandler
    <3> QED BY <3>3, <3>4, <3>5, <3>6, CloudInOrder
  <2> QED BY <2>1, <2>2 DEF Trusted
<1> QED BY <1>1, <1>2 DEF CloudOfScan

LEMMA CloudsInOrder == ScanTypeOK /\ CloudOfScan => TimesAscend
BY TrustedInOrder DEF ScanTypeOK, TimesAscend, InTimeOrder

\* The types of the variables the integration of a frame sets.
LEMMA UndistortTypes ==
  ASSUME ScanTypeOK,
         NEW cloud, cloud = pl_surf,
         NEW end \in Nat, drained <= end,
         NEW v \in Samplings(drained, end),
         Undistort(cloud, v, end)
  PROVE  /\ v_imu' \in Seq(Nat) /\ last_imu' \in Nat /\ last_imu' <= end
         /\ IMUpose' \in Seq(Int) /\ poses' \in Seq(Int) /\ integrated' \in Int
         /\ moved' \subseteq (DOMAIN pl_surf) \X (1 .. Len(poses'))
         /\ Len(poses') \in Nat \ {0}
         /\ poses' = Append(IMUpose, 0) \o Poses(v, end)
<1>1. /\ v \in Seq(Nat) /\ Len(v) >= 1 /\ Len(v) \in Nat
      /\ v[1] <= drained
      /\ \A i \in 2 .. Len(v) : v[i] <= end
  BY DEF Samplings
<1>2. last_prop_end_time \in Int /\ drained \in Nat /\ IMUpose \in Seq(Int)
  BY LidarTypesAssumption DEF ScanTypeOK
<1>3. Last(v) \in Nat /\ Last(v) <= end
  <2>1. Len(v) \in 1 .. Len(v) /\ v[Len(v)] \in Nat /\ v[1] \in Nat
    BY <1>1
  <2>2. Len(v) = 1 \/ Len(v) \in 2 .. Len(v)
    <3>1. PICK l \in Nat : l = Len(v) /\ l >= 1
      BY <1>1
    <3>2. l = 1 \/ l \in 2 .. l
      BY <3>1
    <3> QED BY <3>1, <3>2
  <2>3. v[Len(v)] <= end
    BY <1>1, <1>2, <2>1, <2>2
  <2> QED BY <2>1, <2>3 DEF Last
<1>4. Poses(v, end) \in Seq(Int)
  BY <1>1, <1>2, PosesOfFrame
<1>5. Append(IMUpose, 0) \in Seq(Int) /\ Len(Append(IMUpose, 0)) = Len(IMUpose) + 1
  BY <1>2
<1>6. poses' = Append(IMUpose, 0) \o Poses(v, end)
  BY DEF Undistort
<1>7. poses' \in Seq(Int) /\ Len(poses') = Len(IMUpose) + 1 + Len(Poses(v, end))
  BY <1>4, <1>5, <1>6
<1>8. Len(poses') \in Nat \ {0}
  <2>1. Len(IMUpose) \in Nat /\ Len(Poses(v, end)) \in Nat
    BY <1>2, <1>4
  <2> QED BY <1>7, <2>1
<1>9. integrated' \in Int
  <2>1. PICK sum \in [0 .. Len(v) - 1 -> Int] : Integrated(v, end) = sum[Len(v) - 1]
    BY <1>1, <1>2, IntegratedIsSum
  <2>2. Len(v) - 1 \in 0 .. Len(v) - 1
    BY <1>1
  <2> QED BY <2>1, <2>2 DEF Undistort
<1>10. moved' \subseteq (DOMAIN pl_surf) \X (1 .. Len(poses'))
  <2>1. CASE cloud = <<>>
    BY <2>1 DEF Undistort
  <2>2. CASE cloud # <<>>
    <3>1. DOMAIN cloud = 1 .. Len(cloud) /\ Len(cloud) \in Nat \ {0}
      BY <2>2 DEF ScanTypeOK
    <3>2. MoveAll(cloud, poses') \in SUBSET ((1 .. Len(cloud)) \X (1 .. Len(poses')))
      <4>1. PICK m \in [(0 .. Len(poses')) \X (1 .. Len(cloud)) ->
                          SUBSET ((1 .. Len(cloud)) \X (1 .. Len(poses')))] :
              MoveAll(cloud, poses') = m[<<Len(poses') - 1, Len(cloud)>>]
        BY <1>8, <3>1, MoveEquation
      <4>2. <<Len(poses') - 1, Len(cloud)>> \in (0 .. Len(poses')) \X (1 .. Len(cloud))
        BY <1>8, <3>1
      <4> QED BY <4>1, <4>2
    <3>3. moved' = MoveAll(cloud, poses')
      BY <2>2 DEF Undistort
    <3> QED BY <3>1, <3>2, <3>3
  <2> QED BY <2>1, <2>2
<1>11. v_imu' = v /\ last_imu' = Last(v) /\ IMUpose' \in {poses', <<>>}
  BY DEF Undistort
<1>12. <<>> \in Seq(Int)
  OBVIOUS
<1> QED BY <1>1, <1>3, <1>6, <1>7, <1>8, <1>9, <1>10, <1>11, <1>12

\* What it does to a frame that is not the first.
LEMMA UndistortCovers ==
  ASSUME ScanTypeOK, FrameBounds, frames # 0,
         NEW cloud, cloud = pl_surf,
         NEW end \in Nat, drained <= end,
         NEW v \in Samplings(drained, end),
         Undistort(cloud, v, end)
  PROVE  /\ integrated' <= end - last_prop_end_time
         /\ Len(v) > 2 => /\ integrated' = end - last_prop_end_time
                          /\ Last(poses') = end - last_prop_end_time
         /\ Len(v) > 1 => \E k \in 1 .. Len(poses') - 1 : poses'[k] = 0
<1>1. last_prop_end_time \in Nat /\ last_prop_end_time = drained /\ IMUpose \in Seq(Int)
  BY DEF ScanTypeOK, FrameBounds
<1>2. v \in Samplings(last_prop_end_time, end) /\ last_prop_end_time <= end
  BY <1>1
<1>3. /\ Integrated(v, end) <= end - last_prop_end_time
      /\ Len(v) > 2 => Integrated(v, end) = end - last_prop_end_time
  BY <1>1, <1>2, StepsAddUp
<1>4. integrated' = Integrated(v, end) /\ poses' = Append(IMUpose, 0) \o Poses(v, end)
  BY DEF Undistort
<1>5. Len(v) \in Nat
  BY DEF Samplings
<1>6. ASSUME Len(v) > 1
      PROVE  /\ Len(v) > 2 => Last(poses') = end - last_prop_end_time
             /\ \E k \in 1 .. Len(poses') - 1 : poses'[k] = 0
  <2> DEFINE a == Append(IMUpose, 0)
             p == Poses(v, end)
  <2>1. /\ p \in Seq(Int) /\ Len(p) = Len(v) - 1
        /\ Len(v) > 2 => p[Len(v) - 1] = end - last_prop_end_time
    BY <1>1, <1>2, <1>6, LastPose
  <2>2. /\ a \in Seq(Int) /\ Len(a) = Len(IMUpose) + 1 /\ Len(IMUpose) \in Nat
        /\ a[Len(IMUpose) + 1] = 0
    BY <1>1
  <2> HIDE DEF a, p
  <2>3. Len(p) \in Nat /\ Len(p) >= 1 /\ Len(a) \in Nat /\ Len(a) >= 1
    BY <1>5, <1>6, <2>1, <2>2
  <2>4. /\ Len(a \o p) = Len(a) + Len(p)
        /\ \A k \in 1 .. Len(a) + Len(p) :
             (a \o p)[k] = IF k <= Len(a) THEN a[k] ELSE p[k - Len(a)]
    <3>1. a \in Seq(Int) /\ p \in Seq(Int)
      BY <2>1, <2>2
    <3> QED BY ONLY <3>1, ConcatProperties
  <2>5. poses' = a \o p
    BY <1>4 DEF a, p
  <2>6. Last(poses') = p[Len(p)]
    <3>1. Len(a) + Len(p) \in 1 .. Len(a) + Len(p)
      BY <2>3
    <3>2. ~(Len(a) + Len(p) <= Len(a)) /\ Len(a) + Len(p) - Len(a) = Len(p)
      BY <2>3
    <3> QED BY <2>4, <2>5, <3>1, <3>2 DEF Last
  <2>7. poses'[Len(a)] = 0 /\ Len(a) \in 1 .. Len(poses') - 1
    <3>1. Len(a) \in 1 .. Len(a) + Len(p) /\ Len(a) \in 1 .. Len(a) + Len(p) - 1
          /\ Len(a) <= Len(a)
      BY <2>3
    <3> QED BY <2>2, <2>4, <2>5, <3>1
  <2> QED BY <2>1, <2>6, <2>7
<1> QED BY <1>3, <1>4, <1>5, <1>6

\* Every point but the first of the cloud is moved once.
LEMMA UndistortMovesOnce ==
  ASSUME ScanTypeOK, FrameBounds, CloudOfScan,
         NEW cloud, cloud = pl_surf,
         NEW end \in Nat, drained <= end,
         NEW v \in Samplings(drained, end),
         Undistort(cloud, v, end), UNCHANGED <<lidar_type, scan, pl_surf>>
  PROVE  EachPointOnce'
<1> SUFFICES ASSUME Len(v_imu') > 1, frames' = 2, Trusted',
                    NEW i \in DOMAIN pl_surf' \ {1}, pl_surf'[i].time > 0
             PROVE  {k \in DOMAIN poses' : <<i, k>> \in moved'} =
                      {Max({k \in 1 .. Len(poses') - 1 : poses'[k] < pl_surf'[i].time})}
  BY DEF EachPointOnce
<1> DEFINE t == cloud[i].time
           K == Len(poses')
           Earlier == {k \in 1 .. K - 1 : poses'[k] < t}
<1>1. pl_surf' = cloud /\ cloud # <<>> /\ i \in DOMAIN cloud /\ i # 1 /\ t > 0
  OBVIOUS
<1>2. /\ poses' \in Seq(Int) /\ K \in Nat \ {0}
      /\ DOMAIN poses' = 1 .. K /\ \A k \in 1 .. K : poses'[k] \in Int
  BY UndistortTypes
<1>3. Trusted
  <2>1. lidar_type' = lidar_type /\ scan' = scan
    OBVIOUS
  <2> QED BY <2>1 DEF Trusted, InOrderAndTaken, OnLine
<1>4. InTimeOrder(cloud)
  BY <1>3, TrustedInOrder DEF ScanTypeOK
<1>5. /\ Len(cloud) \in Nat \ {0} /\ DOMAIN cloud = 1 .. Len(cloud)
      /\ \A j \in 1 .. Len(cloud) : cloud[j].time \in Nat
  <2> DEFINE P == [time : Nat, number : DOMAIN scan]
  <2>1. cloud \in Seq(P)
    BY DEF ScanTypeOK
  <2>2. \A p \in P : p.time \in Nat
    OBVIOUS
  <2> HIDE DEF P
  <2> QED BY <1>1, <2>1, <2>2
<1>6. i \in 2 .. Len(cloud) /\ t \in Nat
  BY <1>1, <1>5
<1>7. moved' = MoveAll(cloud, poses')
  BY <1>1 DEF Undistort
<1>8. \A k : <<i, k>> \in moved' <=> LastBefore(poses', K - 1, t, k)
  <2>1. \A j, l \in 1 .. Len(cloud) : j <= l => cloud[j].time <= cloud[l].time
    BY <1>4, <1>5 DEF InTimeOrder
  <2> QED BY <1>2, <1>5, <1>6, <1>7, <2>1, MovedOnce
<1>9. frames # 0 /\ Len(v) > 1
  BY DEF Undistort
<1>10. PICK z \in 1 .. K - 1 : poses'[z] = 0
  BY <1>9, UndistortCovers
<1>11. z \in Earlier
  BY <1>1, <1>6, <1>10
<1>12. Earlier \in SUBSET (0 .. K) /\ Earlier # {}
  BY <1>11
<1>13. Max(Earlier) \in Earlier /\ \A k \in Earlier : k <= Max(Earlier)
  <2> HIDE DEF Earlier, K
  <2> QED BY <1>2, <1>12, MaxIsGreatest
<1> DEFINE mx == Max(Earlier)
<1>14. mx \in 1 .. K - 1 /\ poses'[mx] < t /\ \A k \in 1 .. K - 1 : poses'[k] < t => k <= mx
  BY <1>13
<1> HIDE DEF mx, Earlier
<1>15. \A k : LastBefore(poses', K - 1, t, k) <=> k = mx
  <2>1. LastBefore(poses', K - 1, t, mx)
    BY <1>14 DEF LastBefore
  <2>2. ASSUME NEW k, LastBefore(poses', K - 1, t, k) PROVE k = mx
    <3>1. k \in 1 .. K - 1 /\ mx <= k
      BY <1>14, <2>2 DEF LastBefore
    <3>2. k <= mx
      BY <1>14, <2>2 DEF LastBefore
    <3> QED BY <1>14, <3>1, <3>2
  <2> QED BY <2>1, <2>2
<1>16. mx \in DOMAIN poses'
  BY <1>2, <1>14
<1>17. {k \in DOMAIN poses' : <<i, k>> \in moved'} = {mx}
  BY <1>8, <1>15, <1>16
<1> QED BY <1>1, <1>17 DEF mx, Earlier

\* A frame of points or of none keeps the invariant.
LEMMA UndistortPreserves ==
  ASSUME ScanTypeOK, FrameBounds, CloudOfScan,
         NEW cloud, cloud = pl_surf,
         NEW end \in Nat, drained <= end,
         NEW v \in Samplings(drained, end),
         Undistort(cloud, v, end), UNCHANGED <<lidar_type, scanVars>>
  PROVE  ScanInv'
<1> UNCHANGED <<lidar_type, scan, pl_surf, frame_beg>>
  BY DEF scanVars
<1>1. /\ stage' = "done" /\ v_imu' = v /\ prop_beg_time' = last_prop_end_time
      /\ last_prop_end_time' = end /\ drained' = end
      /\ frames' = IF frames = 0 THEN 1 ELSE 2
  BY DEF Undistort
<1>2. /\ v_imu' \in Seq(Nat) /\ last_imu' \in Nat /\ last_imu' <= end
      /\ IMUpose' \in Seq(Int) /\ poses' \in Seq(Int) /\ integrated' \in Int
      /\ moved' \subseteq (DOMAIN pl_surf) \X (1 .. Len(poses'))
  BY UndistortTypes
<1>3. ScanTypeOK'
  BY <1>1, <1>2 DEF ScanTypeOK
<1>4. FrameBounds'
  BY <1>1, <1>2 DEF FrameBounds
<1>5. CloudOfScan'
  BY <1>1 DEF CloudOfScan, Process
<1>6. CoversFrame'
  <2> SUFFICES ASSUME frames' = 2
               PROVE  LET length == last_prop_end_time' - prop_beg_time'
                      IN  /\ integrated' <= length
                          /\ Len(v_imu') > 2 => /\ integrated' = length
                                                /\ Last(poses') = length
    BY DEF CoversFrame, Last
  <2>1. frames # 0
    BY <1>1
  <2> QED BY <1>1, <2>1, UndistortCovers
<1>7. EachPointOnce'
  BY UndistortMovesOnce
<1> QED BY <1>3, <1>4, <1>5, <1>6, <1>7 DEF ScanInv

LEMMA ReceiveScanPreserves == ScanInv /\ ReceiveScan => ScanInv'
<1> SUFFICES ASSUME ScanInv, ReceiveScan PROVE ScanInv'
  OBVIOUS
<1>1. PICK s \in Scans : \E beg \in drained .. drained + MaxLost :
        scan' = s /\ pl_surf' \in Process(s) /\ frame_beg' = beg
  BY DEF ReceiveScan
<1>2. PICK beg \in drained .. drained + MaxLost :
        scan' = s /\ pl_surf' \in Process(s) /\ frame_beg' = beg
  BY <1>1
<1>3. /\ stage' = "scan"
      /\ UNCHANGED <<lidar_type, drained, last_imu, v_imu, last_prop_end_time, prop_beg_time,
                     IMUpose, poses, integrated, moved, frames>>
  BY DEF ReceiveScan, undistortVars
<1>4. ScanTypeOK /\ FrameBounds /\ CloudOfScan /\ stage = "idle"
  BY DEF ScanInv, ReceiveScan
<1>5. frame_beg' \in Nat /\ drained <= frame_beg'
  <2>1. drained \in Nat /\ MaxLost \in Nat
    BY <1>4, TimeAssumption DEF ScanTypeOK
  <2> QED BY <1>2, <2>1
<1>6. pl_surf' \in Seq([time : Nat, number : DOMAIN scan'])
  BY <1>2, <1>4, ProcessPoints DEF ScanTypeOK
<1>7. moved' \subseteq (DOMAIN pl_surf') \X (1 .. Len(poses'))
  <2>1. pl_surf = <<>> /\ moved \subseteq (DOMAIN pl_surf) \X (1 .. Len(poses))
    BY <1>4 DEF CloudOfScan, ScanTypeOK
  <2>2. moved = {}
    BY <2>1
  <2> QED BY <1>3, <2>2
<1>8. ScanTypeOK'
  BY <1>2, <1>3, <1>4, <1>5, <1>6, <1>7 DEF ScanTypeOK
<1>9. FrameBounds'
  BY <1>3, <1>4, <1>5 DEF FrameBounds
<1>10. CloudOfScan'
  BY <1>2, <1>3 DEF CloudOfScan, Process
<1>11. CoversFrame' /\ EachPointOnce'
  BY <1>3 DEF CoversFrame, EachPointOnce
<1> QED BY <1>8, <1>9, <1>10, <1>11 DEF ScanInv

LEMMA UndistortScanPreserves == ScanInv /\ UndistortScan => ScanInv'
<1> SUFFICES ASSUME ScanInv, UndistortScan PROVE ScanInv'
  OBVIOUS
<1>1. PICK v \in {WithLast(samples) : samples \in SUBSET SamplesUpTo(FrameEnd)} :
        Undistort(pl_surf, v, FrameEnd)
  BY DEF UndistortScan
<1>2. ScanTypeOK /\ FrameBounds /\ CloudOfScan /\ stage = "scan" /\ Len(pl_surf) > 1
  BY DEF ScanInv, UndistortScan
<1>3. drained \in Nat /\ last_imu \in Nat /\ last_imu <= drained /\ drained <= frame_beg
      /\ frame_beg \in Nat
  BY <1>2 DEF ScanTypeOK, FrameBounds
<1>4. FrameEnd \in Nat /\ drained <= FrameEnd
  <2> DEFINE P == [time : Nat, number : DOMAIN scan]
  <2>1. pl_surf \in Seq(P)
    BY <1>2 DEF ScanTypeOK
  <2>2. \A p \in P : p.time \in Nat
    OBVIOUS
  <2> HIDE DEF P
  <2>3. Len(pl_surf) \in 1 .. Len(pl_surf)
    BY <1>2, <2>1
  <2>4. Last(pl_surf).time \in Nat
    BY <2>1, <2>2, <2>3 DEF Last
  <2> QED BY <1>3, <2>4 DEF FrameEnd
<1>5. v \in Samplings(drained, FrameEnd)
  BY <1>1, <1>3, <1>4, SamplesOfFrame
<1>6. UNCHANGED <<lidar_type, scanVars>>
  BY DEF UndistortScan
<1> QED BY <1>1, <1>2, <1>4, <1>5, <1>6, UndistortPreserves

LEMMA UndistortNothingPreserves == ScanInv /\ UndistortNothing => ScanInv'
<1> SUFFICES ASSUME ScanInv, UndistortNothing PROVE ScanInv'
  OBVIOUS
<1>1. PICK end \in drained + 1 .. MaxTime :
        \E v \in {WithLast(samples) : samples \in SUBSET SamplesUpTo(end)} :
          Undistort(<<>>, v, end)
  BY DEF UndistortNothing
<1>2. PICK v \in {WithLast(samples) : samples \in SUBSET SamplesUpTo(end)} :
        Undistort(<<>>, v, end)
  BY <1>1
<1>3. ScanTypeOK /\ FrameBounds /\ CloudOfScan /\ stage = "idle"
  BY DEF ScanInv, UndistortNothing
<1>4. drained \in Nat /\ last_imu \in Nat /\ last_imu <= drained
  BY <1>3 DEF ScanTypeOK, FrameBounds
<1>5. end \in Nat /\ drained <= end
  <2>1. MaxTime \in Nat
    BY TimeAssumption
  <2> QED BY <1>4, <2>1
<1>6. v \in Samplings(drained, end)
  BY <1>2, <1>4, <1>5, SamplesOfFrame
<1>7. UNCHANGED <<lidar_type, scanVars>> /\ <<>> = pl_surf
  BY <1>3 DEF UndistortNothing, CloudOfScan
<1> QED BY <1>2, <1>3, <1>5, <1>6, <1>7, UndistortPreserves

LEMMA DonePreserves == ScanInv /\ Done => ScanInv'
<1> SUFFICES ASSUME ScanInv, Done PROVE ScanInv'
  OBVIOUS
<1>1. ScanTypeOK /\ FrameBounds
  BY DEF ScanInv
<1>2. /\ stage' = "idle" /\ scan' = <<>> /\ pl_surf' = <<>> /\ frame_beg' = drained
      /\ v_imu' = <<>> /\ poses' = <<>> /\ moved' = {} /\ integrated' = 0
      /\ prop_beg_time' = 0
      /\ UNCHANGED <<lidar_type, drained, last_imu, last_prop_end_time, IMUpose, frames>>
  BY DEF Done
<1>3. ScanTypeOK'
  <2>1. <<>> \in Seq([time : Nat, number : DOMAIN scan']) /\ <<>> \in Seq(Nat)
        /\ <<>> \in Seq(Int)
    OBVIOUS
  <2> QED BY <1>1, <1>2, <2>1 DEF ScanTypeOK
<1>4. FrameBounds'
  BY <1>1, <1>2 DEF FrameBounds
<1>5. CloudOfScan'
  BY <1>2 DEF CloudOfScan
<1>6. CoversFrame' /\ EachPointOnce'
  BY <1>2 DEF CoversFrame, EachPointOnce
<1> QED BY <1>3, <1>4, <1>5, <1>6 DEF ScanInv

LEMMA ScanStepInv == ScanInv /\ [ScanNext]_timingVars => ScanInv'
<1> SUFFICES ASSUME ScanInv, [ScanNext]_timingVars PROVE ScanInv'
  OBVIOUS
<1>1. CASE UNCHANGED timingVars
  <2> UNCHANGED <<lidar_type, stage, scan, pl_surf, frame_beg, drained, last_imu, v_imu,
                  last_prop_end_time, prop_beg_time, IMUpose, poses, integrated, moved, frames>>
    BY <1>1 DEF timingVars, scanVars, undistortVars
  <2> ScanTypeOK /\ FrameBounds /\ CloudOfScan /\ CoversFrame /\ EachPointOnce
    BY DEF ScanInv
  <2>1. ScanTypeOK' /\ FrameBounds'
    BY DEF ScanTypeOK, FrameBounds
  <2>2. CloudOfScan'
    BY DEF CloudOfScan, Process
  <2>3. CoversFrame'
    BY DEF CoversFrame, Last
  <2>4. Trusted' <=> Trusted
    BY DEF Trusted, InOrderAndTaken, OnLine
  <2>5. EachPointOnce'
    BY <2>4 DEF EachPointOnce
  <2> QED BY <2>1, <2>2, <2>3, <2>5 DEF ScanInv
<1> QED BY <1>1, ReceiveScanPreserves, UndistortScanPreserves, UndistortNothingPreserves,
           DonePreserves DEF ScanNext

\* The avia's points: late by nothing, and on time where no packet was lost before.
LEMMA AviaPoints == ScanTypeOK /\ CloudOfScan => NeverTooLate
<1> SUFFICES ASSUME ScanTypeOK, CloudOfScan, lidar_type = "AVIA", InOrderAndTaken,
                    NEW i \in DOMAIN pl_surf
             PROVE  LET sent == scan[pl_surf[i].number].offset_time
                    IN  /\ pl_surf[i].time <= sent
                        /\ ~HoleBefore(pl_surf[i].number) => pl_surf[i].time = sent
  BY DEF NeverTooLate
<1>1. scan \in Scans /\ pl_surf \in Process(scan) /\ lidar_type \in LidarTypes
  BY DEF CloudOfScan, ScanTypeOK
<1>2. pl_surf = AviaHandler(scan)
  BY <1>1, ProcessPoints
<1>3. OnLine(scan) = DOMAIN scan /\ Ordered(scan)
  BY DEF InOrderAndTaken, Ordered
<1>4. Len(scan) \in Nat /\ DOMAIN scan = 1 .. Len(scan)
  BY <1>1, ScanPoints
<1>5. PICK k \in SUBSET (1 .. Len(scan)) : pl_surf = Cloud(k, AviaTimes(scan))
  <2>1. OnLine(scan) \cap Seen(scan) \in SUBSET (1 .. Len(scan))
    BY <1>4 DEF OnLine, Seen
  <2> QED BY <1>2, <2>1 DEF AviaHandler
<1>6. AviaTimes(scan) \in [1 .. Len(scan) -> Nat]
  BY <1>1, AviaEquation
<1> DEFINE c == Cloud(k, AviaTimes(scan))
<1>7. /\ c \in Seq([time : Nat, number : 1 .. Len(scan)])
      /\ \A j \in 1 .. Len(c) : c[j].number \in k /\ c[j].time = AviaTimes(scan)[c[j].number]
  BY <1>4, <1>6, CloudPoints
<1>8. c = pl_surf /\ i \in 1 .. Len(c)
  <2>1. c = pl_surf
    BY <1>5
  <2> HIDE DEF c
  <2> QED BY <1>7, <2>1
<1> HIDE DEF c
<1> DEFINE m == pl_surf[i].number
<1>9. m \in 1 .. Len(scan) /\ pl_surf[i].time = AviaTimes(scan)[m]
  BY <1>7, <1>8
<1> HIDE DEF m
<1>10. AviaTimes(scan)[m] <= scan[m].offset_time
  BY <1>1, <1>3, <1>9, AviaInOrder
<1>11. ASSUME ~HoleBefore(m) PROVE AviaTimes(scan)[m] = scan[m].offset_time
  <2>1. \A j \in 1 .. m :
          ~FarApart(scan[j].offset_time, IF j = 1 THEN 0 ELSE scan[j - 1].offset_time)
    BY <1>11 DEF HoleBefore
  <2> QED BY <1>1, <1>3, <1>9, <2>1, AviaOnTime
<1> QED BY <1>9, <1>10, <1>11 DEF m

(* The times of a trusted cloud ascend, whatever the scans are, so that    *)
(* going through the cloud backwards finds the points of every pose.       *)
THEOREM TimesSafe == ScanSpec => []TimesAscend
<1>1. ScanInv => TimesAscend
  BY CloudsInOrder DEF ScanInv
<1> QED BY <1>1, ScanInitInv, ScanStepInv, PTL DEF ScanSpec

(* However many packets of the avia are lost, and whatever is taken for an *)
(* error, no point is dated after it was sent, and none before a hole gets *)
(* another time.                                                           *)
THEOREM NeverLateSafe == ScanSpec => []NeverTooLate
<1>1. ScanInv => NeverTooLate
  BY AviaPoints DEF ScanInv
<1> QED BY <1>1, ScanInitInv, ScanStepInv, PTL DEF ScanSpec

(* With any samples lost, and any time between the frames, the integration *)
(* of a frame with two samples is as long as the frame, and of none longer.*)
THEOREM CoverageSafe == ScanSpec => []CoversFrame
<1>1. ScanInv => CoversFrame
  BY DEF ScanInv
<1> QED BY <1>1, ScanInitInv, ScanStepInv, PTL DEF ScanSpec

(* Any number of points, poses and samples: the nested loops move each     *)
(* point but the first with one pose, the last before it was measured.     *)
THEOREM MovesSafe == ScanSpec => []EachPointOnce
<1>1. ScanInv => EachPointOnce
  BY DEF ScanInv
<1> QED BY <1>1, ScanInitInv, ScanStepInv, PTL DEF ScanSpec

===============================================================================
