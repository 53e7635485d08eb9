------------------------------ MODULE ScanTiming -------------------------------
(***************************************************************************)
(* When was a point of a scan measured, and where was the lidar then?  The *)
(* handlers of preprocess.cpp, which give every kept point its time within *)
(* the scan (PCL's field is called curvature), and IMU_Processing.cpp,     *)
(* which integrates the IMU samples over the frame and moves every point   *)
(* to the frame's end with the pose the robot had when it was measured.    *)
(*                                                                         *)
(* The unit of time is that of the filled-in point times, 4.17 us.  Where  *)
(* a point lies matters only for the blind sphere and, for a velodyne that *)
(* sends no times, its yaw.  feature_enabled is off.                       *)
(***************************************************************************)
EXTENDS Integers, SequencesExt, FiniteSetsExt

CONSTANTS
  LidarTypes,        \* the kinds of lidar
  N_SCANS,           \* scan_line: lines the avia handler takes
  point_filter_num,
  Gap,               \* the time between two points the avia handler takes for an error
  Turn,              \* the time and the angle of a whole turn
  Scans,             \* the scans the lidar sends
  SamplePeriod,      \* of the IMU
  MaxTime,           \* bounds the time
  MaxLost,           \* bounds the time between two frames
  Garbage            \* values an uninitialised double may have

ASSUME FilterAssumption == point_filter_num \in Nat \ {0}
ASSUME TimeAssumption ==
  {N_SCANS, Gap, Turn, SamplePeriod, MaxTime} \subseteq Nat \ {0} /\ MaxLost \in Nat
ASSUME LidarTypesAssumption ==
  /\ LidarTypes \subseteq
       {"AVIA", "VELO16", "L515", "OUST64", "PANDAR128", "XT32", "ROBOSENSE"}
  /\ Garbage \subseteq Int

\* The points come in any order, but that the first is the earliest: it is what
\* three of the handlers count from.
ASSUME ScansAssumption ==
  /\ Scans \subseteq
       Seq([offset_time : Nat, line : Nat, yaw : 0 .. Turn - 1, blind : BOOLEAN])
  /\ \A s \in Scans : \A i \in DOMAIN s : s[1].offset_time <= s[i].offset_time

VARIABLES
  lidar_type,
  stage,                \* "idle", "scan" with a cloud ready, "done" with it moved
  scan,                 \* the message
  pl_surf,              \* the cloud: the times of its points, and their numbers in the scan
  frame_beg,            \* lidar_frame_beg_time
  drained,              \* the IMU samples up to here have been taken from the buffer
  last_imu,             \* the time of the last sample
  v_imu,                \* the times of the samples integrated, the one before them first
  last_prop_end_time,
  prop_beg_time,        \* where the integration of this frame began
  IMUpose,              \* the offset times of the poses, while they are kept
  poses,                \* those the points were moved with
  integrated,           \* the sum of the time steps of the integration
  moved,                \* <<i, k>>: point i of the cloud was moved with pose k
  frames                \* 0 before the first frame is integrated, 1 after it, 2 later

scanVars == <<scan, pl_surf, frame_beg>>
undistortVars ==
  <<drained, last_imu, v_imu, last_prop_end_time, prop_beg_time, IMUpose, poses, integrated,
    moved, frames>>
timingVars == <<lidar_type, stage, scanVars, undistortVars>>

(* IMU_init leaves last_imu behind and last_prop_end_time as it finds it:  *)
(* nothing has ever been written there.                                    *)
ScanInit ==
  /\ lidar_type \in LidarTypes
  /\ stage = "idle"
  /\ scan = <<>>
  /\ pl_surf = <<>>
  /\ frame_beg = SamplePeriod
  /\ drained = SamplePeriod
  /\ last_imu = SamplePeriod
  /\ v_imu = <<>>
  /\ last_prop_end_time \in Garbage
  /\ prop_beg_time = 0
  /\ IMUpose = <<>>
  /\ poses = <<>>
  /\ integrated = 0
  /\ moved = {}
  /\ frames = 0

-------------------------------------------------------------------------------
(* The handlers: the points they keep, and the times they give them. *)

\* The members of a set of numbers, from the least to the greatest.
Ascending(S) ==
  CHOOSE n \in [1 .. Cardinality(S) -> S] : \A k, l \in DOMAIN n : k < l => n[k] < n[l]

Cloud(kept, time) ==
  LET numbers == Ascending(kept)
  IN  [k \in DOMAIN numbers |-> [time |-> time[numbers[k]], number |-> numbers[k]]]

(* std::sort leaves points with the same time in any order.                *)
ByTime(cloud) ==
  {sorted \in {[k \in DOMAIN cloud |-> cloud[p[k]]] : p \in SetToSeqs(DOMAIN cloud)} :
     \A k, l \in DOMAIN sorted : k < l => sorted[k].time <= sorted[l].time}

Seen(s) == {i \in DOMAIN s : ~s[i].blind}
EveryNth(s) == {i \in DOMAIN s : (i - 1) % point_filter_num = 0}
Offsets(s) == [i \in DOMAIN s |-> s[i].offset_time]
FromFirst(s) == [i \in DOMAIN s |-> s[i].offset_time - s[1].offset_time]

(* avia_handler.  A line that is not taken leaves an empty point behind. *)
OnLine(s) == {i \in DOMAIN s : s[i].line < N_SCANS}

FarApart(a, b) == a - b >= Gap \/ b - a >= Gap

(* A time is doubted when it is far from the start of the scan. *)
TimesNearStart(s) ==
  LET time[i \in DOMAIN s] ==
        IF i \notin OnLine(s) THEN 0
        ELSE IF ~FarApart(s[i].offset_time, 0) THEN s[i].offset_time
        ELSE IF i = 1 THEN 0 ELSE time[i - 1]
  IN  time

(* A time that is doubted is replaced by the start of the scan. *)
RestartingTimes(s) ==
  LET time[i \in DOMAIN s] ==
        IF i \notin OnLine(s) \/ FarApart(s[i].offset_time, IF i = 1 THEN 0 ELSE time[i - 1])
        THEN 0 ELSE s[i].offset_time
  IN  time

AviaTimes(s) ==
  LET time[i \in DOMAIN s] ==
        LET before == IF i = 1 THEN 0 ELSE time[i - 1]
        IN  IF i \notin OnLine(s) THEN 0
            ELSE IF ~FarApart(s[i].offset_time, before) THEN s[i].offset_time
            ELSE IF i = 1 THEN 0 ELSE before + 1
  IN  time

AviaHandler(s) ==
  LET valid_num(i) == Cardinality({j \in OnLine(s) : j <= i})
  IN  Cloud({i \in OnLine(s) \cap Seen(s) : valid_num(i) % point_filter_num = 0}, AviaTimes(s))

(* velodyne_handler.  Without times from the driver the first point of     *)
(* every ring is dropped, and the others are timed by the yaw since then.  *)
GivenOffsetTime(s) == Last(s).offset_time > 0

SameRingBefore(s, i) == {j \in 1 .. i - 1 : s[j].line = s[i].line}

YawTimes(s) ==
  LET time[i \in DOMAIN s] ==
        IF SameRingBefore(s, i) = {} THEN 0
        ELSE LET since == (s[Min(SameRingBefore(s, i))].yaw - s[i].yaw) % Turn
             IN  IF since < time[Max(SameRingBefore(s, i))] THEN since + Turn ELSE since
  IN  time

VelodyneHandler(s) ==
  IF s = <<>> THEN <<>>
  ELSE IF GivenOffsetTime(s) THEN Cloud(EveryNth(s) \cap Seen(s), Offsets(s))
  ELSE Cloud({i \in EveryNth(s) \cap Seen(s) : SameRingBefore(s, i) # {}}, YawTimes(s))

L515Handler(s) == Cloud(EveryNth(s) \cap Seen(s), [i \in DOMAIN s |-> 0])
OusterHandler(s) == ByTime(Cloud(EveryNth(s) \cap Seen(s), Offsets(s)))
PandarHandler(s) == ByTime(Cloud(EveryNth(s) \cap Seen(s), FromFirst(s)))
RobosenseHandler(s) == ByTime(Cloud(EveryNth(s) \cap Seen(s), FromFirst(s)))
Xt32Handler(s) == Cloud(EveryNth(s) \cap Seen(s), FromFirst(s))

\* The clouds that may come of a scan.
Process(s) ==
  CASE lidar_type = "AVIA" -> {AviaHandler(s)}
    [] lidar_type = "VELO16" -> {VelodyneHandler(s)}
    [] lidar_type = "L515" -> {L515Handler(s)}
    [] lidar_type = "OUST64" -> OusterHandler(s)
    [] lidar_type = "PANDAR128" -> PandarHandler(s)
    [] lidar_type = "XT32" -> {Xt32Handler(s)}
    [] lidar_type = "ROBOSENSE" -> RobosenseHandler(s)

(* A scan arrives, not before the end of the last frame; earlier ones may  *)
(* have been lost.                                                         *)
ReceiveScan ==
  /\ stage = "idle"
  /\ \E s \in Scans, beg \in drained .. drained + MaxLost :
       /\ scan' = s
       /\ pl_surf' \in Process(s)
       /\ frame_beg' = beg
  /\ stage' = "scan"
  /\ UNCHANGED <<lidar_type, undistortVars>>

-------------------------------------------------------------------------------
(* UndistortPcl. *)

SamplesUpTo(end) == {t \in drained + 1 .. end : t % SamplePeriod = 0}

(* v_imu: the last sample of the frame before and those of this one. *)
WithLast(samples) == <<last_imu>> \o Ascending(samples)

(* The pairs of samples that are integrated, each named by its head.       *)
Pairs(v) == {i \in 1 .. Len(v) - 1 : v[i + 1] >= last_prop_end_time}

(* A sample before the frame counts from its own time. *)
StepFromSample(v, i, end) == IF i < Len(v) - 1 THEN v[i + 1] - v[i] ELSE end - v[i]

Step(v, i, end) ==
  IF v[i] < last_prop_end_time THEN v[i + 1] - last_prop_end_time
  ELSE IF i < Len(v) - 1 THEN v[i + 1] - v[i]
  ELSE end - v[i]

\* The sum of the steps.
Integrated(v, end) ==
  LET sum[i \in 0 .. Len(v) - 1] ==
        IF i = 0 THEN 0 ELSE sum[i - 1] + (IF i \in Pairs(v) THEN Step(v, i, end) ELSE 0)
  IN  sum[Len(v) - 1]

OffsetTime(v, i, end) ==
  IF v[i] < last_prop_end_time \/ i < Len(v) - 1 THEN v[i + 1] - last_prop_end_time
  ELSE end - last_prop_end_time

Poses(v, end) ==
  LET pairs == Ascending(Pairs(v))
  IN  [k \in DOMAIN pairs |-> OffsetTime(v, pairs[k], end)]

(* The pose a pair of samples ends with is taken for the one it starts with.*)
MoveWithNext(cloud, heads) ==
  LET move[at \in (0 .. Len(heads)) \X (1 .. Len(cloud))] ==
        LET k == at[1]
            i == at[2]
        IN  IF k = 0 THEN {}
            ELSE IF cloud[i].time <= heads[k] THEN move[<<k - 1, i>>]
            ELSE {<<i, k>>} \cup (IF i = 1 THEN move[<<k - 1, 1>>] ELSE move[<<k, i - 1>>])
  IN  move[<<Len(heads), Len(cloud)>>]

(* The loops over poses and points, both from the last to the first.  The  *)
(* first point is not left behind when it has been moved.                  *)
MoveAll(cloud, heads) ==
  LET move[at \in (0 .. Len(heads)) \X (1 .. Len(cloud))] ==
        LET k == at[1]
            i == at[2]
        IN  IF k = 0 THEN {}
            ELSE IF cloud[i].time <= heads[k] THEN move[<<k - 1, i>>]
            ELSE {<<i, k>>} \cup (IF i = 1 THEN move[<<k - 1, 1>>] ELSE move[<<k, i - 1>>])
  IN  move[<<Len(heads) - 1, Len(cloud)>>]

Undistort(cloud, v, end) ==
  /\ poses' = Append(IMUpose, 0) \o Poses(v, end)
  /\ IMUpose' = IF cloud = <<>> THEN poses' ELSE <<>>
  /\ moved' = IF cloud = <<>> THEN {} ELSE MoveAll(cloud, poses')
  /\ integrated' = Integrated(v, end)
  /\ v_imu' = v
  /\ last_imu' = Last(v)
  /\ prop_beg_time' = last_prop_end_time
  /\ last_prop_end_time' = end
  /\ drained' = end
  /\ frames' = IF frames = 0 THEN 1 ELSE 2
  /\ stage' = "done"

(* A frame of the deployed mode, from the first point of the scan to the   *)
(* last.  Some of the IMU samples may have been lost.                      *)
FrameEnd == frame_beg + Last(pl_surf).time

UndistortScan ==
  /\ stage = "scan"
  /\ Len(pl_surf) > 1
  /\ FrameEnd <= MaxTime
  /\ \E v \in {WithLast(samples) : samples \in SUBSET SamplesUpTo(FrameEnd)} :
       Undistort(pl_surf, v, FrameEnd)
  /\ UNCHANGED <<lidar_type, scanVars>>

(* With a camera a frame ends with an image, and may have no points: the   *)
(* poses are kept then.  (One such frame in a row is enough.)              *)
UndistortNothing ==
  /\ stage = "idle"
  /\ IMUpose = <<>>
  /\ \E end \in drained + 1 .. MaxTime :
       \E v \in {WithLast(samples) : samples \in SUBSET SamplesUpTo(end)} :
         Undistort(<<>>, v, end)
  /\ UNCHANGED <<lidar_type, scanVars>>

(* The cloud is handed on, or is one sync_packages does not take. *)
Done ==
  /\ \/ stage = "done"
     \/ stage = "scan" /\ (Len(pl_surf) > 1 => FrameEnd > MaxTime)
  /\ stage' = "idle"
  /\ scan' = <<>>
  /\ pl_surf' = <<>>
  /\ frame_beg' = drained
  /\ v_imu' = <<>>
  /\ poses' = <<>>
  /\ moved' = {}
  /\ integrated' = 0
  /\ prop_beg_time' = 0
  /\ UNCHANGED <<lidar_type, drained, last_imu, last_prop_end_time, IMUpose, frames>>

ScanNext ==
  \/ ReceiveScan
  \/ UndistortScan
  \/ UndistortNothing
  \/ Done

ScanSpec == ScanInit /\ [][ScanNext]_timingVars

-------------------------------------------------------------------------------
ScanTypeOK ==
  /\ lidar_type \in LidarTypes
  /\ stage \in {"idle", "scan", "done"}
  /\ scan \in Scans \cup {<<>>}
  /\ pl_surf \in Seq([time : Nat, number : DOMAIN scan])
  /\ frame_beg \in Nat
  /\ drained \in Nat
  /\ last_imu \in Nat
  /\ last_prop_end_time \in Garbage \cup Nat
  /\ prop_beg_time \in Garbage \cup Nat
  /\ v_imu \in Seq(Nat)
  /\ IMUpose \in Seq(Int)
  /\ poses \in Seq(Int)
  /\ integrated \in Int
  /\ moved \subseteq (DOMAIN pl_surf) \X (1 .. Len(poses))
  /\ frames \in 0 .. 2

(* Types hold, and what UndistortPcl takes for granted, going through the  *)
(* cloud backwards without sorting it: the times never go down, and none   *)
(* is before the scan. For the avia, whose cloud is never sorted, that     *)
(* needs a lidar that sends the points as it measures them and a scan_line *)
(* that takes every line.                                                  *)
InOrderAndTaken ==
  /\ OnLine(scan) = DOMAIN scan
  /\ \A i, j \in DOMAIN scan : i <= j => scan[i].offset_time <= scan[j].offset_time

Trusted ==
  \/ lidar_type \in {"OUST64", "PANDAR128", "ROBOSENSE", "L515"}
  \/ lidar_type = "AVIA" /\ InOrderAndTaken

TimesAscend ==
  /\ ScanTypeOK
  /\ Trusted => \A i, j \in DOMAIN pl_surf : i <= j => pl_surf[i].time <= pl_surf[j].time

(* A packet of the avia that is lost moves the points after it towards the *)
(* hole, never away from it, and only the points after it: the frame may   *)
(* end too early, but never later than it was scanned.                     *)
HoleBefore(n) ==
  \E i \in 1 .. n : FarApart(scan[i].offset_time, IF i = 1 THEN 0 ELSE scan[i - 1].offset_time)

NeverTooLate ==
  lidar_type = "AVIA" /\ InOrderAndTaken =>
    \A i \in DOMAIN pl_surf :
      LET sent == scan[pl_surf[i].number].offset_time
      IN  /\ pl_surf[i].time <= sent
          /\ ~HoleBefore(pl_surf[i].number) => pl_surf[i].time = sent

(* The integration covers the frame: from the end of the one before to its *)
(* own, whatever came first and wherever the samples lie, as long as there *)
(* are two; with fewer it falls short, and it never runs over.             *)
CoversFrame ==
  (stage = "done" /\ frames = 2) =>
    LET length == last_prop_end_time - prop_beg_time
    IN  /\ integrated <= length
        /\ Len(v_imu) > 2 => integrated = length /\ Last(poses) = length

(* Every point of a frame with samples is moved with one pose, the last    *)
(* before it was measured, in spite of the poses a frame without points    *)
(* left behind.  That leaves out a point with time 0, which is never moved,*)
(* and the first of the cloud, which is moved again with every earlier     *)
(* pose.                                                                   *)
EachPointOnce ==
  (stage = "done" /\ Len(v_imu) > 1 /\ frames = 2 /\ Trusted) =>
    \A i \in DOMAIN pl_surf \ {1} : pl_surf[i].time > 0 =>
      {k \in DOMAIN poses : <<i, k>> \in moved} =
        {Max({k \in 1 .. Len(poses) - 1 : poses[k] < pl_surf[i].time})}
===============================================================================
