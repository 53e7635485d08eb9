---------------------------- MODULE LivoSyncProofs ----------------------------
(***************************************************************************)
(* For any number of scans and images, any stamps the camera may give, any *)
(* length of a scan and any period of the IMU: the types and the coupling  *)
(* of images with their times, when the filter's time may jump, the time   *)
(* of every point, that no point is lost or mapped twice, and the samples  *)
(* of every frame.                                                         *)
(***************************************************************************)
EXTENDS LivoSync, SequenceTheorems, FiniteSetTheorems, WellFoundedInduction, TLAPS

-------------------------------------------------------------------------------
(* Arithmetic: scans do not overlap, and samples are a period apart.       *)

LEMMA Constants ==
  /\ NFrames \in Nat \ {0} /\ Span \in Nat \ {0} /\ SamplePeriod \in Nat \ {0}
  /\ NImages \in Nat /\ Stamps \subseteq Nat \ {0}
BY LidarAssumption, ImageAssumption

LEMMA ScansApart ==
  /\ \A f \in Nat : Beg(f) \in Int
  /\ \A f, g \in Nat : f < g => Beg(f) + Span <= Beg(g)
  /\ LastTime \in Nat
  /\ \A f \in 1 .. NFrames : Beg(f) \in 1 .. LastTime /\ Beg(f) + Span - 1 <= LastTime
<1>1. \A m \in Int : m * Span \in Int
  BY Constants
<1>2. \A d \in Nat : d * Span >= 0 /\ d * Span \in Nat
  BY Constants
<1>3. \A f, g \in Nat : f < g => (f - 1) * Span + Span <= (g - 1) * Span
  <2> SUFFICES ASSUME NEW f \in Nat, NEW g \in Nat, f < g
               PROVE  (f - 1) * Span + Span <= (g - 1) * Span
    OBVIOUS
  <2>1. PICK d \in Nat : g = f + 1 + d
    <3>1. g - f - 1 \in Nat /\ g = f + 1 + (g - f - 1)
      OBVIOUS
    <3> QED BY <3>1
  <2>2. (g - 1) * Span = (f - 1) * Span + Span + d * Span
    BY <2>1, Constants
  <2> QED BY <1>1, <1>2, <2>2, Constants
<1>4. \A f \in Nat : Beg(f) \in Int
  BY <1>1 DEF Beg
<1>5. \A f, g \in Nat : f < g => Beg(f) + Span <= Beg(g)
  BY <1>1, <1>3, Constants DEF Beg
<1>6. LastTime \in Nat
  BY <1>2, Constants DEF LastTime
<1>7. ASSUME NEW f \in 1 .. NFrames
      PROVE  Beg(f) \in 1 .. LastTime /\ Beg(f) + Span - 1 <= LastTime
  <2>1. f - 1 \in Nat /\ (f - 1) * Span >= 0 /\ (f - 1) * Span \in Int
    BY <1>2, Constants
  <2>2. f = NFrames \/ f < NFrames
    BY Constants
  <2>3. f * Span = (f - 1) * Span + Span
    BY Constants
  <2>4. f * Span <= NFrames * Span
    <3>1. CASE f < NFrames
      <4>1. (f - 1) * Span + Span <= (NFrames - 1) * Span
        BY <1>3, <3>1, Constants
      <4>2. NFrames * Span = (NFrames - 1) * Span + Span
        BY Constants
      <4> QED BY <1>1, <2>3, <4>1, <4>2, Constants
    <3>2. CASE f = NFrames
      BY <1>1, <3>2, Constants
    <3> QED BY <2>2, <3>1, <3>2
  <2> QED BY <1>6, <2>1, <2>3, <2>4, Constants DEF Beg, LastTime
<1> QED BY <1>4, <1>5, <1>6, <1>7

LEMMA SamplesApart ==
  ASSUME NEW t \in Nat, t % SamplePeriod = 0
  PROVE  /\ t + SamplePeriod \in Nat /\ (t + SamplePeriod) % SamplePeriod = 0
         /\ \A u \in Nat : (u % SamplePeriod = 0 /\ t <= u /\ u < t + SamplePeriod) => u = t
<1> DEFINE P == SamplePeriod
<1>1. P \in Nat \ {0}
  BY Constants
<1> HIDE DEF P
<1>2. ASSUME NEW x \in Int, NEW y \in Int, x < y
      PROVE  x * P + P <= y * P /\ x * P \in Int /\ y * P \in Int
  <2>1. PICK d \in Nat : y = x + 1 + d
    <3>1. y - x - 1 \in Nat /\ y = x + 1 + (y - x - 1)
      BY <1>2
    <3> QED BY <3>1
  <2>2. y * P = x * P + P + d * P
    BY <1>1, <2>1
  <2>3. d * P >= 0 /\ d * P \in Int
    BY <1>1
  <2> QED BY <1>1, <2>2, <2>3
<1>3. ASSUME NEW u \in Nat
      PROVE  /\ u \div P \in Int /\ u % P \in 0 .. P - 1
             /\ u = (u \div P) * P + (u % P)
  BY <1>1
<1>4. ASSUME NEW x \in Int, NEW y \in Int, NEW r \in 0 .. P - 1, x * P = y * P + r
      PROVE  r = 0 /\ x = y
  <2>1. x < y \/ x = y \/ y < x
    OBVIOUS
  <2>2. x * P \in Int /\ y * P \in Int
    BY <1>1
  <2> QED BY <1>1, <1>2, <1>4, <2>1, <2>2
<1> DEFINE Multiple(u) == \E x \in Int : u = x * P
<1>5. ASSUME NEW u \in Nat, u % P = 0
      PROVE  Multiple(u)
  <2>1. u \div P \in Int /\ u = (u \div P) * P + 0
    BY <1>3, <1>5
  <2>2. (u \div P) * P \in Int
    BY <1>1, <2>1
  <2>3. u = (u \div P) * P
    BY <2>1, <2>2
  <2> QED BY <2>1, <2>3
<1>6. t % P = 0
  BY DEF P
<1>7. PICK q \in Int : t = q * P
  BY <1>5, <1>6
<1>8. t + P \in Nat /\ (t + P) % P = 0
  <2>1. t + P \in Nat
    BY <1>1
  <2>2. (q + 1) * P = q * P + P
    BY <1>1
  <2>3. (q + 1) * P = ((t + P) \div P) * P + ((t + P) % P)
    BY <1>1, <1>3, <1>7, <2>1, <2>2
  <2> QED BY <1>3, <1>4, <2>1, <2>3
<1>9. ASSUME NEW u \in Nat, u % P = 0, t <= u, u < t + P
      PROVE  u = t
  <2>1. PICK r \in Int : u = r * P
    BY <1>9, <1>5
  <2>2. q < r \/ q = r \/ r < q
    OBVIOUS
  <2>3. q * P \in Int /\ r * P \in Int
    BY <1>1
  <2> QED BY <1>1, <1>2, <1>7, <1>9, <2>1, <2>2, <2>3
<1> QED BY <1>8, <1>9 DEF P

-------------------------------------------------------------------------------
(* Sequences. *)

LEMMA HeadIsFirst ==
  ASSUME NEW S, NEW s \in Seq(S), s # <<>>
  PROVE  Head(s) = s[1] /\ s[1] \in S /\ Len(s) \in Nat \ {0} /\ 1 \in DOMAIN s
BY EmptySeq

\* What is left of a sequence without its first n elements.
LEMMA Rest ==
  ASSUME NEW S, NEW s \in Seq(S), NEW n \in 0 .. Len(s)
  PROVE  /\ SubSeq(s, n + 1, Len(s)) \in Seq(S)
         /\ Len(SubSeq(s, n + 1, Len(s))) = Len(s) - n
         /\ \A i \in 1 .. Len(s) - n : SubSeq(s, n + 1, Len(s))[i] = s[n + i]
<1>1. Len(s) \in Nat /\ n \in Nat /\ n <= Len(s)
  BY LenProperties
<1>2. \A i \in n + 1 .. Len(s) : s[i] \in S
  <2>1. \A i \in 1 .. Len(s) : s[i] \in S
    BY ElementOfSeq
  <2> QED BY <1>1, <2>1
<1>3. /\ SubSeq(s, n + 1, Len(s)) \in Seq(S)
      /\ Len(SubSeq(s, n + 1, Len(s))) =
           IF n + 1 <= Len(s) THEN Len(s) - (n + 1) + 1 ELSE 0
      /\ \A i \in 1 .. Len(s) - (n + 1) + 1 : SubSeq(s, n + 1, Len(s))[i] = s[n + 1 + i - 1]
  BY <1>1, <1>2, SubSeqProperties
<1>4. Len(s) - (n + 1) + 1 = Len(s) - n /\ \A i \in Int : n + 1 + i - 1 = n + i
  BY <1>1
<1>5. Len(SubSeq(s, n + 1, Len(s))) = Len(s) - n
  BY <1>1, <1>3
<1>6. \A i \in 1 .. Len(s) - n : SubSeq(s, n + 1, Len(s))[i] = s[n + i]
  BY <1>3, <1>4
<1> QED BY <1>3, <1>5, <1>6

LEMMA TailIsRest ==
  ASSUME NEW S, NEW s \in Seq(S), s # <<>>
  PROVE  /\ Tail(s) \in Seq(S)
         /\ Len(Tail(s)) = Len(s) - 1
         /\ \A i \in 1 .. Len(s) - 1 : Tail(s)[i] = s[i + 1] /\ i + 1 \in 1 .. Len(s)
<1>1. Len(s) \in Nat \ {0}
  BY EmptySeq
<1> QED BY <1>1, HeadTailProperties

\* Every non-empty set of naturals has a least element.
LEMMA Least ==
  ASSUME NEW N, N \subseteq Nat, N # {}
  PROVE  \E n \in N : \A m \in N : n <= m
<1>1. PICK n \in N : \A m \in N : ~ (<<m, n>> \in OpToRel(<, Nat))
  BY WFMin, NatLessThanWellFounded
<1>2. \A m \in N : ~ (m < n)
  BY <1>1 DEF OpToRel
<1>3. n \in N /\ \A m \in N : n <= m
  BY <1>2
<1> QED BY <1>3

\* The loop over imu_buffer stops.
LEMMA LoopStops ==
  ASSUME imu_buffer \in Seq(ImuTimes), NEW t \in Int
  PROVE  Through(t) \in 0 .. Len(imu_buffer) /\ Stops(Through(t), t)
<1> DEFINE Later == {i \in 1 .. Len(imu_buffer) : imu_buffer[i] > t}
<1>1. Len(imu_buffer) \in Nat /\ \A i \in 1 .. Len(imu_buffer) : imu_buffer[i] \in Int
  <2>1. \A i \in 1 .. Len(imu_buffer) : imu_buffer[i] \in ImuTimes
    BY ElementOfSeq
  <2>2. ImuTimes \subseteq Int
    BY ScansApart DEF ImuTimes
  <2> QED BY <2>1, <2>2, LenProperties
<1>2. \E n \in 0 .. Len(imu_buffer) : Stops(n, t)
  <2>1. CASE Later = {}
    BY <1>1, <2>1 DEF Stops
  <2>2. CASE Later # {}
    <3>0. Later \subseteq Nat
      BY <1>1
    <3>1. PICK i \in Later : \A j \in Later : i <= j
      BY <3>0, <2>2, Least
    <3>2. \A j \in 1 .. i - 1 : imu_buffer[j] <= t
      BY <1>1, <3>1
    <3>3. i - 1 \in 0 .. Len(imu_buffer) /\ Stops(i - 1, t)
      BY <1>1, <3>1, <3>2 DEF Stops
    <3> QED BY <3>3
  <2> QED BY <2>1, <2>2
<1> QED BY <1>2 DEF Through

-------------------------------------------------------------------------------
(* Types. *)

\* The two buffers of the lidar go together, in the order of the scans.
Paired ==
  /\ Len(lid_raw_data_buffer) =
       Len(lid_header_time_buffer) + (IF pushing = "lidar" THEN 1 ELSE 0)
  /\ \A i \in 1 .. Len(lid_header_time_buffer) :
       lid_header_time_buffer[i] = Beg(lid_raw_data_buffer[i])
  /\ pushing = "lidar" => lid_raw_data_buffer[Len(lid_raw_data_buffer)] = lidar_next

\* The two of the camera: each image with its own time.
Coupled ==
  /\ Len(img_buffer) = Len(img_time_buffer) + (IF pushing = "img" THEN 1 ELSE 0)
  /\ \A i \in 1 .. Len(img_time_buffer) : img_time_buffer[i] = sent[img_buffer[i]]
  /\ pushing = "img" => img_buffer[Len(img_buffer)] = img_next /\ ~SameImage

LidarTypes ==
  /\ lidar_next \in Nat \ {0}
  /\ pushing \in {"lidar", "img", "none"}
  /\ pushing = "lidar" => lidar_next \in 1 .. NFrames
  /\ lid_raw_data_buffer \in Seq(1 .. NFrames)
  /\ lid_header_time_buffer \in Seq(1 .. LastTime)
  /\ last_timestamp_lidar \in (1 .. LastTime) \cup {-1}
  /\ Paired

ImuTypes ==
  /\ imu_next \in Nat \ {0} /\ imu_next % SamplePeriod = 0
  /\ imu_buffer \in Seq(ImuTimes)

ImageTypes ==
  /\ sent \in [1 .. NImages -> Stamps]
  /\ img_next \in Nat \ {0}
  /\ pushing = "img" => img_next \in 1 .. NImages
  /\ img_buffer \in Seq(1 .. NImages)
  /\ img_time_buffer \in Seq(Stamps)
  /\ last_timestamp_img \in Stamps \cup {-1}
  /\ Coupled

\* Where the timer is tells what the last cut and the image taken since are.
Phase ==
  /\ slam_mode # LIVO => timer = "idle" /\ lio_vio_flg \in {"WAIT", "LIO", "LO"}
  /\ slam_mode = LIVO => lio_vio_flg # "LO"
  /\ timer \in {"frame", "throw", "imu", "scans"} => lio_vio_flg \in {"WAIT", "VIO"}
  /\ timer = "image" => lio_vio_flg = "LIO"
  /\ timer \in {"peek", "pop"} => lio_vio_flg = "VIO"
  /\ timer = "process" => lio_vio_flg \in {"LIO", "VIO"}
  /\ lio_vio_flg = "VIO" => vio_time \in Stamps
  /\ (lio_vio_flg = "VIO" /\ timer \in {"pop", "process"}) => image \in 1 .. NImages
  /\ (slam_mode = LIVO /\ (lio_vio_flg \in {"LIO", "VIO"} \/ timer \in {"throw", "imu", "scans"})) =>
       capture # 0
  /\ capture # 0 => last_lio_update_time # -1
  /\ (slam_mode = LIVO /\ ~imu_need_init) => lio_vio_flg # "WAIT"

TimerTypes ==
  /\ slam_mode \in Modes /\ pose_output_en \in BOOLEAN /\ pub_scan_num \in ScanNums
  /\ timer \in Steps
  /\ lio_vio_flg \in {"WAIT", "LIO", "VIO", "LO"}
  /\ last_lio_update_time \in Nat \cup {-1}
  /\ capture \in Nat /\ vio_time \in Nat
  /\ image \in 0 .. NImages
  /\ imu \in Seq(ImuTimes)
  /\ pcl_proc_cur \in Clouds /\ pcl_proc_next \in Clouds
  /\ init_iter_num \in Nat \ {0} /\ imu_need_init \in BOOLEAN
  /\ Phase

ResultTypes ==
  /\ frames \in Seq([from : Nat, to : Nat, imu : Seq(ImuTimes), cloud : Clouds])
  /\ pcl_w_wait_pub \in Nat
  /\ pcl_wait_pub \subseteq Nat /\ pub_num \in Nat \ {0}
  /\ coloured \subseteq Nat \X (1 .. NImages) \X Stamps
  /\ jumped \in BOOLEAN

Types == LidarTypes /\ ImuTypes /\ ImageTypes /\ TimerTypes /\ ResultTypes

LEMMA TypesImply == Types => TypeOK
<1> SUFFICES ASSUME Types PROVE TypeOK
  OBVIOUS
<1>1. Len(img_time_buffer) = Len(img_buffer) - (IF pushing = "img" THEN 1 ELSE 0)
  BY LenProperties DEF Types, ImageTypes, Coupled
<1> QED
  BY <1>1 DEF Types, TypeOK, LidarTypes, ImuTypes, ImageTypes, TimerTypes, ResultTypes

LEMMA InitTypes == Init => Types
<1> SUFFICES ASSUME Init PROVE Types
  OBVIOUS
<1>1. /\ Len(lid_raw_data_buffer) = 0 /\ Len(lid_header_time_buffer) = 0
      /\ Len(img_buffer) = 0 /\ Len(img_time_buffer) = 0
      /\ pushing = "none"
  BY DEF Init
<1>2. LidarTypes
  BY <1>1, EmptySeq, Constants DEF Init, LidarTypes, Paired
<1>3. ImuTypes
  <2>1. SamplePeriod % SamplePeriod = 0
    <3>1. 0 \in Nat /\ 0 % SamplePeriod = 0 /\ 0 + SamplePeriod = SamplePeriod
      BY Constants
    <3> QED BY <3>1, SamplesApart
  <2> QED BY <2>1, EmptySeq, Constants DEF Init, ImuTypes
<1>4. ImageTypes
  BY <1>1, EmptySeq DEF Init, ImageTypes, Coupled
<1>5. Phase
  BY DEF Init, Phase
<1>6. TimerTypes
  <2>1. imu \in Seq(ImuTimes) /\ pcl_proc_cur \in Clouds /\ pcl_proc_next \in Clouds
    BY EmptySeq DEF Init, Clouds
  <2>2. timer \in Steps /\ lio_vio_flg = "WAIT"
    BY DEF Init, Steps
  <2>3. image \in 0 .. NImages
    BY Constants DEF Init
  <2>4. /\ last_lio_update_time \in Nat \cup {-1}
        /\ capture \in Nat /\ vio_time \in Nat
        /\ init_iter_num \in Nat \ {0} /\ imu_need_init \in BOOLEAN
        /\ slam_mode \in Modes /\ pose_output_en \in BOOLEAN /\ pub_scan_num \in ScanNums
    BY DEF Init
  <2> QED BY <1>5, <2>1, <2>2, <2>3, <2>4 DEF TimerTypes
<1>7. ResultTypes
  <2>1. frames \in Seq([from : Nat, to : Nat, imu : Seq(ImuTimes), cloud : Clouds])
    BY EmptySeq DEF Init
  <2>2. /\ pcl_w_wait_pub \in Nat /\ pcl_wait_pub \subseteq Nat /\ pub_num \in Nat \ {0}
        /\ coloured \subseteq Nat \X (1 .. NImages) \X Stamps
    BY DEF Init
  <2>3. jumped \in BOOLEAN
    BY DEF Init
  <2> QED BY <2>1, <2>2, <2>3 DEF ResultTypes
<1> QED BY <1>2, <1>3, <1>4, <1>6, <1>7 DEF Types

\* The callbacks of the lidar and of the IMU.
LEMMA LidarStepTypes ==
  ASSUME Types, PushCloud \/ PushCloudTime \/ LoseScan
  PROVE  Types'
<1> USE DEF configVars, nextVars, lidVars, imgVars, measVars, filterVars, colourVars
<1>1. /\ UNCHANGED <<configVars, imu_next, img_next, imu_buffer, imgVars, timer, measVars,
                     filterVars>>
      /\ pushing # "img" /\ pushing' # "img"
  BY DEF PushCloud, PushCloudTime, LoseScan, Unlocked
<1>2. ImuTypes' /\ ImageTypes' /\ TimerTypes' /\ ResultTypes'
  BY <1>1 DEF Types, ImuTypes, ImageTypes, Coupled, SameImage, TimerTypes, Phase, ResultTypes, Clouds, Points,
              ImuTimes
<1> DEFINE raw == lid_raw_data_buffer
           hdr == lid_header_time_buffer
<1>3. raw \in Seq(1 .. NFrames) /\ hdr \in Seq(1 .. LastTime) /\ Len(raw) \in Nat /\ Len(hdr) \in Nat
  BY LenProperties DEF Types, LidarTypes
<1>4. CASE PushCloud
  <2>1. lidar_next \in 1 .. NFrames /\ raw' = Append(raw, lidar_next) /\ hdr' = hdr
    BY <1>4 DEF PushCloud
  <2>2. /\ raw' \in Seq(1 .. NFrames) /\ Len(raw') = Len(raw) + 1
        /\ \A i \in 1 .. Len(raw) : raw'[i] = raw[i]
        /\ raw'[Len(raw) + 1] = lidar_next
    BY <1>3, <2>1, AppendProperties
  <2>3. Len(raw) = Len(hdr)
    BY <1>3, <1>4 DEF PushCloud, Unlocked, Types, LidarTypes, Paired
  <2>4. Paired'
    BY <1>3, <1>4, <2>1, <2>2, <2>3 DEF PushCloud, Types, LidarTypes, Paired
  <2>5. LidarTypes'
    BY <1>4, <2>1, <2>2, <2>4 DEF PushCloud, Types, LidarTypes
  <2> QED BY <1>2, <2>5 DEF Types
<1>5. CASE PushCloudTime
  <2>1. /\ lidar_next \in 1 .. NFrames /\ Beg(lidar_next) \in 1 .. LastTime
        /\ lidar_next' \in Nat \ {0}
    BY <1>5, ScansApart, Constants DEF PushCloudTime, Types, LidarTypes
  <2>2. raw' = raw /\ hdr' = Append(hdr, Beg(lidar_next)) /\ pushing = "lidar" /\ pushing' = "none"
    BY <1>5 DEF PushCloudTime
  <2>3. /\ hdr' \in Seq(1 .. LastTime) /\ Len(hdr') = Len(hdr) + 1
        /\ \A i \in 1 .. Len(hdr) : hdr'[i] = hdr[i]
        /\ hdr'[Len(hdr) + 1] = Beg(lidar_next)
    BY <1>3, <2>1, <2>2, AppendProperties
  <2>4. Len(raw) = Len(hdr) + 1 /\ raw[Len(hdr) + 1] = lidar_next
    BY <1>3, <2>2 DEF Types, LidarTypes, Paired
  <2>5. \A i \in 1 .. Len(hdr) + 1 : hdr'[i] = Beg(raw[i])
    <3> TAKE i \in 1 .. Len(hdr) + 1
    <3>1. i \in 1 .. Len(hdr) \/ i = Len(hdr) + 1
      BY <1>3
    <3> QED BY <2>3, <2>4, <3>1 DEF Types, LidarTypes, Paired
  <2>6. Paired'
    BY <1>3, <2>2, <2>3, <2>4, <2>5 DEF Paired
  <2>7. LidarTypes'
    BY <1>5, <2>1, <2>2, <2>3, <2>6 DEF PushCloudTime, Types, LidarTypes
  <2> QED BY <1>2, <2>7 DEF Types
<1>6. CASE LoseScan
  BY <1>2, <1>6 DEF LoseScan, Unlocked, Types, LidarTypes, Paired
<1> QED BY <1>4, <1>5, <1>6

LEMMA ImuCallbackTypes ==
  ASSUME Types, ImuCallback
  PROVE  Types'
<1> USE DEF configVars, nextVars, lidVars, imgVars, measVars, filterVars, colourVars
<1>1. UNCHANGED <<configVars, lidar_next, img_next, pushing, lidVars, imgVars, timer, measVars,
                  filterVars>>
  BY DEF ImuCallback
<1>2. LidarTypes' /\ ImageTypes' /\ TimerTypes' /\ ResultTypes'
  BY <1>1 DEF Types, LidarTypes, Paired, ImageTypes, Coupled, SameImage, TimerTypes, Phase, ResultTypes,
              Clouds, Points, ImuTimes
<1>3. imu_next' \in Nat \ {0} /\ imu_next' % SamplePeriod = 0
  BY SamplesApart, Constants DEF ImuCallback, Types, ImuTypes
<1>4. imu_next \in ImuTimes
  BY ScansApart DEF ImuCallback, Types, ImuTypes, ImuTimes
<1>5. imu_buffer' \in Seq(ImuTimes)
  <2>1. imu_buffer \in Seq(ImuTimes)
    BY DEF Types, ImuTypes
  <2>2. imu_buffer' = imu_buffer \/ imu_buffer' = Append(imu_buffer, imu_next)
    BY DEF ImuCallback
  <2> QED BY <1>4, <2>1, <2>2, AppendProperties
<1> QED BY <1>2, <1>3, <1>5 DEF Types, ImuTypes, ImuTimes

\* The callback of the camera: an image and its time, or an image too old.
LEMMA ImageStepTypes ==
  ASSUME Types, ImgCallback \/ PushImageTime
  PROVE  Types'
<1> USE DEF configVars, nextVars, lidVars, imgVars, measVars, filterVars, colourVars, ImageRest
<1> DEFINE imgs == img_buffer
           times == img_time_buffer
<1>1. UNCHANGED <<configVars, lidar_next, imu_next, lidVars, imu_buffer, timer, measVars, filterVars>>
  BY DEF ImgCallback, PushImageTime
<1>2. \/ pushing # "lidar" /\ pushing' # "lidar" /\ pushing' \in {"lidar", "img", "none"}
      \/ UNCHANGED pushing
  BY DEF ImgCallback, PushImageTime, ImageLoopsBack, Unlocked
<1>3. LidarTypes'
  BY <1>1, <1>2 DEF Types, LidarTypes, Paired
<1>4. ImuTypes' /\ TimerTypes' /\ ResultTypes'
  BY <1>1 DEF Types, ImuTypes, TimerTypes, Phase, ResultTypes, Clouds, Points, ImuTimes
<1>5. /\ imgs \in Seq(1 .. NImages) /\ times \in Seq(Stamps)
      /\ Len(imgs) \in Nat /\ Len(times) \in Nat
  BY LenProperties DEF Types, ImageTypes
<1>6. img_next \in 1 .. NImages /\ sent[img_next] \in Stamps /\ img_next + 1 \in Nat \ {0}
  BY DEF ImgCallback, PushImageTime, Types, ImageTypes
<1>7. CASE ImgCallback /\ SameImage
  <2>1. UNCHANGED <<pushing, imgVars>> /\ img_next' = img_next + 1
    BY <1>7 DEF ImgCallback
  <2>2. pushing # "img"
    BY <1>7 DEF Types, ImageTypes, Coupled
  <2>3. Coupled'
    BY <1>1, <2>1, <2>2 DEF Types, ImageTypes, Coupled
  <2>4. ImageTypes'
    BY <1>1, <1>6, <2>1, <2>2, <2>3 DEF Types, ImageTypes
  <2> QED BY <1>3, <1>4, <2>4 DEF Types
<1>8. CASE ImgCallback /\ ~SameImage /\ LoopBack
  <2>1. /\ imgs' = <<>> /\ times' = <<>> /\ pushing = "none" /\ pushing' = "none"
        /\ last_timestamp_img' = sent[img_next] /\ img_next' = img_next + 1
    BY <1>8 DEF ImgCallback, ImageLoopsBack, ClearImages, Unlocked
  <2>2. Coupled'
    BY <2>1 DEF Coupled
  <2>3. ImageTypes'
    BY <1>1, <1>6, <2>1, <2>2, EmptySeq DEF Types, ImageTypes
  <2> QED BY <1>3, <1>4, <2>3 DEF Types
<1>9. CASE ImgCallback /\ ~SameImage /\ ~LoopBack
  <2>1. /\ imgs' = Append(imgs, img_next) /\ times' = times
        /\ pushing = "none" /\ pushing' = "img"
        /\ UNCHANGED <<img_next, last_timestamp_img>>
    BY <1>9 DEF ImgCallback, Unlocked
  <2>2. /\ imgs' \in Seq(1 .. NImages) /\ Len(imgs') = Len(imgs) + 1
        /\ \A i \in 1 .. Len(imgs) : imgs'[i] = imgs[i]
        /\ imgs'[Len(imgs) + 1] = img_next
    BY <1>5, <1>6, <2>1, AppendProperties
  <2>3. Len(imgs) = Len(times)
    BY <1>5, <2>1 DEF Types, ImageTypes, Coupled
  <2>4. Coupled'
    BY <1>1, <1>5, <1>9, <2>1, <2>2, <2>3 DEF Types, ImageTypes, Coupled, SameImage
  <2>5. ImageTypes'
    BY <1>1, <1>6, <2>1, <2>2, <2>4 DEF Types, ImageTypes
  <2> QED BY <1>3, <1>4, <2>5 DEF Types
<1>10. CASE PushImageTime
  <2>1. /\ imgs' = imgs /\ times' = Append(times, sent[img_next])
        /\ pushing = "img" /\ pushing' = "none"
        /\ last_timestamp_img' = sent[img_next] /\ img_next' = img_next + 1
    BY <1>10 DEF PushImageTime
  <2>2. /\ times' \in Seq(Stamps) /\ Len(times') = Len(times) + 1
        /\ \A i \in 1 .. Len(times) : times'[i] = times[i]
        /\ times'[Len(times) + 1] = sent[img_next]
    BY <1>5, <1>6, <2>1, AppendProperties
  <2>3. Len(imgs) = Len(times) + 1 /\ imgs[Len(times) + 1] = img_next
    BY <1>5, <2>1 DEF Types, ImageTypes, Coupled
  <2>4. \A i \in 1 .. Len(times) + 1 : times'[i] = sent[imgs[i]]
    <3> TAKE i \in 1 .. Len(times) + 1
    <3>1. i \in 1 .. Len(times) \/ i = Len(times) + 1
      BY <1>5
    <3> QED BY <2>2, <2>3, <3>1 DEF Types, ImageTypes, Coupled
  <2>5. Coupled'
    BY <1>1, <1>5, <2>1, <2>2, <2>3, <2>4 DEF Coupled
  <2>6. ImageTypes'
    BY <1>1, <1>6, <2>1, <2>2, <2>5 DEF Types, ImageTypes
  <2> QED BY <1>3, <1>4, <2>6 DEF Types
<1> QED BY <1>7, <1>8, <1>9, <1>10

-------------------------------------------------------------------------------
(* What the timer's steps do to the buffers. *)

\* The images before a place in the queue go, with their times.
LEMMA ImagesCut ==
  ASSUME ImageTypes, NEW n \in 0 .. Len(img_time_buffer),
         img_buffer' = SubSeq(img_buffer, n + 1, Len(img_buffer)),
         img_time_buffer' = SubSeq(img_time_buffer, n + 1, Len(img_time_buffer)),
         UNCHANGED <<sent, img_next, pushing, last_timestamp_img>>
  PROVE  ImageTypes'
<1> DEFINE imgs == img_buffer
           times == img_time_buffer
<1>1. /\ imgs \in Seq(1 .. NImages) /\ times \in Seq(Stamps)
      /\ Len(imgs) \in Nat /\ Len(times) \in Nat /\ n \in Nat
      /\ Len(imgs) = Len(times) + (IF pushing = "img" THEN 1 ELSE 0)
      /\ n \in 0 .. Len(imgs)
  BY LenProperties DEF ImageTypes, Coupled
<1>2. /\ imgs' \in Seq(1 .. NImages) /\ Len(imgs') = Len(imgs) - n
      /\ \A i \in 1 .. Len(imgs) - n : imgs'[i] = imgs[n + i]
  BY <1>1, Rest
<1>3. /\ times' \in Seq(Stamps) /\ Len(times') = Len(times) - n
      /\ \A i \in 1 .. Len(times) - n : times'[i] = times[n + i]
  BY <1>1, Rest
<1>4. \A i \in 1 .. Len(times') : times'[i] = sent'[imgs'[i]]
  <2> TAKE i \in 1 .. Len(times')
  <2>1. i \in 1 .. Len(times) - n /\ i \in 1 .. Len(imgs) - n /\ n + i \in 1 .. Len(times)
    BY <1>1, <1>3
  <2>2. times[n + i] = sent[imgs[n + i]]
    BY <2>1 DEF ImageTypes, Coupled
  <2> QED BY <1>2, <1>3, <2>1, <2>2
<1>5. pushing = "img" => imgs'[Len(imgs')] = img_next
  <2> SUFFICES ASSUME pushing = "img" PROVE imgs'[Len(imgs')] = img_next
    OBVIOUS
  <2>1. Len(imgs) - n \in 1 .. Len(imgs) - n /\ n + (Len(imgs) - n) = Len(imgs)
    BY <1>1
  <2>2. imgs'[Len(imgs) - n] = imgs[Len(imgs)]
    BY <1>2, <2>1
  <2> QED BY <1>2, <2>2 DEF ImageTypes, Coupled
<1>6. Len(imgs') = Len(times') + (IF pushing' = "img" THEN 1 ELSE 0)
  <2>1. /\ pushing' = pushing /\ n \in Nat /\ Len(imgs) \in Nat /\ Len(times) \in Nat
        /\ Len(imgs) = Len(times) + (IF pushing = "img" THEN 1 ELSE 0)
        /\ Len(imgs') = Len(imgs) - n /\ Len(times') = Len(times) - n
    BY <1>1, <1>2, <1>3
  <2> QED BY ONLY <2>1
<1>7. Coupled'
  BY <1>4, <1>5, <1>6 DEF ImageTypes, Coupled, SameImage
<1> QED BY <1>2, <1>3, <1>7 DEF ImageTypes

\* The first image goes, with its time.
LEMMA ImagePopped ==
  ASSUME ImageTypes, PopImage, img_buffer # <<>>,
         UNCHANGED <<sent, img_next, pushing, last_timestamp_img>>
  PROVE  ImageTypes' /\ img_time_buffer # <<>>
<1> DEFINE imgs == img_buffer
           times == img_time_buffer
<1>1. /\ imgs \in Seq(1 .. NImages) /\ times \in Seq(Stamps)
      /\ Len(imgs) \in Nat \ {0} /\ pushing = "none" /\ Len(imgs) = Len(times)
  BY EmptySeq DEF ImageTypes, Coupled, PopImage, Unlocked
<1>2. times # <<>>
  BY <1>1
<1>3. /\ imgs' \in Seq(1 .. NImages) /\ Len(imgs') = Len(imgs) - 1
      /\ \A i \in 1 .. Len(imgs) - 1 : imgs'[i] = imgs[i + 1]
  BY <1>1, TailIsRest DEF PopImage
<1>4. /\ times' \in Seq(Stamps) /\ Len(times') = Len(times) - 1
      /\ \A i \in 1 .. Len(times) - 1 : times'[i] = times[i + 1]
  BY <1>1, <1>2, TailIsRest DEF PopImage
<1>5. \A i \in 1 .. Len(times') : times'[i] = sent'[imgs'[i]]
  <2> TAKE i \in 1 .. Len(times')
  <2>1. i \in 1 .. Len(times) - 1 /\ i + 1 \in 1 .. Len(times)
    BY <1>1, <1>4
  <2>2. times[i + 1] = sent[imgs[i + 1]]
    BY <2>1 DEF ImageTypes, Coupled
  <2> QED BY <1>1, <1>3, <1>4, <2>1, <2>2
<1>6. Coupled'
  BY <1>1, <1>3, <1>4, <1>5 DEF Coupled
<1> QED BY <1>2, <1>3, <1>4, <1>6 DEF ImageTypes

\* An image is saved and taken out, or the queue stays as it is.
LEMMA NearestIsOne ==
  ASSUME ImageTypes, img_time_buffer # <<>>, NEW time \in Nat
  PROVE  Nearest(time) \in 1 .. Len(img_time_buffer)
<1> DEFINE times == img_time_buffer
           D == 1 .. Len(times)
<1>1. times \in Seq(Stamps) /\ Len(times) \in Nat \ {0} /\ DOMAIN times = D /\ 1 \in D
  BY EmptySeq, LenProperties DEF ImageTypes
<1>2. \A i \in D : times[i] \in Nat
  BY <1>1, ElementOfSeq, Constants
<1>3. \A i \in D : Distance(i, time) \in Nat
  <2> TAKE i \in D
  <2>1. times[i] \in Nat
    BY <1>2
  <2>2. \E x \in {times[i] - time, time - times[i]} :
          \A y \in {times[i] - time, time - times[i]} : x >= y
    BY <2>1
  <2>3. \A x \in {times[i] - time, time - times[i]} :
          (\A y \in {times[i] - time, time - times[i]} : x >= y) => x \in Nat
    BY <2>1
  <2> QED BY <2>2, <2>3 DEF Distance, Max
<1> DEFINE N == {Distance(i, time) : i \in D}
           First == {i \in D : \A j \in D : Distance(i, time) <= Distance(j, time)}
<1>4. \E n \in N : \A m \in N : n <= m
  <2>1. N \subseteq Nat /\ N # {}
    BY <1>1, <1>3
  <2> HIDE DEF N
  <2> QED BY <2>1, Least
<1>5. First # {} /\ First \subseteq Nat
  BY <1>1, <1>4
<1>6. \E n \in First : \A m \in First : n <= m
  <2> HIDE DEF First
  <2> QED BY <1>5, Least
<1>7. Nearest(time) = CHOOSE x \in First : \A y \in First : x <= y
  BY <1>1 DEF Nearest, Min
<1>8. Nearest(time) \in First
  <2> HIDE DEF First
  <2> QED BY <1>6, <1>7
<1> QED BY <1>8

LEMMA LioHandled ==
  ASSUME ImageTypes, pcl_w_wait_pub \in Nat, NEW to \in Nat, NEW points, HandleLio(to, points),
         UNCHANGED <<sent, img_next, pushing, last_timestamp_img>>
  PROVE  ImageTypes' /\ pcl_w_wait_pub' \in Nat
<1>1. CASE points = <<>>
  BY <1>1 DEF HandleLio, ImageTypes, Coupled, SameImage
<1>2. CASE points # <<>>
  <2> DEFINE n == IF ImageToSave(to) THEN Nearest(to) ELSE 0
  <2>1. n \in 0 .. Len(img_time_buffer)
    <3>1. Len(img_time_buffer) \in Nat
      BY LenProperties DEF ImageTypes
    <3>2. ImageToSave(to) => Nearest(to) \in 1 .. Len(img_time_buffer)
      BY NearestIsOne DEF ImageToSave
    <3> QED BY <3>1, <3>2
  <2>2. /\ img_buffer' = SubSeq(img_buffer, n + 1, Len(img_buffer))
        /\ img_time_buffer' = SubSeq(img_time_buffer, n + 1, Len(img_time_buffer))
        /\ pcl_w_wait_pub' \in {to, 0}
    BY <1>2 DEF HandleLio, SaveImage
  <2> HIDE DEF n
  <2> QED BY <2>1, <2>2, ImagesCut
<1> QED BY <1>1, <1>2

\* A timed piece of a scan, and the pieces a cut makes.
LEMMA TimedPiece ==
  ASSUME NEW f \in 1 .. NFrames, NEW first \in 0 .. Span, NEW end \in 0 .. Span, first <= end,
         NEW since \in Int
  PROVE  /\ Timed(f, first, end, since) \in Clouds
         /\ Len(Timed(f, first, end, since)) = end - first
         /\ DOMAIN Timed(f, first, end, since) = 1 .. end - first
         /\ \A i \in 1 .. end - first :
              /\ first + i - 1 \in first .. end - 1
              /\ Timed(f, first, end, since)[i] =
                   [point |-> <<f, first + i - 1>>, curvature |-> first + i - 1 + Beg(f) - since]
<1> DEFINE n == end - first
           T == Timed(f, first, end, since)
<1>1. n \in Nat /\ first \in Nat /\ end \in Nat /\ end <= Span
  BY Constants
<1>2. \A i \in 1 .. n : first + i - 1 \in first .. end - 1 /\ first + i - 1 \in 0 .. Span - 1
  BY <1>1, Constants
<1>3. Beg(f) \in Int
  BY ScansApart, Constants
<1>4. T = [i \in 1 .. n |->
            [point |-> <<f, first + i - 1>>, curvature |-> first + i - 1 + Beg(f) - since]]
  BY DEF Timed
<1>5. \A i \in 1 .. n :
        [point |-> <<f, first + i - 1>>, curvature |-> first + i - 1 + Beg(f) - since]
          \in [point : Points, curvature : Int]
  BY <1>1, <1>2, <1>3 DEF Points
<1>6. T \in [1 .. n -> [point : Points, curvature : Int]]
  BY <1>4, <1>5
<1>7. T \in Clouds /\ Len(T) = n
  <2>1. T \in Seq([point : Points, curvature : Int])
    BY <1>1, <1>6, SeqDef
  <2>2. DOMAIN T = 1 .. n /\ DOMAIN T = 1 .. Len(T) /\ Len(T) \in Nat
    BY <1>6, <2>1, LenProperties
  <2> HIDE DEF T
  <2>3. Len(T) = n
    BY <1>1, <2>2
  <2> QED BY <2>1, <2>3 DEF Clouds
<1> QED BY <1>2, <1>4, <1>7

LEMMA ScanCut ==
  ASSUME LidarTypes, capture \in Nat, last_lio_update_time \in Int, ScansLeft,
         lid_header_time_buffer # <<>>
  PROVE  LET f == Head(lid_raw_data_buffer)
         IN  /\ f = lid_raw_data_buffer[1] /\ f \in 1 .. NFrames
             /\ 1 \in 1 .. Len(lid_header_time_buffer)
             /\ Head(lid_header_time_buffer) = Beg(f) /\ Beg(f) \in Nat /\ Beg(f) <= capture
             /\ Cut(f) \in 0 .. Span
             /\ BeforeCut(f) \in Clouds /\ LeftOver(f) \in Clouds
<1> DEFINE raw == lid_raw_data_buffer
           hdr == lid_header_time_buffer
           f == Head(raw)
<1>1. raw \in Seq(1 .. NFrames) /\ hdr \in Seq(1 .. LastTime) /\ raw # <<>> /\ hdr # <<>>
  BY DEF LidarTypes, ScansLeft
<1>2. f = raw[1] /\ f \in 1 .. NFrames /\ Head(hdr) = hdr[1] /\ Len(hdr) \in Nat \ {0}
  <2>1. f = raw[1] /\ raw[1] \in 1 .. NFrames
    BY ONLY <1>1, HeadIsFirst
  <2>2. Head(hdr) = hdr[1] /\ Len(hdr) \in Nat \ {0}
    BY ONLY <1>1, HeadIsFirst
  <2> QED BY <2>1, <2>2
<1>3. 1 \in 1 .. Len(hdr)
  BY <1>2
<1>4. hdr[1] = Beg(raw[1])
  BY <1>3 DEF LidarTypes, Paired
<1>5. Beg(f) \in Nat /\ Beg(f) <= capture
  <2>1. Head(hdr) <= capture
    BY <1>1 DEF ScansLeft
  <2>2. Beg(f) \in 1 .. LastTime
    BY <1>2, ScansApart
  <2> QED BY <1>2, <1>4, <2>1, <2>2, ScansApart
<1>6. Cut(f) \in 0 .. Span
  BY <1>5, Constants DEF Cut
<1>7. BeforeCut(f) \in Clouds /\ LeftOver(f) \in Clouds
  <2>1. 0 \in 0 .. Span /\ Span \in 0 .. Span /\ 0 <= Cut(f) /\ Cut(f) <= Span /\ capture \in Int
    BY <1>6, Constants
  <2> HIDE DEF f
  <2> QED BY <1>2, <1>6, <2>1, TimedPiece DEF BeforeCut, LeftOver
<1> QED BY <1>2, <1>3, <1>4, <1>5, <1>6, <1>7

\* The first scan and its time go.
LEMMA ScanTaken ==
  ASSUME LidarTypes, lid_raw_data_buffer # <<>>, lid_header_time_buffer # <<>>, Unlocked,
         lid_raw_data_buffer' = Tail(lid_raw_data_buffer),
         lid_header_time_buffer' = Tail(lid_header_time_buffer),
         UNCHANGED <<lidar_next, pushing, last_timestamp_lidar>>
  PROVE  LidarTypes'
<1> DEFINE raw == lid_raw_data_buffer
           hdr == lid_header_time_buffer
<1>1. /\ raw \in Seq(1 .. NFrames) /\ hdr \in Seq(1 .. LastTime) /\ Len(raw) \in Nat \ {0}
      /\ Len(raw) = Len(hdr) /\ pushing = "none"
  BY EmptySeq DEF LidarTypes, Paired, Unlocked
<1>2. /\ raw' \in Seq(1 .. NFrames) /\ Len(raw') = Len(raw) - 1
      /\ \A i \in 1 .. Len(raw) - 1 : raw'[i] = raw[i + 1]
  BY <1>1, TailIsRest
<1>3. /\ hdr' \in Seq(1 .. LastTime) /\ Len(hdr') = Len(hdr) - 1
      /\ \A i \in 1 .. Len(hdr) - 1 : hdr'[i] = hdr[i + 1]
  BY <1>1, TailIsRest
<1>4. \A i \in 1 .. Len(hdr') : hdr'[i] = Beg(raw'[i])
  <2> TAKE i \in 1 .. Len(hdr')
  <2>1. i \in 1 .. Len(hdr) - 1 /\ i + 1 \in 1 .. Len(hdr)
    BY <1>1, <1>3
  <2>2. hdr[i + 1] = Beg(raw[i + 1])
    BY <2>1 DEF LidarTypes, Paired
  <2> QED BY <1>1, <1>2, <1>3, <2>1, <2>2
<1>5. Paired'
  BY <1>1, <1>2, <1>3, <1>4 DEF Paired
<1> QED BY <1>1, <1>2, <1>3, <1>5 DEF LidarTypes

\* A run of the samples in the buffer, from one place in it to another.
LEMMA SamplesTaken ==
  ASSUME imu_buffer \in Seq(ImuTimes), NEW m \in 0 .. Len(imu_buffer), NEW n \in 0 .. Len(imu_buffer)
  PROVE  /\ SubSeq(imu_buffer, m + 1, n) \in Seq(ImuTimes)
         /\ Len(SubSeq(imu_buffer, m + 1, n)) = IF m <= n THEN n - m ELSE 0
         /\ \A i \in 1 .. n - m : SubSeq(imu_buffer, m + 1, n)[i] = imu_buffer[m + i]
<1>1. Len(imu_buffer) \in Nat /\ m \in Nat /\ n \in Nat /\ n <= Len(imu_buffer)
  BY LenProperties
<1>2. \A i \in m + 1 .. n : imu_buffer[i] \in ImuTimes
  <2>1. \A i \in 1 .. Len(imu_buffer) : imu_buffer[i] \in ImuTimes
    BY ElementOfSeq
  <2> QED BY <1>1, <2>1
<1>3. /\ SubSeq(imu_buffer, m + 1, n) \in Seq(ImuTimes)
      /\ Len(SubSeq(imu_buffer, m + 1, n)) = IF m + 1 <= n THEN n - (m + 1) + 1 ELSE 0
      /\ \A i \in 1 .. n - (m + 1) + 1 : SubSeq(imu_buffer, m + 1, n)[i] = imu_buffer[m + 1 + i - 1]
  BY <1>1, <1>2, SubSeqProperties
<1>4. n - (m + 1) + 1 = n - m /\ \A i \in Int : m + 1 + i - 1 = m + i
  BY <1>1
<1>5. Len(SubSeq(imu_buffer, m + 1, n)) = IF m <= n THEN n - m ELSE 0
  BY <1>1, <1>3
<1> QED BY <1>3, <1>4, <1>5

-------------------------------------------------------------------------------
(* The timer's steps keep the types. *)

LEMMA KeptTypes ==
  ASSUME Types, BuffersKept, TimerRest
  PROVE  LidarTypes' /\ ImuTypes' /\ ImageTypes'
BY DEF Types, BuffersKept, TimerRest, configVars, nextVars, LidarTypes, Paired, ImuTypes, ImuTimes,
       ImageTypes, Coupled, SameImage

\* The steps that only look.
LEMMA LookTypes ==
  ASSUME Types, TimerFires \/ FrameComplete \/ Undefined
  PROVE  Types'
<1> USE DEF configVars, measVars, filterVars, colourVars
<1>1. BuffersKept /\ TimerRest
  BY DEF TimerFires, FrameComplete, Undefined
<1>2. ResultTypes'
  BY <1>1 DEF Types, ResultTypes, TimerFires, FrameComplete, Undefined, TimerRest, Clouds, Points,
              ImuTimes
<1>3. UNCHANGED <<configVars, capture, vio_time, image, imu, pcl_proc_cur, pcl_proc_next,
                  init_iter_num, imu_need_init, last_lio_update_time>>
  BY <1>1 DEF TimerFires, FrameComplete, Undefined, TimerRest
<1>4. Phase'
  <2>1. CASE TimerFires
    BY <1>3, <2>1 DEF TimerFires, NextStep, Types, TimerTypes, Phase
  <2>2. CASE FrameComplete
    BY <1>3, <2>2 DEF FrameComplete, Types, TimerTypes, Phase
  <2>3. CASE Undefined
    BY <1>3, <2>3 DEF Undefined, ReadsEmpty, Types, TimerTypes, Phase
  <2> QED BY <2>1, <2>2, <2>3
<1>5. timer' \in Steps /\ lio_vio_flg' \in {"WAIT", "LIO", "VIO", "LO"}
  BY DEF TimerFires, FrameComplete, Undefined, NextStep, Steps, Types, TimerTypes
<1>6. TimerTypes'
  BY <1>3, <1>4, <1>5 DEF Types, TimerTypes, Clouds, Points, ImuTimes
<1> QED BY <1>1, <1>2, <1>6, KeptTypes DEF Types

LEMMA FirstUpdate ==
  ASSUME LidarTypes, last_lio_update_time \in Nat \cup {-1},
         lid_header_time_buffer # <<>>
  PROVE  FirstUpdateTime \in Nat
<1>1. Head(lid_header_time_buffer) \in 1 .. LastTime
  <2>1. lid_header_time_buffer \in Seq(1 .. LastTime) /\ lid_header_time_buffer # <<>>
    BY DEF LidarTypes
  <2> DEFINE hdr == lid_header_time_buffer
  <2>2. Head(hdr) = hdr[1] /\ hdr[1] \in 1 .. LastTime
    BY ONLY <2>1, HeadIsFirst
  <2> QED BY <2>2
<1> QED BY <1>1, ScansApart DEF FirstUpdateTime

\* The steps that read an image.
LEMMA ReadImageTimeTypes ==
  ASSUME Types, ReadImageTime
  PROVE  Types'
<1>1. BuffersKept /\ TimerRest
  BY DEF ReadImageTime
<1>2. ResultTypes'
  BY <1>1 DEF Types, ResultTypes, ReadImageTime, TimerRest, configVars, colourVars, Clouds,
              Points, ImuTimes
<1>3. UNCHANGED <<slam_mode, pose_output_en, pub_scan_num, sent, lio_vio_flg, vio_time, image, imu,
                  pcl_proc_cur, pcl_proc_next, init_iter_num, imu_need_init>>
  BY <1>1 DEF ReadImageTime, TimerRest, configVars
<1>4. capture' \in Nat \ {0} /\ last_lio_update_time' \in Nat
  <2>1. Head(img_time_buffer) \in Stamps
    BY HeadIsFirst DEF ReadImageTime, Types, ImageTypes
  <2> QED BY <2>1, Constants, FirstUpdate DEF ReadImageTime, Types, TimerTypes
<1>5. timer' \in {"throw", "imu", "idle"} /\ timer = "frame"
  BY DEF ReadImageTime
<1>6. Phase'
  BY <1>3, <1>4, <1>5 DEF Types, TimerTypes, Phase
<1>7. TimerTypes'
  BY <1>3, <1>4, <1>5, <1>6 DEF Types, TimerTypes, Clouds, Points, ImuTimes, Steps
<1> QED BY <1>1, <1>2, <1>7, KeptTypes DEF Types

LEMMA ReadVioTimeTypes ==
  ASSUME Types, ReadVioTime
  PROVE  Types'
<1> USE DEF configVars, filterVars, colourVars
<1>1. BuffersKept /\ TimerRest
  BY DEF ReadVioTime
<1>2. ResultTypes'
  BY <1>1 DEF Types, ResultTypes, ReadVioTime, TimerRest, Clouds, Points, ImuTimes
<1>3. UNCHANGED <<configVars, capture, image, last_lio_update_time, pcl_proc_cur, pcl_proc_next,
                  init_iter_num, imu_need_init>>
  BY <1>1 DEF ReadVioTime, TimerRest
<1>4. vio_time' \in Stamps /\ vio_time' \in Nat
  <2>1. Head(img_time_buffer) \in Stamps
    BY HeadIsFirst DEF ReadVioTime, Types, ImageTypes
  <2> QED BY <2>1, Constants DEF ReadVioTime
<1>5. timer' = "peek" /\ lio_vio_flg' = "VIO" /\ imu' = <<>> /\ timer = "image"
  BY DEF ReadVioTime
<1>6. Phase'
  BY <1>3, <1>4, <1>5 DEF Types, TimerTypes, Phase
<1>7. imu' \in Seq(ImuTimes')
  BY <1>5, EmptySeq
<1>8. TimerTypes'
  BY <1>3, <1>4, <1>5, <1>6, <1>7 DEF Types, TimerTypes, Clouds, Points, ImuTimes, Steps
<1> QED BY <1>1, <1>2, <1>8, KeptTypes DEF Types

LEMMA ReadImageTypes ==
  ASSUME Types, ReadImage
  PROVE  Types'
<1> USE DEF configVars, filterVars, colourVars
<1>1. BuffersKept /\ TimerRest
  BY DEF ReadImage
<1>2. ResultTypes'
  BY <1>1 DEF Types, ResultTypes, ReadImage, TimerRest, Clouds, Points, ImuTimes
<1>3. UNCHANGED <<configVars, lio_vio_flg, capture, vio_time, imu, last_lio_update_time,
                  pcl_proc_cur, pcl_proc_next, init_iter_num, imu_need_init>>
  BY <1>1 DEF ReadImage, TimerRest
<1>4. image' \in 1 .. NImages /\ image' \in 0 .. NImages
  <2>1. Head(img_buffer) \in 1 .. NImages
    <3> DEFINE imgs == img_buffer
    <3>1. imgs \in Seq(1 .. NImages) /\ imgs # <<>>
      BY DEF ReadImage, Types, ImageTypes
    <3>2. Head(imgs) = imgs[1] /\ imgs[1] \in 1 .. NImages
      BY ONLY <3>1, HeadIsFirst
    <3> QED BY <3>2
  <2> QED BY <2>1, Constants DEF ReadImage
<1>5. timer' = "pop" /\ timer = "peek"
  BY DEF ReadImage
<1>6. Phase'
  BY <1>3, <1>4, <1>5 DEF Types, TimerTypes, Phase
<1>7. TimerTypes'
  BY <1>3, <1>4, <1>5, <1>6 DEF Types, TimerTypes, Clouds, Points, ImuTimes, Steps
<1> QED BY <1>1, <1>2, <1>7, KeptTypes DEF Types

\* The steps that take one out.
LEMMA PopTypes ==
  ASSUME Types, ThrowImage \/ TakeImage
  PROVE  Types'
<1> USE DEF configVars, nextVars, measVars, filterVars, colourVars
<1>1. /\ TimerRest /\ PopImage /\ img_buffer # <<>>
      /\ UNCHANGED <<lid_raw_data_buffer, lid_header_time_buffer, imu_buffer, measVars, filterVars>>
  BY DEF ThrowImage, TakeImage
<1>2. ImageTypes'
  BY <1>1, ImagePopped DEF Types, TimerRest
<1>3. LidarTypes' /\ ImuTypes' /\ ResultTypes'
  BY <1>1 DEF TimerRest, Types, LidarTypes, Paired, ImuTypes, ResultTypes, Clouds, Points, ImuTimes
<1>4. \/ timer = "throw" /\ timer' = "idle"
      \/ timer = "pop" /\ timer' = "process"
  BY DEF ThrowImage, TakeImage
<1>5. UNCHANGED configVars
  BY <1>1 DEF TimerRest
<1>6. Phase'
  BY <1>1, <1>4, <1>5 DEF Types, TimerTypes, Phase
<1>7. TimerTypes'
  BY <1>1, <1>4, <1>5, <1>6 DEF Types, TimerTypes, Clouds, Points, ImuTimes, Steps
<1> QED BY <1>2, <1>3, <1>7 DEF Types

\* The steps that make the measure group.
LEMMA DrainImuTypes ==
  ASSUME Types, DrainImu
  PROVE  Types'
<1> USE DEF configVars, nextVars, filterVars, colourVars
<1>1. /\ TimerRest
      /\ UNCHANGED <<lid_raw_data_buffer, lid_header_time_buffer, img_buffer, img_time_buffer,
                     lio_vio_flg, capture, vio_time, image, filterVars>>
      /\ timer = "imu" /\ timer' = "scans"
      /\ pcl_proc_cur' = pcl_proc_next /\ pcl_proc_next' = <<>>
  BY DEF DrainImu, TakeLeftOver
<1>2. LidarTypes' /\ ImageTypes' /\ ResultTypes'
  BY <1>1 DEF TimerRest, Types, LidarTypes, Paired, ImageTypes, Coupled, SameImage, ResultTypes,
              Clouds, Points, ImuTimes
<1>3. imu_buffer' \in Seq(ImuTimes) /\ imu' \in Seq(ImuTimes)
  <2>1. imu_buffer \in Seq(ImuTimes) /\ last_lio_update_time \in Int /\ capture \in Int
    BY DEF Types, ImuTypes, TimerTypes
  <2>2. /\ Through(last_lio_update_time) \in 0 .. Len(imu_buffer)
        /\ Through(capture) \in 0 .. Len(imu_buffer)
    BY <2>1, LoopStops
  <2>3. SamplesAfter(capture) \in Seq(ImuTimes)
    BY <2>1, <2>2, Rest DEF SamplesAfter
  <2>4. SubSeq(imu_buffer, Through(last_lio_update_time) + 1, Through(capture)) \in Seq(ImuTimes)
    BY <2>1, <2>2, SamplesTaken
  <2> QED BY <2>3, <2>4 DEF DrainImu
<1>4. ImuTypes'
  BY <1>1, <1>3 DEF TimerRest, Types, ImuTypes, ImuTimes
<1>5. Phase'
  BY <1>1 DEF TimerRest, Types, TimerTypes, Phase
<1>6. pcl_proc_cur' \in Clouds' /\ pcl_proc_next' \in Clouds' /\ imu' \in Seq(ImuTimes')
  BY <1>1, <1>3, EmptySeq DEF Types, TimerTypes, Clouds, Points, ImuTimes
<1>7. TimerTypes'
  BY <1>1, <1>5, <1>6 DEF TimerRest, Types, TimerTypes, Steps
<1> QED BY <1>2, <1>4, <1>7 DEF Types

LEMMA CutScanTypes ==
  ASSUME Types, CutScan
  PROVE  Types'
<1> USE DEF configVars, nextVars, filterVars, colourVars
<1>1. /\ TimerRest /\ Unlocked /\ ScansLeft /\ lid_header_time_buffer # <<>>
      /\ lid_raw_data_buffer # <<>>
      /\ lid_raw_data_buffer' = Tail(lid_raw_data_buffer)
      /\ lid_header_time_buffer' = Tail(lid_header_time_buffer)
      /\ UNCHANGED <<imu_buffer, img_buffer, img_time_buffer, timer, lio_vio_flg, capture, vio_time,
                     image, imu, filterVars>>
  BY DEF CutScan, ScansLeft
<1>2. LidarTypes'
  BY <1>1, ScanTaken DEF TimerRest, Types
<1>3. ImuTypes' /\ ImageTypes' /\ ResultTypes'
  BY <1>1 DEF TimerRest, Types, ImuTypes, ImageTypes, Coupled, SameImage, ResultTypes, Clouds,
              Points, ImuTimes
<1>4. pcl_proc_cur' \in Clouds' /\ pcl_proc_next' \in Clouds'
  <2> DEFINE f == Head(lid_raw_data_buffer)
  <2>1. BeforeCut(f) \in Clouds /\ LeftOver(f) \in Clouds
    BY <1>1, ScanCut DEF Types, TimerTypes
  <2>2. pcl_proc_cur' = pcl_proc_cur \o BeforeCut(f) /\ pcl_proc_next' = pcl_proc_next \o LeftOver(f)
    BY DEF CutScan
  <2>3. pcl_proc_cur \in Clouds /\ pcl_proc_next \in Clouds
    BY DEF Types, TimerTypes
  <2> HIDE DEF f
  <2>4. pcl_proc_cur \o BeforeCut(f) \in Clouds /\ pcl_proc_next \o LeftOver(f) \in Clouds
    BY <2>1, <2>3, ConcatProperties DEF Clouds
  <2> QED BY <2>2, <2>4 DEF Clouds, Points
<1>5. Phase'
  BY <1>1 DEF TimerRest, Types, TimerTypes, Phase
<1>6. TimerTypes'
  BY <1>1, <1>4, <1>5 DEF TimerRest, Types, TimerTypes, Steps, ImuTimes
<1> QED BY <1>2, <1>3, <1>6 DEF Types

\* The steps of the filter.
LEMMA ProcessLioTypes ==
  ASSUME Types, ProcessLio
  PROVE  Types'
<1> USE DEF configVars, nextVars, measVars, colourVars
<1>1. /\ TimerRest /\ timer = "process" /\ lio_vio_flg = "LIO" /\ timer' = "idle"
      /\ UNCHANGED <<lid_raw_data_buffer, lid_header_time_buffer, imu_buffer, measVars, colourVars>>
  BY DEF ProcessLio
<1>2. slam_mode = LIVO /\ capture # 0 /\ last_lio_update_time \in Nat
  BY <1>1 DEF Types, TimerTypes, Phase
<1>3. LidarTypes' /\ ImuTypes'
  BY <1>1 DEF TimerRest, Types, LidarTypes, Paired, ImuTypes, ImuTimes
<1>4. CASE imu_need_init
  <2>1. UNCHANGED <<img_buffer, img_time_buffer, last_lio_update_time, frames, pcl_w_wait_pub, jumped>>
    BY <1>4 DEF ProcessLio, InitialiseImu
  <2>2. ImageTypes' /\ ResultTypes'
    BY <1>1, <2>1 DEF TimerRest, Types, ImageTypes, Coupled, SameImage, ResultTypes, Clouds,
                      Points, ImuTimes
  <2>3. init_iter_num' \in Nat \ {0} /\ imu_need_init' \in BOOLEAN
    <3>1. Len(imu) \in Nat /\ init_iter_num \in Nat \ {0}
      BY LenProperties DEF Types, TimerTypes
    <3>2. /\ init_iter_num' = init_iter_num + Len(imu)
          /\ imu_need_init' = (imu = <<>> \/ init_iter_num' <= MAX_INI_COUNT)
      BY <1>4 DEF ProcessLio, InitialiseImu
    <3> QED BY <3>1, <3>2
  <2>4. Phase'
    BY <1>1, <1>2, <2>1 DEF TimerRest, Types, TimerTypes, Phase
  <2>5. TimerTypes'
    BY <1>1, <2>1, <2>3, <2>4 DEF TimerRest, Types, TimerTypes, Steps, Clouds, Points, ImuTimes
  <2> QED BY <1>3, <2>2, <2>5 DEF Types
<1>5. CASE ~imu_need_init
  <2>1. /\ HandleLio(capture, pcl_proc_cur)
        /\ frames' = Append(frames, [from |-> last_lio_update_time, to |-> capture,
                                     imu |-> imu, cloud |-> pcl_proc_cur])
        /\ last_lio_update_time' = capture
        /\ UNCHANGED <<init_iter_num, imu_need_init, jumped>>
    BY <1>5 DEF ProcessLio
  <2>2. capture \in Nat /\ imu \in Seq(ImuTimes) /\ pcl_proc_cur \in Clouds /\ pcl_w_wait_pub \in Nat
    BY DEF Types, TimerTypes, ResultTypes
  <2>3. ImageTypes' /\ pcl_w_wait_pub' \in Nat
    BY <1>1, <2>1, <2>2, LioHandled DEF TimerRest, Types
  <2> DEFINE F == [from : Nat, to : Nat, imu : Seq(ImuTimes), cloud : Clouds]
             fr == [from |-> last_lio_update_time, to |-> capture, imu |-> imu,
                    cloud |-> pcl_proc_cur]
  <2>5. frames' \in Seq(F)
    <3>1. fr \in F /\ frames \in Seq(F) /\ frames' = Append(frames, fr)
      BY <1>2, <2>1, <2>2 DEF Types, ResultTypes
    <3> HIDE DEF F, fr
    <3> QED BY <3>1, AppendProperties
  <2>6. ResultTypes'
    BY <1>1, <2>1, <2>3, <2>5 DEF TimerRest, Types, ResultTypes, Clouds, Points, ImuTimes
  <2>7. Phase'
    BY <1>1, <1>2, <2>1, <2>2 DEF TimerRest, Types, TimerTypes, Phase
  <2>8. TimerTypes'
    BY <1>1, <2>1, <2>2, <2>7 DEF TimerRest, Types, TimerTypes, Steps, Clouds, Points, ImuTimes
  <2> QED BY <1>3, <2>3, <2>6, <2>8 DEF Types
<1> QED BY <1>4, <1>5

\* What publish_frame_world does to the frames that wait.
LEMMA FramesColoured ==
  ASSUME ResultTypes, ColourFrames, image \in 1 .. NImages, vio_time \in Stamps,
         UNCHANGED <<image, vio_time>>
  PROVE  /\ pcl_wait_pub' \subseteq Nat /\ pub_num' \in Nat \ {0}
         /\ coloured' \subseteq Nat \X (1 .. NImages) \X Stamps
         /\ pcl_wait_pub' \subseteq Waiting
         /\ \A c \in coloured' :
              c \in coloured \/ (c[1] \in Waiting /\ c[2] = image /\ c[3] = vio_time)
         /\ coloured' = coloured \/ pcl_wait_pub' = {}
<1>1. Waiting \subseteq Nat
  BY DEF ResultTypes, Waiting
<1>2. CASE pub_num = pub_scan_num
  <2>1. PICK seen \in SUBSET Waiting :
          /\ coloured' = coloured \cup {<<f, image, vio_time>> : f \in seen}
          /\ pcl_wait_pub' = WaitOn(seen)
          /\ pub_num' = 1
    BY <1>2 DEF ColourFrames
  <2>2. \A c \in coloured' :
          c \in coloured \/ (c[1] \in Waiting /\ c[2] = image /\ c[3] = vio_time)
    BY <2>1
  <2>3. coloured' \subseteq Nat \X (1 .. NImages) \X Stamps
    BY <1>1, <2>1 DEF ResultTypes
  <2>4. pcl_wait_pub' \subseteq Waiting
    BY <2>1 DEF WaitOn
  <2>5. pcl_wait_pub' \subseteq Nat
    BY <1>1, <2>4
  <2>6. coloured' = coloured \/ pcl_wait_pub' = {}
    <3>1. CASE seen = {}
      BY <2>1, <3>1
    <3>2. CASE seen # {}
      BY <2>1, <3>2 DEF WaitOn
    <3> QED BY <3>1, <3>2
  <2>7. pub_num' \in Nat \ {0}
    BY <2>1
  <2> QED BY <2>2, <2>3, <2>4, <2>5, <2>6, <2>7
<1>3. CASE pub_num # pub_scan_num
  <2>1. pub_num' = pub_num + 1 /\ pcl_wait_pub' = Waiting /\ coloured' = coloured
    BY <1>3 DEF ColourFrames
  <2>2. pub_num' \in Nat \ {0} /\ coloured' \subseteq Nat \X (1 .. NImages) \X Stamps
    BY <2>1 DEF ResultTypes
  <2>3. \A c \in coloured' : c \in coloured
    BY <2>1
  <2> QED BY <1>1, <2>1, <2>2, <2>3
<1> QED BY <1>2, <1>3

LEMMA ProcessVioTypes ==
  ASSUME Types, ProcessVio
  PROVE  Types'
<1> USE DEF configVars, nextVars, measVars
<1>1. /\ TimerRest /\ BuffersKept /\ timer = "process" /\ lio_vio_flg = "VIO" /\ timer' = "idle"
      /\ UNCHANGED <<measVars, init_iter_num, imu_need_init, frames>>
  BY DEF ProcessVio
<1>2. image \in 1 .. NImages /\ vio_time \in Stamps /\ vio_time \in Nat
  BY <1>1, Constants DEF Types, TimerTypes, Phase
<1>3. last_lio_update_time' \in {last_lio_update_time, vio_time}
  BY DEF ProcessVio
<1>4. jumped' \in BOOLEAN
  <2>1. jumped' = jumped \/ jumped' = (jumped \/ vio_time # capture)
    BY DEF ProcessVio
  <2> QED BY <2>1 DEF Types, ResultTypes
<1>5. /\ pcl_w_wait_pub' \in Nat /\ pcl_wait_pub' \subseteq Nat /\ pub_num' \in Nat \ {0}
      /\ coloured' \subseteq Nat \X (1 .. NImages) \X Stamps
  <2>1. CASE UNCHANGED <<pcl_w_wait_pub, colourVars>>
    BY <2>1 DEF colourVars, Types, ResultTypes
  <2>2. CASE ColourFrames /\ pcl_w_wait_pub' = 0
    BY <1>1, <1>2, <2>2, FramesColoured DEF Types
  <2> QED BY <2>1, <2>2 DEF ProcessVio, HandleVio
<1>6. ResultTypes'
  BY <1>1, <1>4, <1>5 DEF Types, ResultTypes, Clouds, Points, ImuTimes
<1>7. Phase'
  BY <1>1, <1>2, <1>3 DEF TimerRest, Types, TimerTypes, Phase
<1>8. TimerTypes'
  BY <1>1, <1>2, <1>3, <1>7 DEF TimerRest, Types, TimerTypes, Steps, Clouds, Points, ImuTimes
<1> QED BY <1>1, <1>6, <1>8, KeptTypes DEF Types

LEMMA LidarFrameTypes ==
  ASSUME Types, LidarFrame
  PROVE  Types'
<1> USE DEF configVars, nextVars, colourVars
<1>1. /\ TimerRest /\ Unlocked /\ timer = "idle" /\ slam_mode # LIVO
      /\ lid_raw_data_buffer # <<>>
      /\ imu' = SubSeq(imu_buffer, 1, Through(LidarFrameEnd))
      /\ imu_buffer' = SamplesAfter(LidarFrameEnd)
      /\ lid_raw_data_buffer' = Tail(lid_raw_data_buffer)
      /\ lid_header_time_buffer' = Tail(lid_header_time_buffer)
      /\ UNCHANGED <<timer, capture, vio_time, image, pcl_proc_cur, pcl_proc_next, frames, colourVars,
                     jumped>>
  BY DEF LidarFrame
<1>2. lid_header_time_buffer # <<>>
  <2>1. /\ Len(lid_raw_data_buffer) \in Nat \ {0}
        /\ Len(lid_header_time_buffer) = Len(lid_raw_data_buffer)
    BY <1>1, EmptySeq DEF Types, LidarTypes, Paired, Unlocked
  <2> QED BY <2>1
<1>3. LidarTypes'
  BY <1>1, <1>2, ScanTaken DEF TimerRest, Types
<1>4. LidarFrameEnd \in Nat /\ FirstUpdateTime \in Nat
  <2>1. lid_header_time_buffer \in Seq(1 .. LastTime)
    BY DEF Types, LidarTypes
  <2> DEFINE hdr == lid_header_time_buffer
  <2>2. Head(hdr) = hdr[1] /\ hdr[1] \in 1 .. LastTime
    BY ONLY <1>2, <2>1, HeadIsFirst
  <2>3. FirstUpdateTime \in Nat
    BY <1>2, FirstUpdate DEF Types, TimerTypes
  <2> QED BY <2>2, <2>3, ScansApart, Constants DEF LidarFrameEnd
<1>5. imu_buffer' \in Seq(ImuTimes) /\ imu' \in Seq(ImuTimes)
  <2>1. imu_buffer \in Seq(ImuTimes) /\ LidarFrameEnd \in Int
    BY <1>4 DEF Types, ImuTypes
  <2>2. Through(LidarFrameEnd) \in 0 .. Len(imu_buffer) /\ 0 \in 0 .. Len(imu_buffer)
    BY <2>1, LoopStops, LenProperties
  <2>3. SamplesAfter(LidarFrameEnd) \in Seq(ImuTimes)
    BY <2>1, <2>2, Rest DEF SamplesAfter
  <2>4. SubSeq(imu_buffer, 0 + 1, Through(LidarFrameEnd)) \in Seq(ImuTimes)
    BY <2>1, <2>2, SamplesTaken
  <2> QED BY <1>1, <2>3, <2>4
<1>6. ImuTypes'
  BY <1>1, <1>5 DEF TimerRest, Types, ImuTypes, ImuTimes
<1>7. lio_vio_flg' \in {"LIO", "LO"} /\ last_lio_update_time' \in Nat
  BY <1>4 DEF LidarFrame
<1>8. ImageTypes' /\ pcl_w_wait_pub' \in Nat
  <2>1. CASE slam_mode = "ONLY_LIO" /\ imu_need_init
    BY <1>1, <2>1 DEF LidarFrame, TimerRest, Types, ImageTypes, Coupled, SameImage, ResultTypes
  <2>2. CASE ~(slam_mode = "ONLY_LIO" /\ imu_need_init)
    <3>1. HandleLio(LidarFrameEnd, <<Head(lid_raw_data_buffer)>>)
      BY <2>2 DEF LidarFrame
    <3> QED BY <1>1, <1>4, <3>1, LioHandled DEF TimerRest, Types, ResultTypes
  <2> QED BY <2>1, <2>2
<1>9. ResultTypes'
  BY <1>1, <1>8 DEF TimerRest, Types, ResultTypes, Clouds, Points, ImuTimes
<1>10. init_iter_num' \in Nat \ {0} /\ imu_need_init' \in BOOLEAN
  <2>1. Len(imu') \in Nat /\ init_iter_num \in Nat \ {0} /\ imu_need_init \in BOOLEAN
    BY <1>5, LenProperties DEF Types, TimerTypes
  <2>2. init_iter_num' = init_iter_num \/ init_iter_num' = init_iter_num + Len(imu')
    BY DEF LidarFrame
  <2>3. \/ imu_need_init' = imu_need_init
        \/ imu_need_init' = (imu' = <<>> \/ init_iter_num' <= MAX_INI_COUNT)
    BY DEF LidarFrame
  <2>4. init_iter_num' \in Nat \ {0}
    BY <2>1, <2>2
  <2>5. imu_need_init' \in BOOLEAN
    BY <2>1, <2>3
  <2> QED BY <2>4, <2>5
<1>11. Phase'
  BY <1>1, <1>7 DEF TimerRest, Types, TimerTypes, Phase
<1>12. TimerTypes'
  BY <1>1, <1>5, <1>7, <1>10, <1>11
     DEF TimerRest, Types, TimerTypes, Steps, Clouds, Points, ImuTimes
<1> QED BY <1>3, <1>6, <1>8, <1>9, <1>12 DEF Types

LEMMA StepTypes ==
  ASSUME Types, [Next]_vars
  PROVE  Types'
<1>1. CASE UNCHANGED vars
  <2> USE <1>1 DEF vars, configVars, nextVars, lidVars, imgVars, measVars, filterVars
  <2>1. LidarTypes' /\ ImuTypes'
    BY DEF Types, LidarTypes, Paired, ImuTypes, ImuTimes
  <2>2. ImageTypes'
    BY DEF Types, ImageTypes, Coupled, SameImage
  <2>3. Phase'
    BY DEF Types, TimerTypes, Phase
  <2>4. TimerTypes'
    BY <2>3 DEF Types, TimerTypes, Clouds, Points, ImuTimes, Steps
  <2>5. ResultTypes'
    <3>1. frames' \in Seq([from : Nat, to : Nat, imu : Seq(ImuTimes), cloud : Clouds])'
      BY DEF Types, ResultTypes, Clouds, Points, ImuTimes
    <3>2. UNCHANGED <<pcl_w_wait_pub, pcl_wait_pub, pub_num, coloured>>
      BY DEF colourVars
    <3>3. pcl_w_wait_pub' \in Nat /\ pcl_wait_pub' \subseteq Nat /\ pub_num' \in Nat \ {0}
          /\ coloured' \subseteq Nat \X (1 .. NImages) \X Stamps
      BY <3>2 DEF Types, ResultTypes
    <3>4. jumped' = jumped /\ jumped \in BOOLEAN
      BY DEF Types, ResultTypes
    <3>5. jumped' \in BOOLEAN
      BY <3>4
    <3> QED BY <3>1, <3>3, <3>5 DEF ResultTypes
  <2> QED BY <2>1, <2>2, <2>4, <2>5 DEF Types
<1>2. CASE Next
  BY <1>2, LidarStepTypes, ImuCallbackTypes, ImageStepTypes, LookTypes, ReadImageTimeTypes,
     ReadVioTimeTypes, ReadImageTypes, PopTypes, DrainImuTypes, CutScanTypes, ProcessLioTypes, ProcessVioTypes,
     LidarFrameTypes
     DEF Next, TimerStep
<1> QED BY <1>1, <1>2

-------------------------------------------------------------------------------
(* The images and their times. *)

OrderedImages == \A i, j \in 1 .. NImages : i < j => sent[i] <= sent[j]

LEMMA OrderedUnlessBack ==
  ASSUME Types, ~TurnsBack
  PROVE  OrderedImages
<1>1. sent \in [1 .. NImages -> Nat]
  BY Constants DEF Types, ImageTypes
<1> QED BY <1>1 DEF TurnsBack, OrderedImages

LastSent ==
  \/ last_timestamp_img = -1
  \/ \E i \in 1 .. NImages : i < img_next /\ last_timestamp_img = sent[i]

\* With a clock that does not turn back no image is too old, and the first
\* one of the queue stays first.
LEMMA ImagesQueueUp ==
  ASSUME Types, OrderedImages, LastSent, ImgCallback \/ PushImageTime
  PROVE  /\ LastSent'
         /\ img_time_buffer # <<>> =>
              img_time_buffer' # <<>> /\ Head(img_time_buffer') = Head(img_time_buffer)
<1>1. sent' = sent
  BY DEF ImgCallback, PushImageTime, ImageRest, configVars
<1>2. img_next \in 1 .. NImages /\ sent[img_next] \in Nat \ {0}
  BY Constants DEF ImgCallback, PushImageTime, Types, ImageTypes
<1>3. ~LoopBack \/ SameImage
  <2>1. CASE last_timestamp_img = -1
    BY <1>2, <2>1 DEF LoopBack
  <2>2. CASE last_timestamp_img # -1
    <3>1. PICK i \in 1 .. NImages : i < img_next /\ last_timestamp_img = sent[i]
      BY <2>2 DEF LastSent
    <3>2. sent[i] <= sent[img_next] /\ sent[i] \in Nat
      BY <1>2, <3>1, Constants DEF OrderedImages, Types, ImageTypes
    <3> QED BY <1>2, <3>1, <3>2 DEF LoopBack
  <2> QED BY <2>1, <2>2
<1>4. \/ /\ img_time_buffer' = img_time_buffer /\ last_timestamp_img' = last_timestamp_img
         /\ img_next' \in {img_next, img_next + 1}
      \/ /\ img_time_buffer' = Append(img_time_buffer, sent[img_next])
         /\ last_timestamp_img' = sent[img_next] /\ img_next' = img_next + 1
  BY <1>3 DEF ImgCallback, PushImageTime, imgVars
<1>5. LastSent'
  BY <1>1, <1>2, <1>4 DEF LastSent
<1>6. img_time_buffer # <<>> => img_time_buffer' # <<>> /\ Head(img_time_buffer') = Head(img_time_buffer)
  <2> SUFFICES ASSUME img_time_buffer # <<>>,
                      img_time_buffer' = Append(img_time_buffer, sent[img_next])
               PROVE  img_time_buffer' # <<>> /\ Head(img_time_buffer') = Head(img_time_buffer)
    BY <1>4
  <2> DEFINE times == img_time_buffer
  <2>1. times \in Seq(Stamps) /\ times # <<>> /\ sent[img_next] \in Stamps
    BY <1>2 DEF Types, ImageTypes
  <2>2. times' \in Seq(Stamps) /\ Len(times') = Len(times) + 1
        /\ \A i \in 1 .. Len(times) : times'[i] = times[i]
    BY <2>1, AppendProperties
  <2>3. Len(times) \in Nat \ {0} /\ Head(times) = times[1]
    BY ONLY <2>1, HeadIsFirst
  <2>4. times' # <<>>
    BY <2>2, <2>3
  <2>5. Head(times') = times'[1]
    BY ONLY <2>2, <2>4, HeadIsFirst
  <2>6. 1 \in 1 .. Len(times)
    BY <2>3
  <2> QED BY <2>2, <2>3, <2>4, <2>5, <2>6
<1> QED BY <1>5, <1>6

-------------------------------------------------------------------------------
(* Colours. *)

Gathering == timer = "scans" \/ (timer = "process" /\ lio_vio_flg = "LIO")
Pending == lio_vio_flg = "LIO" \/ (lio_vio_flg = "VIO" /\ timer \in {"peek", "pop", "process"})
Resting == lio_vio_flg \in {"WAIT", "VIO"} /\ timer \in {"idle", "frame", "throw", "imu"}

\* The image the VIO step works on has come with its own time: between the
\* two reads the queues have only grown.
TakenWithTime ==
  OrderedImages =>
    /\ LastSent
    /\ timer = "peek" => img_time_buffer # <<>> /\ Head(img_time_buffer) = vio_time
    /\ (lio_vio_flg = "VIO" /\ timer \in {"pop", "process"}) => vio_time = sent[image]
    /\ \A c \in coloured : sent[c[2]] = c[3]

\* The first image goes with the first time.
LEMMA FirstWithTime ==
  ASSUME Types, img_time_buffer # <<>>
  PROVE  Head(img_time_buffer) = sent[Head(img_buffer)]
<1> DEFINE imgs == img_buffer
           times == img_time_buffer
<1>1. times # <<>> /\ times \in Seq(Stamps) /\ imgs \in Seq(1 .. NImages)
  BY DEF Types, ImageTypes
<1>2. Head(times) = times[1] /\ Len(times) \in Nat \ {0}
  BY ONLY <1>1, HeadIsFirst
<1>3. Len(imgs) # 0
  BY <1>2 DEF Types, ImageTypes, Coupled
<1>4. imgs # <<>>
  BY <1>3
<1>5. Head(imgs) = imgs[1]
  BY ONLY <1>1, <1>4, HeadIsFirst
<1>6. 1 \in 1 .. Len(times)
  BY <1>2
<1> QED BY <1>2, <1>5, <1>6 DEF Types, ImageTypes, Coupled

LEMMA StepTaken ==
  ASSUME Types, TakenWithTime, [Next]_vars
  PROVE  TakenWithTime'
<1> USE DEF configVars, nextVars, lidVars, imgVars, measVars, filterVars, colourVars
<1>1. sent' = sent
  BY DEF Next, PushCloud, PushCloudTime, LoseScan, ImuCallback, ImgCallback, PushImageTime,
         ImageRest, TimerStep, TimerFires, ReadImageTime, ThrowImage, DrainImu, CutScan,
         FrameComplete, ReadVioTime, ReadImage, TakeImage, Undefined, ProcessLio, ProcessVio,
         LidarFrame, TimerRest, vars
<1>2. SUFFICES ASSUME OrderedImages PROVE TakenWithTime'
  BY <1>1 DEF TakenWithTime, OrderedImages
<1>3. CASE ImgCallback \/ PushImageTime
  <2>1. UNCHANGED <<timer, lio_vio_flg, vio_time, image, coloured>>
    BY <1>3 DEF ImgCallback, PushImageTime, ImageRest
  <2> QED BY <1>1, <1>2, <1>3, <2>1, ImagesQueueUp DEF TakenWithTime
<1>4. CASE PushCloud \/ PushCloudTime \/ LoseScan \/ ImuCallback \/ UNCHANGED vars
  <2>1. UNCHANGED <<timer, lio_vio_flg, vio_time, image, coloured, last_timestamp_img, img_next,
                    img_time_buffer>>
    BY <1>4 DEF PushCloud, PushCloudTime, LoseScan, ImuCallback, vars
  <2> QED BY <1>1, <1>2, <2>1 DEF TakenWithTime, LastSent
<1>5. CASE TimerStep
  <2>1. LastSent'
    <3>1. UNCHANGED <<last_timestamp_img, img_next>>
      BY <1>5 DEF TimerStep, TimerFires, ReadImageTime, ThrowImage, DrainImu, CutScan,
         FrameComplete, ReadVioTime, ReadImage, TakeImage, Undefined, ProcessLio, ProcessVio,
         LidarFrame, TimerRest
    <3> QED BY <1>1, <1>2, <3>1 DEF TakenWithTime, LastSent
  <2>2. CASE TimerFires \/ ReadImageTime \/ ThrowImage \/ DrainImu \/ CutScan \/ FrameComplete
             \/ Undefined \/ ProcessLio \/ LidarFrame
    <3>1. coloured' = coloured
      BY <2>2 DEF TimerFires, ReadImageTime, ThrowImage, DrainImu, CutScan, FrameComplete,
                  Undefined, ProcessLio, LidarFrame
    <3>2. timer' # "peek" /\ ~(lio_vio_flg' = "VIO" /\ timer' \in {"pop", "process"})
      BY <2>2 DEF TimerFires, NextStep, ReadImageTime, ThrowImage, DrainImu, CutScan,
                  FrameComplete, Undefined, ProcessLio, LidarFrame
    <3> QED BY <1>1, <1>2, <2>1, <3>1, <3>2 DEF TakenWithTime
  <2>3. CASE ReadVioTime
    <3>1. /\ coloured' = coloured /\ timer' = "peek" /\ img_time_buffer # <<>>
          /\ img_time_buffer' = img_time_buffer /\ vio_time' = Head(img_time_buffer)
      BY <2>3 DEF ReadVioTime, BuffersKept
    <3> QED BY <1>1, <1>2, <2>1, <3>1 DEF TakenWithTime
  <2>4. CASE ReadImage
    <3>1. /\ coloured' = coloured /\ timer = "peek" /\ timer' = "pop" /\ vio_time' = vio_time
          /\ image' = Head(img_buffer)
      BY <2>4 DEF ReadImage
    <3>2. vio_time' = sent[image']
      BY <1>2, <3>1, FirstWithTime DEF TakenWithTime
    <3> QED BY <1>1, <1>2, <2>1, <3>1, <3>2 DEF TakenWithTime
  <2>5. CASE TakeImage
    <3>1. /\ UNCHANGED <<coloured, lio_vio_flg, vio_time, image>>
          /\ timer = "pop" /\ timer' = "process"
      BY <2>5 DEF TakeImage
    <3> QED BY <1>1, <1>2, <2>1, <3>1 DEF TakenWithTime
  <2>6. CASE ProcessVio
    <3>1. /\ timer = "process" /\ lio_vio_flg = "VIO" /\ timer' = "idle"
          /\ UNCHANGED <<image, vio_time>>
      BY <2>6 DEF ProcessVio
    <3>2. vio_time = sent[image] /\ image \in 1 .. NImages /\ vio_time \in Stamps
      BY <1>2, <3>1 DEF TakenWithTime, Types, TimerTypes, Phase
    <3>3. \A c \in coloured' : c \in coloured \/ (c[2] = image /\ c[3] = vio_time)
      <4>1. CASE UNCHANGED colourVars
        BY <4>1
      <4>2. CASE ColourFrames
        BY <3>1, <3>2, <4>2, FramesColoured DEF Types
      <4> QED BY <2>6, <4>1, <4>2 DEF ProcessVio, HandleVio
    <3> QED BY <1>1, <1>2, <2>1, <3>1, <3>2, <3>3 DEF TakenWithTime
  <2> QED BY <1>5, <2>2, <2>3, <2>4, <2>5, <2>6 DEF TimerStep
<1> QED BY <1>3, <1>4, <1>5 DEF Next

\* The points of a frame wait for the VIO step from the LIO step to it, and no
\* cut comes between the two.
ToColour == Pending /\ ~Gathering

Waits ==
  pcl_w_wait_pub # 0 =>
    /\ pcl_w_wait_pub = capture
    /\ ~imu_need_init
    /\ ToColour \/ timer = "undefined"

\* What has been coloured and what waits to be is before a time, or not after.
Before(t) == (\A c \in coloured : c[3] < t) /\ (\A f \in pcl_wait_pub : f < t)
UpTo(t) == (\A c \in coloured : c[3] <= t) /\ (\A f \in pcl_wait_pub : f <= t)

InOrder ==
  \A c \in coloured :
    /\ c[1] <= c[3]
    /\ \A d \in coloured : c[3] < d[3] => c[3] < d[1]
    /\ \A f \in pcl_wait_pub : c[3] < f

\* Frames are cut forward, and those that wait are the frames since the last
\* image that coloured any.
Forward ==
  /\ imu_need_init => coloured = {} /\ pcl_wait_pub = {}
  /\ (timer = "imu" \/ Gathering) => last_lio_update_time < capture
  /\ ~jumped =>
       /\ (Resting \/ Gathering) => UpTo(last_lio_update_time)
       /\ ToColour => Before(capture)
       /\ InOrder

ColourInv == slam_mode = LIVO => Waits /\ Forward

LEMMA ColourTyped ==
  ASSUME Types
  PROVE  /\ \A c \in coloured : c[1] \in Nat /\ c[3] \in Nat
         /\ \A f \in pcl_wait_pub : f \in Nat
         /\ capture \in Nat /\ vio_time \in Nat /\ pcl_w_wait_pub \in Nat
         /\ last_lio_update_time \in Int
<1>1. \A c \in coloured : c[1] \in Nat /\ c[3] \in Stamps
  BY DEF Types, ResultTypes
<1>2. \A c \in coloured : c[1] \in Nat /\ c[3] \in Nat
  BY <1>1, Constants
<1>3. \A f \in pcl_wait_pub : f \in Nat
  BY DEF Types, ResultTypes
<1> QED BY <1>2, <1>3 DEF Types, TimerTypes, ResultTypes

\* The steps that colour nothing and leave the filter's time alone.
LEMMA ColoursKept ==
  ASSUME Waits, Forward,
         UNCHANGED <<capture, last_lio_update_time, imu_need_init, jumped, pcl_w_wait_pub,
                     pcl_wait_pub, coloured>>,
         Gathering' => Gathering, timer' = "imu" => timer = "imu", Resting' => Resting,
         ToColour' => ToColour, ToColour => ToColour' \/ timer' = "undefined",
         timer = "undefined" => timer' = "undefined"
  PROVE  Waits' /\ Forward'
<1>1. Waits'
  BY DEF Waits
<1>2. /\ UpTo(last_lio_update_time)' <=> UpTo(last_lio_update_time)
      /\ Before(capture)' <=> Before(capture)
      /\ InOrder' <=> InOrder
  BY DEF UpTo, Before, InOrder
<1>3. Forward'
  BY <1>2 DEF Forward
<1> QED BY <1>1, <1>3

LEMMA LookColours ==
  ASSUME Types, slam_mode = LIVO, Waits, Forward,
         TimerFires \/ ThrowImage \/ CutScan \/ FrameComplete \/ ReadVioTime \/ ReadImage
           \/ TakeImage \/ Undefined
  PROVE  Waits' /\ Forward'
<1> USE DEF filterVars, colourVars, measVars
<1>1. UNCHANGED <<capture, last_lio_update_time, imu_need_init, jumped, pcl_w_wait_pub,
                  pcl_wait_pub, coloured>>
  BY DEF TimerFires, ThrowImage, CutScan, FrameComplete, ReadVioTime, ReadImage, TakeImage,
         Undefined
<1> USE DEF Gathering, Pending, Resting, ToColour
<1>2. CASE TimerFires
  <2>1. timer = "idle" /\ timer' \in {"image", "frame"} /\ lio_vio_flg' = lio_vio_flg
        /\ (lio_vio_flg = "LIO" <=> timer' = "image")
    BY <1>2 DEF TimerFires, NextStep
  <2> QED BY <1>1, <2>1, ColoursKept
<1>3. CASE ThrowImage
  <2>1. timer = "throw" /\ timer' = "idle" /\ UNCHANGED lio_vio_flg /\ lio_vio_flg \in {"WAIT", "VIO"}
    BY <1>3 DEF ThrowImage, Types, TimerTypes, Phase
  <2> QED BY <1>1, <2>1, ColoursKept
<1>4. CASE CutScan
  <2>1. UNCHANGED <<timer, lio_vio_flg>>
    BY <1>4 DEF CutScan
  <2> QED BY <1>1, <2>1, ColoursKept
<1>5. CASE FrameComplete
  <2>1. timer = "scans" /\ timer' = "process" /\ lio_vio_flg' = "LIO"
    BY <1>5 DEF FrameComplete
  <2> QED BY <1>1, <2>1, ColoursKept
<1>6. CASE ReadVioTime
  <2>1. timer = "image" /\ timer' = "peek" /\ lio_vio_flg = "LIO" /\ lio_vio_flg' = "VIO"
    BY <1>6 DEF ReadVioTime, Types, TimerTypes, Phase
  <2> QED BY <1>1, <2>1, ColoursKept
<1>7. CASE ReadImage \/ TakeImage
  <2>1. /\ lio_vio_flg = "VIO" /\ lio_vio_flg' = "VIO"
        /\ timer \in {"peek", "pop"} /\ timer' \in {"pop", "process"}
    BY <1>7 DEF ReadImage, TakeImage, Types, TimerTypes, Phase
  <2> QED BY <1>1, <2>1, ColoursKept
<1>8. CASE Undefined
  <2>1. /\ timer' = "undefined" /\ lio_vio_flg' = lio_vio_flg
        /\ lio_vio_flg = "LIO" => timer = "image"
    BY <1>8 DEF Undefined, ReadsEmpty, Types, TimerTypes, Phase
  <2> QED BY <1>1, <2>1, ColoursKept
<1> QED BY <1>2, <1>3, <1>4, <1>5, <1>6, <1>7, <1>8

\* The VIO step of a frame whose image is the one it was cut at.
LEMMA VioColours ==
  ASSUME Types, slam_mode = LIVO, Waits, Forward, ProcessVio
  PROVE  Waits' /\ Forward'
<1>1. /\ timer = "process" /\ lio_vio_flg = "VIO" /\ timer' = "idle"
      /\ UNCHANGED <<lio_vio_flg, capture, image, vio_time, imu_need_init>>
  BY DEF ProcessVio, measVars
<1>2. ToColour /\ ~ToColour' /\ Resting' /\ ~Gathering'
  BY <1>1 DEF ToColour, Pending, Gathering, Resting
<1>3. Waits'
  BY <1>1 DEF ProcessVio, HandleVio, Waits
<1>4. CASE imu_need_init
  <2>1. /\ UNCHANGED <<last_lio_update_time, jumped, pcl_wait_pub, coloured>>
        /\ coloured = {} /\ pcl_wait_pub = {}
    BY <1>4 DEF ProcessVio, colourVars, Forward
  <2>2. UpTo(last_lio_update_time)' /\ InOrder'
    BY <2>1 DEF UpTo, InOrder
  <2> QED BY <1>1, <1>2, <1>3, <2>1, <2>2 DEF Forward
<1>5. CASE ~imu_need_init
  <2>1. /\ last_lio_update_time' = vio_time
        /\ ~jumped' => ~jumped /\ vio_time = capture
        /\ HandleVio
    BY <1>5 DEF ProcessVio
  <2>2. SUFFICES ASSUME ~jumped' PROVE UpTo(last_lio_update_time)' /\ InOrder'
    BY <1>1, <1>2, <1>3, <1>5 DEF Forward
  <2>3. /\ last_lio_update_time' = capture /\ vio_time = capture
        /\ Before(capture) /\ InOrder
    BY <1>2, <2>1, <2>2 DEF Forward
  <2>4. CASE UNCHANGED <<pcl_wait_pub, coloured>>
    <3>1. UpTo(last_lio_update_time)'
      BY <2>3, <2>4, ColourTyped DEF UpTo, Before
    <3>2. InOrder'
      BY <2>3, <2>4 DEF InOrder
    <3> QED BY <3>1, <3>2
  <2>5. CASE ColourFrames /\ pcl_w_wait_pub # 0
    <3>1. image \in 1 .. NImages /\ vio_time \in Stamps
      BY <1>1 DEF Types, TimerTypes, Phase
    <3>2. /\ pcl_wait_pub' \subseteq Waiting
          /\ \A c \in coloured' : c \in coloured \/ (c[1] \in Waiting /\ c[3] = capture)
          /\ coloured' = coloured \/ pcl_wait_pub' = {}
      BY <1>1, <2>3, <2>5, <3>1, FramesColoured DEF Types
    <3>3. \A f \in Waiting : f \in Nat /\ f <= capture /\ \A c \in coloured : c[3] < f
      <4>1. pcl_w_wait_pub = capture
        BY <2>5 DEF Waits
      <4> QED BY <2>3, <4>1, ColourTyped DEF Waiting, Before, InOrder
    <3>4. UpTo(last_lio_update_time)'
      BY <2>3, <3>2, <3>3, ColourTyped DEF UpTo, Before
    <3>5. ASSUME NEW c \in coloured'
          PROVE  /\ c[1] <= c[3]
                 /\ \A d \in coloured' : c[3] < d[3] => c[3] < d[1]
                 /\ \A f \in pcl_wait_pub' : c[3] < f
      <4>1. CASE c \in coloured
        <5>1. c[1] <= c[3]
          BY <2>3, <4>1 DEF InOrder
        <5>2. ASSUME NEW d \in coloured', c[3] < d[3] PROVE c[3] < d[1]
          BY <2>3, <3>2, <3>3, <4>1, <5>2 DEF InOrder
        <5>3. \A f \in pcl_wait_pub' : c[3] < f
          BY <3>2, <3>3, <4>1
        <5> QED BY <5>1, <5>2, <5>3
      <4>2. CASE ~(c \in coloured)
        <5>1. c[1] \in Waiting /\ c[3] = capture /\ pcl_wait_pub' = {}
          BY <3>2, <4>2
        <5>2. \A d \in coloured' : d[3] \in Nat /\ d[3] <= capture
          BY <2>3, <3>2, ColourTyped DEF Before
        <5> QED BY <3>3, <5>1, <5>2, ColourTyped
      <4> QED BY <4>1, <4>2
    <3>6. InOrder'
      BY <3>5 DEF InOrder
    <3> QED BY <3>4, <3>6
  <2> QED BY <2>1, <2>4, <2>5 DEF HandleVio, colourVars
<1> QED BY <1>4, <1>5

LEMMA StepColours ==
  ASSUME Types, ColourInv, [Next]_vars
  PROVE  ColourInv'
<1> USE DEF configVars, nextVars, lidVars, imgVars, measVars, filterVars, colourVars
<1>1. slam_mode' = slam_mode
  BY DEF Next, PushCloud, PushCloudTime, LoseScan, ImuCallback, ImgCallback, PushImageTime,
         ImageRest, TimerStep, TimerFires, ReadImageTime, ThrowImage, DrainImu, CutScan,
         FrameComplete, ReadVioTime, ReadImage, TakeImage, Undefined, ProcessLio, ProcessVio,
         LidarFrame, TimerRest, vars
<1>2. SUFFICES ASSUME slam_mode = LIVO PROVE Waits' /\ Forward'
  BY <1>1 DEF ColourInv
<1>3. Waits /\ Forward
  BY <1>2 DEF ColourInv
<1>4. CASE UNCHANGED vars \/ PushCloud \/ PushCloudTime \/ LoseScan \/ ImuCallback
             \/ ImgCallback \/ PushImageTime
  <2>1. UNCHANGED <<timer, lio_vio_flg, capture, last_lio_update_time, imu_need_init, jumped,
                    pcl_w_wait_pub, pcl_wait_pub, coloured>>
    BY <1>4 DEF vars, PushCloud, PushCloudTime, LoseScan, ImuCallback, ImgCallback,
                PushImageTime, ImageRest
  <2>2. UNCHANGED <<Gathering, Resting, ToColour>>
    BY <2>1 DEF Gathering, Resting, ToColour, Pending
  <2> QED BY <1>3, <2>1, <2>2, ColoursKept
<1>5. CASE TimerFires \/ ThrowImage \/ CutScan \/ FrameComplete \/ ReadVioTime \/ ReadImage
           \/ TakeImage \/ Undefined
  BY <1>2, <1>3, <1>5, LookColours
<1>6. CASE ReadImageTime
  <2>1. /\ UNCHANGED <<lio_vio_flg, imu_need_init, jumped, pcl_w_wait_pub, pcl_wait_pub, coloured>>
        /\ timer = "frame" /\ timer' \in {"throw", "imu", "idle"}
        /\ last_lio_update_time' = FirstUpdateTime
        /\ timer' = "imu" => ~(capture' <= FirstUpdateTime)
    BY <1>6 DEF ReadImageTime
  <2>2. lio_vio_flg \in {"WAIT", "VIO"}
    BY <2>1 DEF Types, TimerTypes, Phase
  <2>3. Resting /\ ~ToColour /\ ~Gathering' /\ ~ToColour'
    BY <2>1, <2>2 DEF Resting, ToColour, Gathering, Pending
  <2>4. Waits'
    BY <1>3, <2>1, <2>3 DEF Waits
  <2>5. timer' = "imu" => last_lio_update_time' < capture'
    <3>1. capture' \in Int /\ last_lio_update_time' \in Int
      BY <1>6, ReadImageTimeTypes DEF Types, TimerTypes
    <3> QED BY <2>1, <3>1
  <2>6. ~jumped => UpTo(last_lio_update_time)'
    <3>1. CASE imu_need_init
      BY <1>3, <2>1, <3>1 DEF Forward, UpTo
    <3>2. CASE ~imu_need_init
      <4>1. last_lio_update_time # -1
        BY <1>2, <2>2, <3>2 DEF Types, TimerTypes, Phase
      <4>2. last_lio_update_time' = last_lio_update_time
        BY <2>1, <4>1 DEF FirstUpdateTime, Types, TimerTypes
      <4> QED BY <1>3, <2>1, <2>3, <4>2 DEF Forward, UpTo
    <3> QED BY <3>1, <3>2
  <2>7. ~jumped => InOrder'
    BY <1>3, <2>1 DEF Forward, InOrder
  <2>8. Forward'
    BY <1>3, <2>1, <2>3, <2>5, <2>6, <2>7 DEF Forward
  <2> QED BY <2>4, <2>8
<1>7. CASE DrainImu
  <2>1. /\ UNCHANGED <<lio_vio_flg, capture, last_lio_update_time, imu_need_init, jumped,
                       pcl_w_wait_pub, pcl_wait_pub, coloured>>
        /\ timer = "imu" /\ timer' = "scans"
    BY <1>7 DEF DrainImu
  <2>2. lio_vio_flg \in {"WAIT", "VIO"}
    BY <2>1 DEF Types, TimerTypes, Phase
  <2>3. Resting /\ ~ToColour /\ ~ToColour' /\ ~Resting' /\ Gathering'
    BY <2>1, <2>2 DEF Resting, ToColour, Gathering, Pending
  <2>4. Waits'
    BY <1>3, <2>1, <2>3 DEF Waits
  <2>5. ~jumped => UpTo(last_lio_update_time)' /\ InOrder'
    BY <1>3, <2>1, <2>3 DEF Forward, UpTo, InOrder
  <2>6. Forward'
    BY <1>3, <2>1, <2>3, <2>5 DEF Forward
  <2> QED BY <2>4, <2>6
<1>8. CASE ProcessLio
  <2>1. /\ UNCHANGED <<capture, lio_vio_flg, coloured, pcl_wait_pub, jumped>>
        /\ timer = "process" /\ timer' = "idle" /\ lio_vio_flg = "LIO"
    BY <1>8 DEF ProcessLio, InitialiseImu
  <2>2. Gathering /\ ~ToColour /\ ToColour' /\ ~Gathering' /\ ~Resting'
    BY <2>1 DEF ToColour, Gathering, Pending, Resting
  <2>3. pcl_w_wait_pub = 0
    BY <1>3, <2>1, <2>2 DEF Waits
  <2>4. pcl_w_wait_pub' = 0 \/ (pcl_w_wait_pub' = capture /\ ~imu_need_init')
    BY <1>2, <1>8, <2>3 DEF ProcessLio, InitialiseImu, HandleLio
  <2>5. Waits'
    BY <2>1, <2>2, <2>4 DEF Waits
  <2>6. imu_need_init' => imu_need_init
    BY <1>8 DEF ProcessLio
  <2>7. ~jumped => Before(capture)' /\ InOrder'
    <3> SUFFICES ASSUME ~jumped PROVE Before(capture)' /\ InOrder'
      OBVIOUS
    <3>1. UpTo(last_lio_update_time) /\ last_lio_update_time < capture /\ InOrder
      BY <1>3, <2>2 DEF Forward
    <3>2. Before(capture)
      BY <3>1, ColourTyped DEF UpTo, Before
    <3> QED BY <2>1, <3>1, <3>2 DEF Before, InOrder
  <2>8. Forward'
    BY <1>3, <2>1, <2>2, <2>6, <2>7 DEF Forward
  <2> QED BY <2>5, <2>8
<1>9. CASE ProcessVio
  BY <1>2, <1>3, <1>9, VioColours
<1>10. CASE LidarFrame
  BY <1>2, <1>10 DEF LidarFrame
<1> QED BY <1>4, <1>5, <1>6, <1>7, <1>8, <1>9, <1>10 DEF Next, TimerStep

\* Outside LIVO there is nothing to colour.
LEMMA StepNoColours ==
  ASSUME Types, slam_mode # LIVO => coloured = {}, [Next]_vars
  PROVE  (slam_mode # LIVO => coloured = {})'
<1> USE DEF configVars, nextVars, lidVars, imgVars, measVars, filterVars, colourVars
<1>1. slam_mode' = slam_mode
  BY DEF Next, PushCloud, PushCloudTime, LoseScan, ImuCallback, ImgCallback, PushImageTime,
         ImageRest, TimerStep, TimerFires, ReadImageTime, ThrowImage, DrainImu, CutScan,
         FrameComplete, ReadVioTime, ReadImage, TakeImage, Undefined, ProcessLio, ProcessVio,
         LidarFrame, TimerRest, vars
<1>2. slam_mode # LIVO => timer = "idle"
  BY DEF Types, TimerTypes, Phase
<1>3. slam_mode # LIVO => coloured' = coloured
  BY <1>2 DEF Next, PushCloud, PushCloudTime, LoseScan, ImuCallback, ImgCallback, PushImageTime,
         ImageRest, TimerStep, TimerFires, ReadImageTime, ThrowImage, DrainImu, CutScan,
         FrameComplete, ReadVioTime, ReadImage, TakeImage, Undefined, ProcessLio, ProcessVio,
         LidarFrame, vars
<1> QED BY <1>1, <1>3

\* In every mode, for any pub_scan_num and whatever the images show: unless
\* the camera's clock turns back, no interleaving of its callback with the two
\* reads and the pop of sync_packages pairs an image with another's time; and
\* unless an image has been taken whose time is not that of the last cut, a
\* frame is coloured once, never by an image before its end, and never after
\* an image from its end on has coloured anything.
THEOREM ColoursSafe == Spec => []ColouredOnce
<1> DEFINE IInv == Types /\ TakenWithTime /\ ColourInv /\ (slam_mode # LIVO => coloured = {})
<1>1. Init => IInv
  <2> SUFFICES ASSUME Init PROVE IInv
    OBVIOUS
  <2>1. /\ coloured = {} /\ pcl_wait_pub = {} /\ pcl_w_wait_pub = 0 /\ timer = "idle"
        /\ lio_vio_flg = "WAIT" /\ last_timestamp_img = -1
    BY DEF Init
  <2>2. TakenWithTime
    BY <2>1 DEF TakenWithTime, LastSent
  <2>3. ~Gathering /\ ~ToColour
    BY <2>1 DEF Gathering, ToColour, Pending
  <2>4. ColourInv
    BY <2>1, <2>3 DEF ColourInv, Waits, Forward, UpTo, InOrder
  <2> QED BY <2>1, <2>2, <2>4, InitTypes
<1>2. IInv /\ [Next]_vars => IInv'
  BY StepTypes, StepTaken, StepColours, StepNoColours
<1>3. IInv => ColouredOnce
  <2> SUFFICES ASSUME IInv PROVE ColouredOnce
    OBVIOUS
  <2>1. TypeOK
    BY TypesImply
  <2>2. TurnsBack \/ \A c \in coloured : sent[c[2]] = c[3]
    BY OrderedUnlessBack DEF TakenWithTime
  <2>3. ~jumped => \A c, d \in coloured : c[1] <= c[3] /\ (c[3] < d[3] => c[3] < d[1])
    BY DEF ColourInv, Forward, InOrder
  <2> QED BY <2>1, <2>2, <2>3 DEF ColouredOnce
<1> HIDE DEF IInv
<1> QED BY <1>1, <1>2, <1>3, PTL DEF Spec

-------------------------------------------------------------------------------
(* The filter's time. *)

\* With a clock that does not turn back and no poses to save, the image a
\* frame was cut at stays first in the queue until the VIO step takes it.
HeadKept ==
  (~pose_output_en /\ OrderedImages) =>
    /\ LastSent
    /\ (slam_mode = LIVO /\ (\/ timer \in {"throw", "imu", "scans"}
                             \/ lio_vio_flg = "LIO" /\ timer # "undefined")) =>
         img_time_buffer # <<>> /\ Head(img_time_buffer) = capture
    /\ (lio_vio_flg = "VIO" /\ timer \in {"peek", "pop", "process"}) => vio_time = capture
    /\ ~jumped

LEMMA ImageStepHead ==
  ASSUME Types, HeadKept, ImgCallback \/ PushImageTime
  PROVE  HeadKept'
<1>1. UNCHANGED <<slam_mode, pose_output_en, sent, timer, lio_vio_flg, capture, vio_time, jumped>>
  BY DEF ImgCallback, PushImageTime, ImageRest, configVars, measVars, filterVars
<1>2. SUFFICES ASSUME ~pose_output_en, OrderedImages
               PROVE  HeadKept'
  BY <1>1 DEF HeadKept, OrderedImages
<1> QED BY <1>1, <1>2, ImagesQueueUp DEF HeadKept

LEMMA StepHead ==
  ASSUME Types, HeadKept, [Next]_vars
  PROVE  HeadKept'
<1> USE DEF configVars, nextVars, lidVars, imgVars, measVars, filterVars, colourVars
<1>1. CASE UNCHANGED <<slam_mode, pose_output_en, sent, img_next, img_time_buffer,
                       last_timestamp_img, timer, lio_vio_flg, capture, vio_time, jumped>>
  BY <1>1 DEF HeadKept, OrderedImages, LastSent
<1>2. CASE UNCHANGED vars
  BY <1>1, <1>2 DEF vars
<1>3. CASE PushCloud \/ PushCloudTime \/ LoseScan \/ ImuCallback
  BY <1>1, <1>3 DEF PushCloud, PushCloudTime, LoseScan, ImuCallback
<1>4. CASE ImgCallback \/ PushImageTime
  BY <1>4, ImageStepHead
<1>5. CASE TimerStep
  <2>1. UNCHANGED <<slam_mode, pose_output_en, sent, img_next, last_timestamp_img>>
    BY <1>5 DEF TimerStep, TimerFires, ReadImageTime, ThrowImage, DrainImu, CutScan, FrameComplete,
                ReadVioTime, ReadImage, TakeImage, Undefined,
                ProcessLio, ProcessVio, LidarFrame, TimerRest
  <2>2. SUFFICES ASSUME ~pose_output_en, OrderedImages
                 PROVE  HeadKept'
    BY <2>1 DEF HeadKept, OrderedImages
  <2>0. LastSent'
    BY <2>1, <2>2 DEF HeadKept, LastSent
  <2>3. CASE TimerFires \/ ReadImageTime \/ FrameComplete \/ Undefined
    <3>1. UNCHANGED <<img_time_buffer, vio_time, jumped>>
      BY <2>3 DEF TimerFires, ReadImageTime, FrameComplete, Undefined, BuffersKept
    <3>2. CASE TimerFires
      BY <2>0, <2>1, <2>2, <3>1, <3>2 DEF TimerFires, NextStep, HeadKept, Types, TimerTypes, Phase
    <3>3. CASE ReadImageTime
      BY <2>0, <2>1, <2>2, <3>1, <3>3 DEF ReadImageTime, HeadKept, Types, TimerTypes, Phase
    <3>4. CASE FrameComplete
      BY <2>0, <2>1, <2>2, <3>1, <3>4 DEF FrameComplete, HeadKept, Types, TimerTypes, Phase
    <3>5. CASE Undefined
      BY <2>0, <2>1, <2>2, <3>1, <3>5 DEF Undefined, HeadKept, Types, TimerTypes, Phase
    <3> QED BY <2>3, <3>2, <3>3, <3>4, <3>5
  <2>4. CASE ThrowImage \/ ReadImage \/ TakeImage
    BY <2>0, <2>1, <2>2, <2>4 DEF ThrowImage, ReadImage, TakeImage, HeadKept, Types, TimerTypes, Phase
  <2>5. CASE DrainImu \/ CutScan
    BY <2>0, <2>1, <2>2, <2>5 DEF DrainImu, CutScan, HeadKept, Types, TimerTypes, Phase
  <2>6. CASE ReadVioTime
    <3>1. UNCHANGED <<capture, jumped>> /\ lio_vio_flg' = "VIO" /\ timer' = "peek"
          /\ vio_time' = Head(img_time_buffer) /\ timer = "image"
      BY <2>6 DEF ReadVioTime
    <3>2. slam_mode = LIVO /\ lio_vio_flg = "LIO"
      BY <3>1 DEF Types, TimerTypes, Phase
    <3> QED BY <2>0, <2>1, <2>2, <3>1, <3>2 DEF HeadKept
  <2>7. CASE ProcessLio
    <3>1. UNCHANGED <<capture, vio_time, lio_vio_flg, jumped>> /\ timer' = "idle"
          /\ lio_vio_flg = "LIO" /\ timer = "process"
      BY <2>7 DEF ProcessLio, InitialiseImu
    <3>2. img_time_buffer' = img_time_buffer
          \/ img_time_buffer' = SubSeq(img_time_buffer, 0 + 1, Len(img_time_buffer))
      BY <2>2, <2>7 DEF ProcessLio, HandleLio, SaveImage, ImageToSave
    <3>3. slam_mode = LIVO
      BY <3>1 DEF Types, TimerTypes, Phase
    <3>4. img_time_buffer # <<>> /\ Head(img_time_buffer) = capture
      BY <2>2, <3>1, <3>3 DEF HeadKept
    <3>5. img_time_buffer' # <<>> /\ Head(img_time_buffer') = Head(img_time_buffer)
      <4> DEFINE times == img_time_buffer
      <4>1. times \in Seq(Stamps) /\ times # <<>>
        BY <3>4 DEF Types, ImageTypes
      <4>2. Len(times) \in Nat \ {0} /\ Head(times) = times[1]
        BY ONLY <4>1, HeadIsFirst
      <4>3. 0 \in 0 .. Len(times) /\ 1 \in 1 .. Len(times) - 0 /\ 0 + 1 = 1
        BY <4>2
      <4> DEFINE rest == SubSeq(times, 0 + 1, Len(times))
      <4>4. /\ rest \in Seq(Stamps) /\ Len(rest) = Len(times) - 0
            /\ rest[1] = times[0 + 1]
        BY <4>1, <4>3, Rest
      <4> HIDE DEF rest
      <4>5. rest # <<>>
        BY <4>2, <4>4
      <4>6. Head(rest) = rest[1]
        BY ONLY <4>4, <4>5, HeadIsFirst
      <4>7. times' = times \/ times' = rest
        BY <3>2 DEF rest
      <4> QED BY <3>4, <4>2, <4>3, <4>4, <4>5, <4>6, <4>7
    <3> QED BY <2>0, <2>1, <2>2, <3>1, <3>4, <3>5 DEF HeadKept
  <2>8. CASE ProcessVio
    <3>1. /\ UNCHANGED <<capture, vio_time, lio_vio_flg, img_time_buffer>> /\ timer' = "idle"
          /\ lio_vio_flg = "VIO" /\ timer = "process"
      BY <2>8 DEF ProcessVio, BuffersKept
    <3>2. ~jumped'
      BY <2>2, <3>1, <2>8 DEF ProcessVio, HeadKept
    <3> QED BY <2>0, <2>1, <2>2, <3>1, <3>2 DEF HeadKept
  <2>9. CASE LidarFrame
    BY <2>0, <2>1, <2>2, <2>9 DEF LidarFrame, HeadKept, Types, TimerTypes, Phase
  <2> QED BY <1>5, <2>3, <2>4, <2>5, <2>6, <2>7, <2>8, <2>9 DEF TimerStep
<1> QED BY <1>2, <1>3, <1>4, <1>5 DEF Next

\* The filter's time jumps over points and samples only if the camera's clock
\* jumps back or poses are saved: no other interleaving of the callbacks with
\* sync_packages, which tests and reads the buffers without the lock, puts
\* another image in the place of the one the frame was cut at.
THEOREM TimeSafe == Spec => []TimeJumpsOnlyIf
<1> DEFINE IInv == Types /\ HeadKept
<1>1. Init => IInv
  BY InitTypes DEF Init, HeadKept, LastSent
<1>2. IInv /\ [Next]_vars => IInv'
  BY StepTypes, StepHead
<1>3. IInv => TimeJumpsOnlyIf
  <2> SUFFICES ASSUME IInv, jumped, ~pose_output_en
               PROVE  TurnsBack
    BY DEF TimeJumpsOnlyIf
  <2> QED BY OrderedUnlessBack DEF HeadKept
<1> HIDE DEF IInv
<1> QED BY <1>1, <1>2, <1>3, PTL DEF Spec

-------------------------------------------------------------------------------
(* The samples of a frame. *)

\* Every sample after a time that has come is in the buffer.
Complete(since) ==
  \A t \in ImuTimes : (since < t /\ t < imu_next) => \E i \in 1 .. Len(imu_buffer) : imu_buffer[i] = t

\* Samples are taken in from the first scan on.
Started == last_timestamp_lidar < 0 => imu_buffer = <<>> /\ imu = <<>> /\ imu_need_init

\* They are in their order and without gaps.
Buffered ==
  /\ \A i \in 1 .. Len(imu_buffer) : imu_buffer[i] < imu_next /\ Complete(imu_buffer[i])
  /\ \A i, j \in 1 .. Len(imu_buffer) : i < j => imu_buffer[i] < imu_buffer[j]

\* What sync_packages has tested still holds when it acts on it.
Newest ==
  /\ timer \in {"frame", "imu"} => imu_buffer # <<>>
  /\ timer = "imu" => capture <= Last(imu_buffer) /\ last_lio_update_time < capture

\* The buffer holds what comes after the last cut, and the group what is
\* before it.
SamplesKept ==
  /\ (Gathering /\ imu # <<>>) => Complete(capture)
  /\ ((Gathering \/ Pending) /\ ~imu_need_init /\ ~jumped) => Complete(capture)
  /\ (Resting /\ ~imu_need_init /\ ~jumped) => Complete(last_lio_update_time)
  /\ (Gathering /\ ~imu_need_init /\ ~jumped) =>
       Range(imu) = {t \in ImuTimes : last_lio_update_time < t /\ t <= capture}

SampleInv == slam_mode = LIVO => Started /\ Buffered /\ Newest /\ SamplesKept

LEMMA BufferTyped ==
  ASSUME ImuTypes
  PROVE  /\ ImuTimes \subseteq Nat
         /\ Len(imu_buffer) \in Nat
         /\ \A i \in 1 .. Len(imu_buffer) : imu_buffer[i] \in ImuTimes /\ imu_buffer[i] \in Nat
         /\ imu_next \in Nat
<1>1. ImuTimes \subseteq Nat
  BY ScansApart DEF ImuTimes
<1>2. \A i \in 1 .. Len(imu_buffer) : imu_buffer[i] \in ImuTimes
  BY ElementOfSeq DEF ImuTypes
<1> QED BY <1>1, <1>2, LenProperties DEF ImuTypes

\* What is complete since the cut, or a later time, stays complete.
LEMMA CutKeepsComplete ==
  ASSUME ImuTypes, NEW c \in Nat, imu_buffer' = SamplesAfter(c), UNCHANGED imu_next,
         NEW since \in Nat, c <= since, Complete(since)
  PROVE  \A t \in ImuTimes : (since < t /\ t < imu_next) =>
           \E i \in 1 .. Len(imu_buffer') : imu_buffer'[i] = t
<1> DEFINE b == imu_buffer
           n == Through(c)
<1>1. /\ b \in Seq(ImuTimes) /\ Len(b) \in Nat /\ n \in 0 .. Len(b) /\ Stops(n, c)
      /\ ImuTimes \subseteq Nat
  BY BufferTyped, LoopStops DEF ImuTypes
<1>2. /\ Len(b') = Len(b) - n
      /\ \A i \in 1 .. Len(b) - n : b'[i] = b[n + i]
  BY <1>1, Rest DEF SamplesAfter
<1>3. SUFFICES ASSUME NEW t \in ImuTimes, since < t, t < imu_next
               PROVE  \E i \in 1 .. Len(b') : b'[i] = t
  OBVIOUS
<1>4. PICK i \in 1 .. Len(b) : b[i] = t
  BY <1>3 DEF Complete
<1>5. ~ (i \in 1 .. n)
  <2>1. t \in Nat /\ c < t
    BY <1>1, <1>3
  <2> HIDE DEF n
  <2> QED BY <1>1, <1>4, <2>1 DEF Stops
<1> HIDE DEF n
<1>6. i - n \in 1 .. Len(b) - n /\ n + (i - n) = i
  BY <1>1, <1>4, <1>5
<1>7. b'[i - n] = t
  BY <1>2, <1>4, <1>6
<1> QED BY <1>2, <1>6, <1>7

LEMMA CutKeepsBuffered ==
  ASSUME ImuTypes, NEW c \in Nat, imu_buffer' = SamplesAfter(c), UNCHANGED imu_next, Buffered
  PROVE  Buffered' /\ \A i \in 1 .. Len(imu_buffer') : c < imu_buffer'[i]
<1> DEFINE b == imu_buffer
           n == Through(c)
<1>1. /\ b \in Seq(ImuTimes) /\ Len(b) \in Nat /\ n \in 0 .. Len(b) /\ Stops(n, c)
      /\ ImuTimes \subseteq Nat
      /\ \A i \in 1 .. Len(b) : b[i] \in Nat
  <2>1. b \in Seq(ImuTimes) /\ Len(b) \in Nat /\ n \in 0 .. Len(b) /\ Stops(n, c)
    BY BufferTyped, LoopStops DEF ImuTypes
  <2>2. ImuTimes \subseteq Nat /\ \A i \in 1 .. Len(b) : b[i] \in Nat
    BY BufferTyped
  <2> QED BY <2>1, <2>2
<1>2. /\ Len(b') = Len(b) - n
      /\ \A i \in 1 .. Len(b) - n : b'[i] = b[n + i]
  BY <1>1, Rest DEF SamplesAfter
<1>3. \A i \in n + 1 .. Len(b) : c < b[i]
  <2> HIDE DEF n
  <2> TAKE i \in n + 1 .. Len(b)
  <2>1. n < Len(b) /\ n + 1 \in 1 .. Len(b) /\ i \in 1 .. Len(b)
    BY <1>1
  <2>2. c < b[n + 1] /\ b[n + 1] \in Nat /\ b[i] \in Nat
    BY <1>1, <2>1 DEF Stops
  <2>3. i = n + 1 \/ b[n + 1] < b[i]
    BY <1>1, <2>1 DEF Buffered
  <2> QED BY <2>2, <2>3
<1> HIDE DEF n
<1>4. \A i \in 1 .. Len(b) - n : n + i \in n + 1 .. Len(b) /\ n + i \in 1 .. Len(b)
  BY <1>1
<1>5. ASSUME NEW i \in 1 .. Len(b')
      PROVE  /\ c < b'[i] /\ b'[i] < imu_next'
             /\ \A t \in ImuTimes : (b'[i] < t /\ t < imu_next) =>
                  \E j \in 1 .. Len(b') : b'[j] = t
  <2>1. i \in 1 .. Len(b) - n /\ n + i \in n + 1 .. Len(b) /\ n + i \in 1 .. Len(b)
    BY <1>2, <1>4
  <2>2. b'[i] = b[n + i] /\ c < b[n + i] /\ b[n + i] \in Nat /\ b[n + i] < imu_next
        /\ Complete(b[n + i])
    BY <1>1, <1>2, <1>3, <2>1 DEF Buffered
  <2>3. c <= b[n + i]
    BY <2>2
  <2>4. \A t \in ImuTimes : (b[n + i] < t /\ t < imu_next) => \E j \in 1 .. Len(b') : b'[j] = t
    BY <2>2, <2>3, CutKeepsComplete
  <2> QED BY <2>2, <2>4
<1>6. \A i, j \in 1 .. Len(b') : i < j => b'[i] < b'[j]
  <2> TAKE i, j \in 1 .. Len(b')
  <2>1. /\ i \in 1 .. Len(b) - n /\ j \in 1 .. Len(b) - n
        /\ n + i \in 1 .. Len(b) /\ n + j \in 1 .. Len(b)
        /\ i < j => n + i < n + j
    BY <1>1, <1>2, <1>4
  <2>2. i < j => b[n + i] < b[n + j]
    BY <2>1 DEF Buffered
  <2> QED BY <1>2, <2>1, <2>2
<1>7. \A i \in 1 .. Len(b') : Complete(imu_buffer[i])'
  BY <1>5 DEF Complete, ImuTimes
<1> QED BY <1>5, <1>6, <1>7 DEF Buffered

\* A sample comes: it is in the buffer, or no scan has come.
LEMMA SampleComes ==
  ASSUME Types, slam_mode = LIVO, SampleInv, ImuCallback
  PROVE  SampleInv'
<1> USE DEF configVars, lidVars, measVars, filterVars, colourVars
<1> DEFINE b == imu_buffer
<1>1. /\ UNCHANGED <<slam_mode, last_timestamp_lidar, timer, lio_vio_flg, capture, imu,
                     last_lio_update_time, imu_need_init, jumped>>
      /\ imu_next' = imu_next + SamplePeriod
      /\ imu_next <= LastTime
  BY DEF ImuCallback
<1>2. Started /\ Buffered /\ Newest /\ SamplesKept
  BY DEF SampleInv
<1>3. /\ b \in Seq(ImuTimes) /\ Len(b) \in Nat /\ imu_next \in Nat \ {0} /\ ImuTimes \subseteq Nat
      /\ \A i \in 1 .. Len(b) : b[i] \in Nat
  <2>1. b \in Seq(ImuTimes) /\ imu_next \in Nat \ {0}
    BY DEF Types, ImuTypes
  <2>2. Len(b) \in Nat /\ ImuTimes \subseteq Nat /\ \A i \in 1 .. Len(b) : b[i] \in Nat
    BY BufferTyped DEF Types
  <2> QED BY <2>1, <2>2
<1>4. CASE last_timestamp_lidar < 0
  <2>1. b' = b /\ b = <<>> /\ imu = <<>> /\ imu_need_init
    BY <1>2, <1>4 DEF ImuCallback, Started
  <2>2. Len(b) = 0 /\ Len(b') = 0
    BY <2>1
  <2>3. Buffered'
    BY <2>2 DEF Buffered
  <2>4. Started' /\ Newest' /\ SamplesKept'
    BY <1>1, <1>2, <2>1 DEF Started, Newest, SamplesKept, Gathering, Pending, Resting
  <2> QED BY <2>3, <2>4 DEF SampleInv
<1>5. CASE ~(last_timestamp_lidar < 0)
  <2>1. b' = Append(b, imu_next)
    BY <1>5 DEF ImuCallback
  <2>2. imu_next \in ImuTimes
    BY <1>1, <1>3 DEF Types, ImuTypes, ImuTimes
  <2>3. /\ b' \in Seq(ImuTimes) /\ Len(b') = Len(b) + 1
        /\ \A i \in 1 .. Len(b) : b'[i] = b[i]
        /\ b'[Len(b) + 1] = imu_next
    BY <1>3, <2>1, <2>2, AppendProperties
  <2>4. Len(b) + 1 \in 1 .. Len(b') /\ \A i \in 1 .. Len(b) : i \in 1 .. Len(b')
    BY <1>3, <2>3
  <2>5. ASSUME NEW t \in ImuTimes, imu_next <= t, t < imu_next'
        PROVE  t = imu_next
    <3>1. t \in Nat /\ t % SamplePeriod = 0 /\ imu_next % SamplePeriod = 0
      BY <1>3 DEF ImuTimes, Types, ImuTypes
    <3> QED BY <1>1, <1>3, <2>5, <3>1, SamplesApart
  <2>6. ASSUME NEW since \in Int,
               \A t \in ImuTimes : (since < t /\ t < imu_next) =>
                 \E i \in 1 .. Len(b) : b[i] = t
        PROVE  \A t \in ImuTimes : (since < t /\ t < imu_next') =>
                 \E i \in 1 .. Len(b') : b'[i] = t
    <3> SUFFICES ASSUME NEW t \in ImuTimes, since < t, t < imu_next'
                 PROVE  \E i \in 1 .. Len(b') : b'[i] = t
      OBVIOUS
    <3>1. CASE t < imu_next
      BY <2>3, <2>4, <2>6, <3>1
    <3>2. CASE imu_next <= t
      BY <2>3, <2>4, <2>5, <3>2
    <3>3. t \in Nat
      BY <1>3
    <3> QED BY <1>3, <3>1, <3>2, <3>3
  <2>7. ASSUME NEW i \in 1 .. Len(b')
        PROVE  /\ b'[i] < imu_next'
               /\ \A t \in ImuTimes : (b'[i] < t /\ t < imu_next') =>
                    \E j \in 1 .. Len(b') : b'[j] = t
    <3>1. i \in 1 .. Len(b) \/ i = Len(b) + 1
      BY <1>3, <2>3
    <3>2. CASE i \in 1 .. Len(b)
      <4>1. b'[i] = b[i] /\ b[i] \in Nat /\ b[i] < imu_next /\ Complete(b[i])
        BY <1>2, <1>3, <2>3, <3>2 DEF Buffered
      <4>2. b[i] \in Int /\ b[i] < imu_next'
        BY <1>1, <1>3, <4>1, Constants
      <4> QED BY <2>6, <4>1, <4>2 DEF Complete
    <3>3. CASE i = Len(b) + 1
      <4>1. b'[i] = imu_next /\ imu_next < imu_next'
        BY <1>1, <1>3, <2>3, <3>3, Constants
      <4>2. \A t \in ImuTimes : ~(imu_next < t /\ t < imu_next')
        <5> SUFFICES ASSUME NEW t \in ImuTimes, imu_next < t, t < imu_next'
                     PROVE  FALSE
          OBVIOUS
        <5>1. t \in Nat /\ imu_next <= t
          BY <1>3
        <5> QED BY <1>3, <2>5, <5>1
      <4> QED BY <4>1, <4>2
    <3> QED BY <3>1, <3>2, <3>3
  <2>8. \A i, j \in 1 .. Len(b') : i < j => b'[i] < b'[j]
    <3> SUFFICES ASSUME NEW i \in 1 .. Len(b'), NEW j \in 1 .. Len(b'), i < j
                 PROVE  b'[i] < b'[j]
      OBVIOUS
    <3>1. i \in 1 .. Len(b) /\ (j \in 1 .. Len(b) \/ j = Len(b) + 1)
      BY <1>3, <2>3
    <3>2. b[i] < imu_next /\ (j \in 1 .. Len(b) => b[i] < b[j])
      BY <1>2, <3>1 DEF Buffered
    <3> QED BY <2>3, <3>1, <3>2
  <2>9. Buffered'
    <3>1. \A i \in 1 .. Len(b') : Complete(imu_buffer[i])'
      BY <2>7 DEF Complete, ImuTimes
    <3> QED BY <2>7, <2>8, <3>1 DEF Buffered
  <2>10. b' # <<>> /\ b # <<>> => Last(b) <= Last(b')
    <3> SUFFICES ASSUME b # <<>> PROVE Last(b) <= Last(b')
      OBVIOUS
    <3>1. Len(b) \in 1 .. Len(b) /\ Last(b) = b[Len(b)]
      BY <1>3, EmptySeq DEF Last
    <3>2. Last(b') = imu_next
      BY <2>3 DEF Last
    <3>3. b[Len(b)] < imu_next /\ b[Len(b)] \in Nat
      BY <1>2, <1>3, <3>1 DEF Buffered
    <3> QED BY <1>3, <3>1, <3>2, <3>3
  <2>11. Newest'
    <3>1. b' # <<>>
      BY <1>3, <2>3
    <3>2. (timer = "imu" /\ b # <<>>) => capture <= Last(b')
      <4> SUFFICES ASSUME timer = "imu", b # <<>> PROVE capture <= Last(b')
        OBVIOUS
      <4>1. capture <= Last(b) /\ Last(b) <= Last(b') /\ capture \in Nat
        BY <1>2, <2>10, <3>1 DEF Newest, Types, TimerTypes
      <4>2. Last(b) \in Nat /\ Last(b') \in Nat
        <5>1. Len(b) \in 1 .. Len(b)
          BY <1>3, EmptySeq
        <5> QED BY <1>3, <2>3, <5>1 DEF Last
      <4> QED BY <4>1, <4>2
    <3> QED BY <1>1, <1>2, <3>1, <3>2 DEF Newest
  <2>12. SamplesKept'
    <3>1. Complete(capture) => Complete(capture)'
      <4>1. capture \in Int
        BY DEF Types, TimerTypes
      <4> QED BY <1>1, <2>6, <4>1 DEF Complete, ImuTimes
    <3>2. Complete(last_lio_update_time) => Complete(last_lio_update_time)'
      <4>1. last_lio_update_time \in Int
        BY DEF Types, TimerTypes
      <4> QED BY <1>1, <2>6, <4>1 DEF Complete, ImuTimes
    <3> QED BY <1>1, <1>2, <3>1, <3>2 DEF SamplesKept, Gathering, Pending, Resting, ImuTimes, Range
  <2>13. Started'
    BY <1>1, <1>5 DEF Started
  <2> QED BY <2>9, <2>11, <2>12, <2>13 DEF SampleInv
<1> QED BY <1>4, <1>5

\* The measure group takes the samples of its frame out of the buffer.
LEMMA SamplesDrained ==
  ASSUME Types, slam_mode = LIVO, SampleInv, DrainImu
  PROVE  SampleInv'
<1> USE DEF configVars, nextVars, filterVars, colourVars
<1> DEFINE b == imu_buffer
           last == last_lio_update_time
           m == Through(last)
           n == Through(capture)
<1>1. /\ UNCHANGED <<slam_mode, last_timestamp_lidar, imu_next, lio_vio_flg, capture,
                     last_lio_update_time, imu_need_init, jumped>>
      /\ timer = "imu" /\ timer' = "scans"
      /\ imu' = SubSeq(b, m + 1, n)
      /\ b' = SamplesAfter(capture)
  BY DEF DrainImu, TimerRest
<1>2. Started /\ Buffered /\ Newest /\ SamplesKept
  BY DEF SampleInv
<1>3. /\ b \in Seq(ImuTimes) /\ Len(b) \in Nat \ {0} /\ imu_next \in Nat
      /\ capture \in Nat /\ last \in Int
  <2>1. b # <<>>
    BY <1>1, <1>2 DEF Newest
  <2>2. b \in Seq(ImuTimes) /\ capture \in Nat /\ last \in Int /\ imu_next \in Nat
    BY DEF Types, ImuTypes, TimerTypes
  <2> QED BY <2>1, <2>2, EmptySeq
<1>4. /\ ImuTimes \subseteq Nat
      /\ \A i \in 1 .. Len(b) : b[i] \in Nat /\ b[i] \in ImuTimes
  BY BufferTyped DEF Types
<1>5. /\ m \in 0 .. Len(b) /\ Stops(m, last)
      /\ n \in 0 .. Len(b) /\ Stops(n, capture)
  BY <1>3, LoopStops
<1>6. /\ Len(imu') = IF m <= n THEN n - m ELSE 0
      /\ imu' \in Seq(ImuTimes)
      /\ \A i \in 1 .. n - m : imu'[i] = b[m + i]
  BY <1>1, <1>3, <1>5, SamplesTaken
<1> HIDE DEF m, n
<1>7. capture <= b[Len(b)] /\ b[Len(b)] < imu_next /\ last < capture
  <2>1. Len(b) \in 1 .. Len(b)
    BY <1>3
  <2> QED BY <1>1, <1>2, <2>1 DEF Newest, Buffered, Last
<1>8. Buffered'
  BY <1>1, <1>2, <1>3, CutKeepsBuffered DEF Types
<1>9. last_timestamp_lidar >= 0 /\ Started' /\ Newest'
  <2>1. ~(last_timestamp_lidar < 0)
    BY <1>2, <1>3 DEF Started
  <2>2. last_timestamp_lidar \in Int
    BY ScansApart DEF Types, LidarTypes
  <2> QED BY <1>1, <2>1, <2>2 DEF Started, Newest
<1>10. Complete(capture) => Complete(capture)'
  <2> SUFFICES ASSUME Complete(capture) PROVE Complete(capture)'
    OBVIOUS
  <2>1. \A t \in ImuTimes : (capture < t /\ t < imu_next) => \E i \in 1 .. Len(b') : b'[i] = t
    BY <1>1, <1>3, CutKeepsComplete DEF Types
  <2> QED BY <1>1, <2>1 DEF Complete, ImuTimes
\* A sample at or before a time is met before the loop stops, and none after.
<1>11. \A i \in 1 .. Len(b) : (i <= m <=> b[i] <= last) /\ (i <= n <=> b[i] <= capture)
  <2>1. ASSUME NEW c \in Int, NEW k \in 0 .. Len(b), Stops(k, c), NEW i \in 1 .. Len(b)
        PROVE  i <= k <=> b[i] <= c
    <3>1. CASE i <= k
      <4>1. i \in 1 .. k
        BY <1>3, <3>1
      <4> QED BY <2>1, <3>1, <4>1 DEF Stops
    <3>2. CASE ~(i <= k)
      <4>1. k < Len(b) /\ k + 1 \in 1 .. Len(b) /\ (i = k + 1 \/ k + 1 < i)
        BY <1>3, <3>2
      <4>2. c < b[k + 1] /\ b[k + 1] \in Nat /\ b[i] \in Nat
        BY <1>4, <2>1, <4>1 DEF Stops
      <4>3. k + 1 < i => b[k + 1] < b[i]
        BY <1>2, <4>1 DEF Buffered
      <4> QED BY <3>2, <4>1, <4>2, <4>3
    <3> QED BY <3>1, <3>2
  <2>2. \A i \in 1 .. Len(b) : i <= m <=> b[i] <= last
    BY <1>3, <1>5, <2>1
  <2>3. \A i \in 1 .. Len(b) : i <= n <=> b[i] <= capture
    BY <1>3, <1>5, <2>1
  <2> QED BY <2>2, <2>3
<1>12. imu' # <<>> => Complete(capture)
  <2> SUFFICES ASSUME imu' # <<>> PROVE Complete(capture)
    OBVIOUS
  <2>1. Len(imu') \in Nat \ {0}
    BY <1>6, EmptySeq
  <2>2. n \in 1 .. Len(b)
    BY <1>3, <1>5, <1>6, <2>1
  <2>3. b[n] <= capture /\ b[n] \in Nat /\ Complete(b[n])
    <3>1. n <= n
      BY <2>2
    <3> QED BY <1>2, <1>4, <1>11, <2>2, <3>1 DEF Buffered
  <2>4. \A t \in ImuTimes : capture < t => b[n] < t
    BY <1>3, <1>4, <2>3
  <2> QED BY <2>3, <2>4 DEF Complete
<1>13. (~imu_need_init /\ ~jumped) => Complete(last)
  BY <1>1, <1>2 DEF SamplesKept, Resting, Types, TimerTypes, Phase
<1>14. Complete(last) => Complete(capture)
  <2>1. \A t \in ImuTimes : capture < t => last < t
    BY <1>3, <1>4, <1>7
  <2> QED BY <2>1 DEF Complete
<1>15. Complete(last) => Range(imu') = {t \in ImuTimes : last < t /\ t <= capture}
  <2> SUFFICES ASSUME Complete(last)
               PROVE  Range(imu') = {t \in ImuTimes : last < t /\ t <= capture}
    OBVIOUS
  <2>1. DOMAIN imu' = 1 .. Len(imu') /\ Len(imu') \in Nat
    BY <1>6, LenProperties
  <2>2. ASSUME NEW i \in 1 .. Len(imu')
        PROVE  imu'[i] \in ImuTimes /\ last < imu'[i] /\ imu'[i] <= capture
    <3>1. i \in 1 .. n - m /\ m + i \in 1 .. Len(b) /\ ~(m + i <= m) /\ m + i <= n
      BY <1>3, <1>5, <1>6
    <3>2. imu'[i] = b[m + i] /\ b[m + i] \in ImuTimes /\ b[m + i] \in Nat
      BY <1>4, <1>6, <3>1
    <3>3. ~(b[m + i] <= last) /\ b[m + i] <= capture
      BY <1>11, <3>1
    <3> QED BY <1>3, <3>2, <3>3
  <2>3. ASSUME NEW t \in ImuTimes, last < t, t <= capture
        PROVE  \E i \in 1 .. Len(imu') : imu'[i] = t
    <3>0. t \in Nat /\ b[Len(b)] \in Nat
      BY <1>3, <1>4
    <3>1. t < imu_next
      BY <1>3, <1>7, <2>3, <3>0
    <3>2. PICK i \in 1 .. Len(b) : b[i] = t
      BY <2>3, <3>1 DEF Complete
    <3>3. ~(b[i] <= last) /\ b[i] <= capture
      BY <1>3, <2>3, <3>0, <3>2
    <3>4. ~(i <= m) /\ i <= n
      BY <1>11, <3>3
    <3>5. i - m \in 1 .. n - m /\ m + (i - m) = i /\ m <= n
      BY <1>3, <1>5, <3>4
    <3> QED BY <1>6, <3>2, <3>5
  <2> QED BY <2>1, <2>2, <2>3 DEF Range
<1>16. SamplesKept'
  <2>1. imu' # <<>> => Complete(capture)'
    BY <1>10, <1>12
  <2>2. (~imu_need_init /\ ~jumped) => Complete(capture)'
    BY <1>10, <1>13, <1>14
  <2>3. (~imu_need_init /\ ~jumped) =>
          Range(imu)' = {t \in ImuTimes : last < t /\ t <= capture}
    BY <1>13, <1>15 DEF Range
  <2> QED BY <1>1, <2>1, <2>2, <2>3 DEF SamplesKept, Resting, ImuTimes
<1> QED BY <1>8, <1>9, <1>16 DEF SampleInv

\* The other steps leave the buffer of the IMU alone.
LEMMA StepSamples ==
  ASSUME Types, SampleInv, [Next]_vars
  PROVE  SampleInv'
<1> USE DEF configVars, nextVars, lidVars, imgVars, measVars, filterVars, colourVars
<1>1. slam_mode' = slam_mode
  BY DEF Next, PushCloud, PushCloudTime, LoseScan, ImuCallback, ImgCallback, PushImageTime,
         ImageRest, TimerStep, TimerFires, ReadImageTime, ThrowImage, DrainImu, CutScan,
         FrameComplete, ReadVioTime, ReadImage, TakeImage, Undefined,
         ProcessLio, ProcessVio, LidarFrame,
         TimerRest, vars
<1>2. SUFFICES ASSUME slam_mode = LIVO
               PROVE  SampleInv'
  BY <1>1 DEF SampleInv
<1>3. Started /\ Buffered /\ Newest /\ SamplesKept
  BY <1>2 DEF SampleInv
<1>4. CASE ImuCallback
  BY <1>2, <1>4, SampleComes
<1>5. CASE DrainImu
  BY <1>2, <1>5, SamplesDrained
<1>6. CASE LidarFrame
  BY <1>2, <1>6 DEF LidarFrame
<1>7. CASE UNCHANGED <<imu_buffer, imu_next>>
  <2>1. Buffered'
    BY <1>3, <1>7 DEF Buffered, Complete, ImuTimes
  <2>2. \A since \in Int : Complete(since)' <=> Complete(since)
    BY <1>7 DEF Complete, ImuTimes
  <2>3. CASE UNCHANGED <<timer, lio_vio_flg, capture, imu, last_lio_update_time, imu_need_init,
                         jumped>>
    <3>1. last_timestamp_lidar' = last_timestamp_lidar \/ ~(last_timestamp_lidar' < 0) \/ DrainImu
          \/ LidarFrame
      <4>1. CASE PushCloudTime
        <5>1. lidar_next \in 1 .. NFrames
          BY <4>1 DEF PushCloudTime, Types, LidarTypes
        <5>2. Beg(lidar_next) \in 1 .. LastTime
          BY <5>1, ScansApart
        <5> QED BY <4>1, <5>2, ScansApart DEF PushCloudTime
      <4>2. CASE ~PushCloudTime
        BY <4>2 DEF Next, PushCloud, LoseScan, ImuCallback, ImgCallback, PushImageTime,
           ImageRest, TimerStep, TimerFires, ReadImageTime, ThrowImage, DrainImu, CutScan,
           FrameComplete, ReadVioTime, ReadImage, TakeImage, Undefined,
           ProcessLio, ProcessVio, LidarFrame,
           TimerRest, vars
      <4> QED BY <4>1, <4>2
    <3>2. CASE DrainImu \/ LidarFrame
      BY <1>5, <1>6, <3>2
    <3>3. CASE last_timestamp_lidar' = last_timestamp_lidar \/ ~(last_timestamp_lidar' < 0)
      BY <1>1, <1>3, <1>7, <2>1, <2>3, <3>3
         DEF SampleInv, Started, Newest, SamplesKept, Complete, Gathering, Pending, Resting,
             ImuTimes, Range
    <3> QED BY <3>1, <3>2, <3>3
  <2>4. CASE TimerStep /\ ~DrainImu /\ ~LidarFrame
    <3>1. last_timestamp_lidar' = last_timestamp_lidar
      BY <2>4 DEF TimerStep, TimerFires, ReadImageTime, ThrowImage, CutScan,
                  FrameComplete, ReadVioTime, ReadImage, TakeImage, Undefined,
                  ProcessLio, ProcessVio, TimerRest
    <3>2. CASE TimerFires \/ ThrowImage \/ CutScan \/ FrameComplete \/ ReadImage \/ TakeImage
             \/ Undefined
      <4>1. UNCHANGED <<capture, imu, last_lio_update_time, imu_need_init, jumped>>
        BY <3>2 DEF TimerFires, ThrowImage, CutScan, FrameComplete, ReadImage, TakeImage, Undefined
      <4>2. /\ timer' \in {"frame", "imu"} => imu_buffer # <<>>
            /\ timer' = "imu" => timer = "imu"
        BY <1>3, <3>2 DEF TimerFires, ThrowImage, CutScan, FrameComplete, ReadImage, TakeImage, Undefined,
                          NextStep, Newest
      <4>3. Started' /\ Newest'
        BY <1>3, <1>7, <3>1, <4>1, <4>2 DEF Started, Newest
      <4>4. /\ Gathering' => Gathering
            /\ Pending' => Pending \/ Gathering
            /\ Resting' => Resting
        <5>1. CASE TimerFires
          BY <5>1 DEF TimerFires, NextStep, Gathering, Pending, Resting
        <5>2. CASE ThrowImage
          BY <5>2 DEF ThrowImage, Gathering, Pending, Resting, Types, TimerTypes, Phase
        <5>3. CASE CutScan
          BY <5>3 DEF CutScan, Gathering, Pending, Resting
        <5>4. CASE FrameComplete
          BY <5>4 DEF FrameComplete, Gathering, Pending, Resting
        <5>5. CASE ReadImage \/ TakeImage
          BY <5>5 DEF ReadImage, TakeImage, Gathering, Pending, Resting, Types, TimerTypes, Phase
        <5>6. CASE Undefined
          BY <5>6 DEF Undefined, Gathering, Pending, Resting
        <5> QED BY <3>2, <5>1, <5>2, <5>3, <5>4, <5>5, <5>6
      <4>5. SamplesKept'
        BY <1>3, <1>7, <4>1, <4>4 DEF SamplesKept, Complete, ImuTimes, Range
      <4> QED BY <2>1, <4>3, <4>5 DEF SampleInv
    <3>3. CASE ReadImageTime
      <4>1. /\ UNCHANGED <<lio_vio_flg, imu, imu_need_init, jumped>>
            /\ timer = "frame" /\ timer' \in {"throw", "imu", "idle"}
            /\ last_lio_update_time' = FirstUpdateTime
        BY <3>3 DEF ReadImageTime
      <4>2. lio_vio_flg \in {"WAIT", "VIO"}
        BY <4>1 DEF Types, TimerTypes, Phase
      <4>3. Resting /\ ~Gathering' /\ ~Pending' /\ Resting'
        BY <4>1, <4>2 DEF Resting, Gathering, Pending
      <4>4. ~imu_need_init => last_lio_update_time' = last_lio_update_time
        <5> SUFFICES ASSUME ~imu_need_init
                     PROVE  last_lio_update_time' = last_lio_update_time
          OBVIOUS
        <5>1. last_lio_update_time # -1
          BY <1>2, <4>2 DEF Types, TimerTypes, Phase
        <5>2. last_lio_update_time \in Nat
          BY <5>1 DEF Types, TimerTypes
        <5> QED BY <4>1, <5>2 DEF FirstUpdateTime
      <4>5. Newest'
        <5>1. imu_buffer # <<>>
          BY <1>3, <4>1 DEF Newest
        <5>2. timer' = "imu" => capture' <= Last(imu_buffer) /\ ~(capture' <= last_lio_update_time')
          BY <3>3 DEF ReadImageTime, DataReady, imu_newest_time
        <5>3. capture' \in Int /\ last_lio_update_time' \in Int
          BY <3>3, ReadImageTimeTypes DEF Types, TimerTypes
        <5> QED BY <1>7, <5>1, <5>2, <5>3 DEF Newest
      <4>6. Started' /\ SamplesKept'
        BY <1>3, <1>7, <3>1, <4>1, <4>3, <4>4 DEF Started, SamplesKept, Complete, ImuTimes
      <4> QED BY <2>1, <4>5, <4>6 DEF SampleInv
    <3>4. CASE ReadVioTime
      <4>1. /\ UNCHANGED <<capture, last_lio_update_time, imu_need_init, jumped>>
            /\ timer = "image" /\ timer' = "peek" /\ lio_vio_flg' = "VIO" /\ imu' = <<>>
        BY <3>4 DEF ReadVioTime
      <4>2. Pending /\ ~Gathering' /\ ~Resting'
        BY <4>1 DEF Types, TimerTypes, Phase, Pending, Gathering, Resting
      <4>3. Started' /\ Newest' /\ SamplesKept'
        BY <1>3, <1>7, <3>1, <4>1, <4>2 DEF Started, Newest, SamplesKept, Complete, ImuTimes
      <4> QED BY <2>1, <4>3 DEF SampleInv
    <3>5. CASE ProcessLio
      <4>1. /\ UNCHANGED <<lio_vio_flg, capture, imu, jumped>> /\ timer' = "idle"
            /\ timer = "process" /\ lio_vio_flg = "LIO"
        BY <3>5 DEF ProcessLio, InitialiseImu
      <4>2. Gathering /\ Pending /\ ~Gathering' /\ ~Resting'
        BY <4>1 DEF Pending, Gathering, Resting
      <4>3. (imu = <<>> /\ imu_need_init) => imu_need_init'
        BY <3>5 DEF ProcessLio, InitialiseImu
      <4>4. (~imu_need_init' /\ ~jumped) => Complete(capture)
        <5>1. ~imu_need_init => (~jumped => Complete(capture))
          BY <1>3, <4>2 DEF SamplesKept
        <5>2. imu # <<>> => Complete(capture)
          BY <1>3, <4>2 DEF SamplesKept
        <5> QED BY <4>3, <5>1, <5>2
      <4>5. Started' /\ Newest' /\ SamplesKept'
        BY <1>3, <1>7, <3>1, <4>1, <4>2, <4>3, <4>4
           DEF Started, Newest, SamplesKept, Complete, ImuTimes
      <4> QED BY <2>1, <4>5 DEF SampleInv
    <3>6. CASE ProcessVio
      <4>1. /\ UNCHANGED <<lio_vio_flg, capture, imu, imu_need_init>> /\ timer' = "idle"
            /\ timer = "process" /\ lio_vio_flg = "VIO"
        BY <3>6 DEF ProcessVio
      <4>2. Pending /\ ~Gathering' /\ ~Pending'
        BY <4>1 DEF Pending, Gathering
      <4>3. (~imu_need_init /\ ~jumped') => last_lio_update_time' = capture /\ ~jumped
        BY <3>6 DEF ProcessVio
      <4>4. Started' /\ Newest' /\ SamplesKept'
        BY <1>3, <1>7, <3>1, <4>1, <4>2, <4>3 DEF Started, Newest, SamplesKept, Complete, ImuTimes
      <4> QED BY <2>1, <4>4 DEF SampleInv
    <3> QED BY <2>4, <3>2, <3>3, <3>4, <3>5, <3>6 DEF TimerStep
  <2>5. CASE UNCHANGED vars \/ PushCloud \/ PushCloudTime \/ LoseScan \/ ImgCallback \/ PushImageTime
    <3>1. UNCHANGED <<timer, lio_vio_flg, capture, imu, last_lio_update_time, imu_need_init, jumped>>
      BY <2>5 DEF vars, PushCloud, PushCloudTime, LoseScan, ImgCallback, PushImageTime, ImageRest
    <3> QED BY <2>3, <3>1
  <2> QED BY <1>4, <1>5, <1>6, <2>4, <2>5 DEF Next
<1>8. CASE ~UNCHANGED <<imu_buffer, imu_next>>
  <2>1. ImuCallback \/ DrainImu \/ LidarFrame
    BY <1>8 DEF Next, PushCloud, PushCloudTime, LoseScan, ImgCallback, PushImageTime,
         ImageRest, TimerStep, TimerFires, ReadImageTime, ThrowImage, CutScan,
         FrameComplete, ReadVioTime, ReadImage, TakeImage, Undefined, ProcessLio, ProcessVio,
         TimerRest, BuffersKept, vars
  <2> QED BY <1>4, <1>5, <1>6, <2>1
<1> QED BY <1>7, <1>8

\* Frames are only added, at the end.
LEMMA FramesGrow ==
  ASSUME Types, [Next]_vars
  PROVE  /\ jumped => jumped'
         /\ \/ frames' = frames
            \/ /\ timer = "process" /\ lio_vio_flg = "LIO" /\ ~imu_need_init /\ slam_mode = LIVO
               /\ jumped' = jumped
               /\ DOMAIN frames' = DOMAIN frames \cup {Len(frames) + 1}
               /\ \A k \in DOMAIN frames : frames'[k] = frames[k]
               /\ frames'[Len(frames) + 1] = [from |-> last_lio_update_time, to |-> capture,
                                              imu |-> imu, cloud |-> pcl_proc_cur]
<1> USE DEF configVars, nextVars, lidVars, imgVars, measVars, filterVars, colourVars
<1>1. CASE ProcessLio /\ ~imu_need_init
  <2> DEFINE F == [from : Nat, to : Nat, imu : Seq(ImuTimes), cloud : Clouds]
             fr == [from |-> last_lio_update_time, to |-> capture, imu |-> imu,
                    cloud |-> pcl_proc_cur]
  <2>1. /\ timer = "process" /\ lio_vio_flg = "LIO" /\ jumped' = jumped
        /\ frames' = Append(frames, fr)
    BY <1>1 DEF ProcessLio
  <2>2. slam_mode = LIVO
    BY <2>1 DEF Types, TimerTypes, Phase
  <2>3. frames \in Seq(F) /\ fr \in F
    <3>1. last_lio_update_time \in Nat
      BY <2>1, <2>2 DEF Types, TimerTypes, Phase
    <3>2. frames \in Seq(F)
      BY DEF Types, ResultTypes
    <3> QED BY <3>1, <3>2 DEF Types, TimerTypes
  <2> HIDE DEF F
  <2>4. /\ frames' \in Seq(F) /\ Len(frames') = Len(frames) + 1
        /\ \A k \in 1 .. Len(frames) : frames'[k] = frames[k]
        /\ frames'[Len(frames) + 1] = fr
    <3> HIDE DEF fr
    <3> QED BY <2>1, <2>3, AppendProperties
  <2>5. /\ Len(frames) \in Nat /\ DOMAIN frames = 1 .. Len(frames)
        /\ DOMAIN frames' = 1 .. Len(frames')
    BY <2>3, <2>4, LenProperties
  <2>6. DOMAIN frames' = DOMAIN frames \cup {Len(frames) + 1}
    BY <2>4, <2>5
  <2> QED BY <1>1, <2>1, <2>2, <2>4, <2>5, <2>6
<1>2. CASE ~(ProcessLio /\ ~imu_need_init)
  <2>1. frames' = frames
    BY <1>2 DEF Next, PushCloud, PushCloudTime, LoseScan, ImuCallback, ImgCallback, PushImageTime,
         ImageRest, TimerStep, TimerFires, ReadImageTime, ThrowImage, DrainImu, CutScan,
         FrameComplete, ReadVioTime, ReadImage, TakeImage, Undefined,
         ProcessLio, InitialiseImu, ProcessVio,
         LidarFrame, vars
  <2>2. jumped => jumped'
    BY DEF Next, PushCloud, PushCloudTime, LoseScan, ImuCallback, ImgCallback, PushImageTime,
         ImageRest, TimerStep, TimerFires, ReadImageTime, ThrowImage, DrainImu, CutScan,
         FrameComplete, ReadVioTime, ReadImage, TakeImage, Undefined,
         ProcessLio, InitialiseImu, ProcessVio,
         LidarFrame, vars
  <2> QED BY <2>1, <2>2
<1> QED BY <1>1, <1>2

\* Unless the filter's time has jumped, a frame's samples are those between
\* its two times, each of them once it has come: whatever the callbacks do
\* between the tests of sync_packages and its reads, the loop over imu_buffer
\* finds them all.
THEOREM SamplesSafe == Spec => []SamplesCoverFrame
<1> DEFINE IInv == Types /\ SampleInv /\ SamplesCoverFrame
<1>1. Init => IInv
  <2> SUFFICES ASSUME Init PROVE IInv
    OBVIOUS
  <2>1. frames = <<>> /\ imu_buffer = <<>> /\ imu = <<>> /\ Len(imu_buffer) = 0
    BY DEF Init
  <2>2. Started /\ Buffered /\ Newest
    BY <2>1 DEF Init, Started, Buffered, Newest
  <2>3. SamplesKept
    BY <2>1 DEF Init, SamplesKept, Gathering, Pending, Resting
  <2>4. SamplesCoverFrame
    BY <2>1 DEF SamplesCoverFrame
  <2> QED BY <2>2, <2>3, <2>4, InitTypes DEF SampleInv
<1>2. IInv /\ [Next]_vars => IInv'
  <2> SUFFICES ASSUME IInv, [Next]_vars PROVE IInv'
    OBVIOUS
  <2>1. Types' /\ SampleInv'
    BY StepTypes, StepSamples
  <2>2. SamplesCoverFrame'
    <3>1. CASE frames' = frames
      BY <3>1, FramesGrow DEF SamplesCoverFrame, ImuTimes
    <3>2. CASE frames' # frames
      <4> SUFFICES ASSUME ~jumped', NEW k \in DOMAIN frames'
                   PROVE  Range(frames'[k].imu) =
                            {t \in ImuTimes : frames'[k].from < t /\ t <= frames'[k].to}
        BY DEF SamplesCoverFrame, ImuTimes, Range
      <4>1. /\ timer = "process" /\ lio_vio_flg = "LIO" /\ ~imu_need_init /\ slam_mode = LIVO
            /\ ~jumped
            /\ k \in DOMAIN frames \/ k = Len(frames) + 1
            /\ \A j \in DOMAIN frames : frames'[j] = frames[j]
            /\ frames'[Len(frames) + 1] = [from |-> last_lio_update_time, to |-> capture,
                                           imu |-> imu, cloud |-> pcl_proc_cur]
        BY <3>2, FramesGrow
      <4>2. Range(imu) = {t \in ImuTimes : last_lio_update_time < t /\ t <= capture}
        BY <4>1 DEF SampleInv, SamplesKept, Gathering
      <4> QED BY <4>1, <4>2 DEF SamplesCoverFrame
    <3> QED BY <3>1, <3>2
  <2> QED BY <2>1, <2>2
<1>3. IInv => SamplesCoverFrame
  OBVIOUS
<1> HIDE DEF IInv
<1> QED BY <1>1, <1>2, <1>3, PTL DEF Spec

-------------------------------------------------------------------------------
(* The points of a frame. *)

\* A cloud's points come in the order of their times, are timed from a
\* given time, and belong to scans begun by one.
Ascending(cloud) ==
  \A i, j \in 1 .. Len(cloud) : i < j => MeasuredAt(cloud[i].point) < MeasuredAt(cloud[j].point)
TimedFrom(cloud, since) ==
  \A i \in 1 .. Len(cloud) : since + cloud[i].curvature = MeasuredAt(cloud[i].point)
Begun(cloud, time) == \A i \in 1 .. Len(cloud) : Beg(cloud[i].point[1]) <= time

\* No point is before a cut but those of the scan the cut before it went
\* through.
Early(cloud, since, to) ==
  \A i \in 1 .. Len(cloud) :
    MeasuredAt(cloud[i].point) < to \/ Beg(cloud[i].point[1]) <= since

\* The points come from scans before those in the buffer and those to come.
FromBefore(cloud) ==
  \A i \in 1 .. Len(cloud) :
    /\ cloud[i].point[1] < lidar_next
    /\ \A j \in 1 .. Len(lid_raw_data_buffer) : cloud[i].point[1] < lid_raw_data_buffer[j]

\* Scans come in their order, though some are lost.
ScansInOrder ==
  \A i \in 1 .. Len(lid_raw_data_buffer) :
    /\ lid_raw_data_buffer[i] <= lidar_next
    /\ pushing # "lidar" => lid_raw_data_buffer[i] < lidar_next
    /\ \A j \in 1 .. Len(lid_raw_data_buffer) : i < j => lid_raw_data_buffer[i] < lid_raw_data_buffer[j]

CloudsOrdered ==
  /\ ScansInOrder
  /\ Ascending(pcl_proc_cur) /\ FromBefore(pcl_proc_cur)
  /\ Ascending(pcl_proc_next) /\ FromBefore(pcl_proc_next)

\* What a cut leaves over is timed from it, which is where the next frame
\* begins.
PointsKept ==
  /\ (Gathering \/ Pending) =>
       TimedFrom(pcl_proc_next, capture) /\ Begun(pcl_proc_next, capture)
  /\ (Resting /\ ~imu_need_init /\ ~jumped) =>
       TimedFrom(pcl_proc_next, last_lio_update_time) /\ Begun(pcl_proc_next, last_lio_update_time)
  /\ (Gathering /\ ~imu_need_init /\ ~jumped) =>
       /\ TimedFrom(pcl_proc_cur, last_lio_update_time)
       /\ Early(pcl_proc_cur, last_lio_update_time, capture)

PointInv == slam_mode = LIVO => CloudsOrdered /\ PointsKept

LEMMA CloudTyped ==
  ASSUME NEW c \in Clouds
  PROVE  /\ Len(c) \in Nat /\ DOMAIN c = 1 .. Len(c)
         /\ \A i \in 1 .. Len(c) :
              /\ c[i].point[1] \in 1 .. NFrames /\ c[i].point[2] \in 0 .. Span - 1
              /\ c[i].curvature \in Int
              /\ Beg(c[i].point[1]) \in Nat
              /\ MeasuredAt(c[i].point) \in Nat
              /\ Beg(c[i].point[1]) <= MeasuredAt(c[i].point)
              /\ MeasuredAt(c[i].point) < Beg(c[i].point[1]) + Span
<1> DEFINE R == [point : Points, curvature : Int]
<1>1. c \in Seq(R)
  BY DEF Clouds
<1>2. Len(c) \in Nat /\ DOMAIN c = 1 .. Len(c)
  BY <1>1, LenProperties
<1>3. ASSUME NEW i \in 1 .. Len(c)
      PROVE  /\ c[i].point[1] \in 1 .. NFrames /\ c[i].point[2] \in 0 .. Span - 1
             /\ c[i].curvature \in Int
  <2>1. c[i] \in R
    <3> HIDE DEF R
    <3> QED BY <1>1, ElementOfSeq
  <2> QED BY <2>1 DEF Points
<1>4. ASSUME NEW i \in 1 .. Len(c)
      PROVE  /\ Beg(c[i].point[1]) \in Nat
             /\ MeasuredAt(c[i].point) \in Nat
             /\ Beg(c[i].point[1]) <= MeasuredAt(c[i].point)
             /\ MeasuredAt(c[i].point) < Beg(c[i].point[1]) + Span
  <2>1. Beg(c[i].point[1]) \in 1 .. LastTime
    BY <1>3, ScansApart
  <2>2. Beg(c[i].point[1]) \in Nat
    BY <2>1, ScansApart
  <2>3. MeasuredAt(c[i].point) = Beg(c[i].point[1]) + c[i].point[2]
    BY DEF MeasuredAt
  <2> QED BY <1>3, <2>2, <2>3, Constants
<1> QED BY <1>2, <1>3, <1>4

\* An element of two joined clouds is an element of one of them.
LEMMA JoinedElements ==
  ASSUME NEW c \in Clouds, NEW d \in Clouds
  PROVE  /\ c \o d \in Clouds
         /\ Len(c \o d) = Len(c) + Len(d)
         /\ \A i \in 1 .. Len(c) + Len(d) :
              \/ i \in 1 .. Len(c) /\ (c \o d)[i] = c[i]
              \/ i - Len(c) \in 1 .. Len(d) /\ Len(c) < i /\ (c \o d)[i] = d[i - Len(c)]
<1>1. Len(c) \in Nat /\ Len(d) \in Nat
  BY CloudTyped
<1>2. /\ c \o d \in Clouds /\ Len(c \o d) = Len(c) + Len(d)
      /\ \A i \in 1 .. Len(c) + Len(d) :
           (c \o d)[i] = IF i <= Len(c) THEN c[i] ELSE d[i - Len(c)]
  BY ConcatProperties DEF Clouds
<1>3. ASSUME NEW i \in 1 .. Len(c) + Len(d)
      PROVE  \/ i \in 1 .. Len(c) /\ i <= Len(c)
             \/ i - Len(c) \in 1 .. Len(d) /\ Len(c) < i /\ ~(i <= Len(c))
  BY <1>1
<1> QED BY <1>2, <1>3

\* A piece of a scan joined to points of earlier scans.
LEMMA JoinedCloud ==
  ASSUME NEW c \in Clouds, NEW f \in 1 .. NFrames,
         NEW first \in 0 .. Span, NEW end \in 0 .. Span, first <= end, NEW since \in Int
  PROVE  LET d == Timed(f, first, end, since)
         IN  /\ (Ascending(c) /\ \A i \in 1 .. Len(c) : c[i].point[1] < f) => Ascending(c \o d)
             /\ TimedFrom(c, since) => TimedFrom(c \o d, since)
             /\ \A time \in Int : (Begun(c, time) /\ Beg(f) <= time) => Begun(c \o d, time)
             /\ \A to \in Int : (Early(c, since, to) /\ Beg(f) + end <= to) => Early(c \o d, since, to)
             /\ \A g \in Int : (f < g /\ \A i \in 1 .. Len(c) : c[i].point[1] < g) =>
                  \A i \in 1 .. Len(c \o d) : (c \o d)[i].point[1] < g
<1> DEFINE d == Timed(f, first, end, since)
           n == end - first
<1>1. /\ d \in Clouds /\ Len(d) = n
      /\ \A i \in 1 .. n :
           /\ first + i - 1 \in first .. end - 1
           /\ d[i] = [point |-> <<f, first + i - 1>>, curvature |-> first + i - 1 + Beg(f) - since]
  BY TimedPiece
<1>2. first \in Nat /\ end \in Nat /\ n \in Nat /\ f \in Nat
      /\ Beg(f) \in Nat /\ \A g \in Nat : g < f => Beg(g) + Span <= Beg(f)
  BY ScansApart, Constants
<1> HIDE DEF d
<1>3. \A i \in 1 .. n :
        /\ d[i].point[1] = f
        /\ MeasuredAt(d[i].point) = Beg(f) + (first + i - 1)
        /\ since + d[i].curvature = MeasuredAt(d[i].point)
        /\ Beg(f) <= MeasuredAt(d[i].point)
        /\ MeasuredAt(d[i].point) < Beg(f) + end
  <2> TAKE i \in 1 .. n
  <2> DEFINE o == first + i - 1
  <2>1. /\ o \in Nat /\ o < end
        /\ d[i] = [point |-> <<f, o>>, curvature |-> o + Beg(f) - since]
    <3>1. o \in first .. end - 1
      BY <1>1
    <3> QED BY <1>1, <1>2, <3>1
  <2> HIDE DEF o
  <2>2. d[i].point[1] = f /\ MeasuredAt(d[i].point) = Beg(f) + o /\ d[i].curvature = o + Beg(f) - since
    BY <2>1 DEF MeasuredAt
  <2>3. /\ since + (o + Beg(f) - since) = Beg(f) + o /\ Beg(f) <= Beg(f) + o
        /\ Beg(f) + o < Beg(f) + end
    BY <1>2, <2>1
  <2> QED BY <2>2, <2>3 DEF o
<1>4. /\ Len(c) \in Nat
      /\ Len(c \o d) = Len(c) + n
      /\ \A i \in 1 .. Len(c \o d) :
           \/ i \in 1 .. Len(c) /\ (c \o d)[i] = c[i]
           \/ i - Len(c) \in 1 .. n /\ Len(c) < i /\ (c \o d)[i] = d[i - Len(c)]
  BY <1>1, CloudTyped, JoinedElements
<1>5. ASSUME Ascending(c), \A i \in 1 .. Len(c) : c[i].point[1] < f
      PROVE  Ascending(c \o d)
  <2> SUFFICES ASSUME NEW i \in 1 .. Len(c \o d), NEW j \in 1 .. Len(c \o d), i < j
               PROVE  MeasuredAt((c \o d)[i].point) < MeasuredAt((c \o d)[j].point)
    BY DEF Ascending
  <2>1. CASE j \in 1 .. Len(c)
    <3>1. i \in 1 .. Len(c) /\ ~(Len(c) < i) /\ ~(Len(c) < j)
      BY <1>2, <1>4, <2>1
    <3>2. (c \o d)[i] = c[i] /\ (c \o d)[j] = c[j]
      BY <1>4, <3>1
    <3> QED BY <1>5, <2>1, <3>1, <3>2 DEF Ascending
  <2>2. CASE i \in 1 .. Len(c) /\ ~(j \in 1 .. Len(c))
    <3>1. ~(Len(c) < i)
      BY <1>4, <2>2
    <3>2. (c \o d)[i] = c[i] /\ j - Len(c) \in 1 .. n /\ (c \o d)[j] = d[j - Len(c)]
      BY <1>4, <2>2, <3>1
    <3>3. /\ c[i].point[1] \in Nat /\ c[i].point[1] < f
          /\ MeasuredAt(c[i].point) \in Nat /\ Beg(c[i].point[1]) \in Nat
          /\ MeasuredAt(c[i].point) < Beg(c[i].point[1]) + Span
      BY <1>5, <2>2, CloudTyped, Constants
    <3>4. Beg(c[i].point[1]) + Span <= Beg(f)
      BY <1>2, <3>3
    <3>5. Beg(f) <= MeasuredAt(d[j - Len(c)].point) /\ MeasuredAt(d[j - Len(c)].point) \in Int
      <4> DEFINE k == j - Len(c)
      <4>1. k \in 1 .. n
        BY <3>2
      <4> HIDE DEF k
      <4>2. Beg(f) <= MeasuredAt(d[k].point) /\ MeasuredAt(d[k].point) = Beg(f) + (first + k - 1)
        BY <1>3, <4>1
      <4>3. Beg(f) + (first + k - 1) \in Int
        BY <1>2, <4>1
      <4> QED BY <4>2, <4>3 DEF k
    <3> QED BY <1>2, <3>2, <3>3, <3>4, <3>5, Constants
  <2>3. CASE ~(i \in 1 .. Len(c))
    <3> DEFINE k == i - Len(c)
               l == j - Len(c)
    <3>1. k \in 1 .. n /\ (c \o d)[i] = d[k]
      BY <1>4, <2>3
    <3>2. ~(j \in 1 .. Len(c))
      BY <1>2, <1>4, <2>3
    <3>3. l \in 1 .. n /\ (c \o d)[j] = d[l]
      BY <1>4, <3>2
    <3>4. k < l
      BY <1>4
    <3> HIDE DEF k, l
    <3>5. /\ MeasuredAt(d[k].point) = Beg(f) + (first + k - 1)
          /\ MeasuredAt(d[l].point) = Beg(f) + (first + l - 1)
      BY <1>3, <3>1, <3>3
    <3>6. Beg(f) + (first + k - 1) < Beg(f) + (first + l - 1)
      BY <1>2, <3>1, <3>3, <3>4
    <3> QED BY <3>1, <3>3, <3>5, <3>6
  <2> QED BY <2>1, <2>2, <2>3
<1>6. TimedFrom(c, since) => TimedFrom(c \o d, since)
  BY <1>3, <1>4 DEF TimedFrom
<1>7. \A time \in Int : (Begun(c, time) /\ Beg(f) <= time) => Begun(c \o d, time)
  BY <1>3, <1>4 DEF Begun
<1>8. \A to \in Int : (Early(c, since, to) /\ Beg(f) + end <= to) => Early(c \o d, since, to)
  <2> SUFFICES ASSUME NEW to \in Int, Early(c, since, to), Beg(f) + end <= to
               PROVE  Early(c \o d, since, to)
    OBVIOUS
  <2>1. \A i \in 1 .. n : MeasuredAt(d[i].point) < to
    <3> TAKE i \in 1 .. n
    <3>1. /\ MeasuredAt(d[i].point) = Beg(f) + (first + i - 1)
          /\ MeasuredAt(d[i].point) < Beg(f) + end
      BY <1>3
    <3> QED BY <1>2, <3>1
  <2> QED BY <1>4, <2>1 DEF Early
<1>9. \A g \in Int : (f < g /\ \A i \in 1 .. Len(c) : c[i].point[1] < g) =>
        \A i \in 1 .. Len(c \o d) : (c \o d)[i].point[1] < g
  BY <1>3, <1>4
<1> QED BY <1>5, <1>6, <1>7, <1>8, <1>9 DEF d

\* A scan comes, or is lost: points are from scans before it.
LEMMA ScanComes ==
  ASSUME Types, slam_mode = LIVO, PointInv, PushCloud \/ PushCloudTime \/ LoseScan
  PROVE  PointInv'
<1> USE DEF configVars, nextVars, lidVars, imgVars, measVars, filterVars, colourVars
<1> DEFINE raw == lid_raw_data_buffer
<1>1. /\ UNCHANGED <<slam_mode, timer, lio_vio_flg, capture, last_lio_update_time, imu_need_init,
                     jumped, pcl_proc_cur, pcl_proc_next>>
      /\ CloudsOrdered /\ PointsKept
  BY DEF PushCloud, PushCloudTime, LoseScan, PointInv
<1>2. PointsKept'
  BY <1>1 DEF PointsKept, TimedFrom, Begun, Early, Gathering, Pending, Resting
<1>3. /\ raw \in Seq(1 .. NFrames) /\ Len(raw) \in Nat /\ lidar_next \in Nat \ {0}
      /\ \A i \in 1 .. Len(raw) : raw[i] \in Nat
      /\ Len(pcl_proc_cur) \in Nat /\ Len(pcl_proc_next) \in Nat
      /\ \A i \in 1 .. Len(pcl_proc_cur) : pcl_proc_cur[i].point[1] \in Nat
      /\ \A i \in 1 .. Len(pcl_proc_next) : pcl_proc_next[i].point[1] \in Nat
  <2>1. raw \in Seq(1 .. NFrames) /\ lidar_next \in Nat \ {0} /\ 1 .. NFrames \subseteq Nat
    BY Constants DEF Types, LidarTypes
  <2>2. \A i \in 1 .. Len(raw) : raw[i] \in 1 .. NFrames
    <3> DEFINE S == 1 .. NFrames
    <3>1. raw \in Seq(S)
      BY <2>1
    <3> HIDE DEF S
    <3>2. \A i \in 1 .. Len(raw) : raw[i] \in S
      BY <3>1, ElementOfSeq
    <3> QED BY <3>2 DEF S
  <2>3. pcl_proc_cur \in Clouds /\ pcl_proc_next \in Clouds
    BY DEF Types, TimerTypes
  <2>4. \A i \in 1 .. Len(pcl_proc_cur) : pcl_proc_cur[i].point[1] \in 1 .. NFrames
    BY <2>3, CloudTyped
  <2>5. \A i \in 1 .. Len(pcl_proc_next) : pcl_proc_next[i].point[1] \in 1 .. NFrames
    BY <2>3, CloudTyped
  <2>6. Len(pcl_proc_cur) \in Nat /\ Len(pcl_proc_next) \in Nat
    BY <2>3, CloudTyped
  <2> QED BY <2>1, <2>2, <2>4, <2>5, <2>6, LenProperties
<1>4. /\ ScansInOrder
      /\ \A i \in 1 .. Len(pcl_proc_cur) :
           /\ pcl_proc_cur[i].point[1] < lidar_next
           /\ \A j \in 1 .. Len(raw) : pcl_proc_cur[i].point[1] < raw[j]
      /\ \A i \in 1 .. Len(pcl_proc_next) :
           /\ pcl_proc_next[i].point[1] < lidar_next
           /\ \A j \in 1 .. Len(raw) : pcl_proc_next[i].point[1] < raw[j]
  BY <1>1 DEF CloudsOrdered, FromBefore
<1>5. CASE PushCloud
  <2>1. raw' = Append(raw, lidar_next) /\ lidar_next' = lidar_next /\ pushing = "none"
        /\ pushing' = "lidar" /\ lidar_next \in 1 .. NFrames
    BY <1>5 DEF PushCloud, Unlocked
  <2>2. /\ Len(raw') = Len(raw) + 1
        /\ \A i \in 1 .. Len(raw) : raw'[i] = raw[i]
        /\ raw'[Len(raw) + 1] = lidar_next
    BY <1>3, <2>1, AppendProperties
  <2>3. \A i \in 1 .. Len(raw') : i \in 1 .. Len(raw) \/ i = Len(raw) + 1
    BY <1>3, <2>2
  <2>4. \A i \in 1 .. Len(raw) : raw[i] < lidar_next
    BY <1>4, <2>1 DEF ScansInOrder
  <2>5. ScansInOrder'
    <3>1. \A i \in 1 .. Len(raw') : raw'[i] <= lidar_next
      BY <1>3, <2>2, <2>3, <2>4
    <3>2. \A i, j \in 1 .. Len(raw') : i < j => raw'[i] < raw'[j]
      <4> SUFFICES ASSUME NEW i \in 1 .. Len(raw'), NEW j \in 1 .. Len(raw'), i < j
                   PROVE  raw'[i] < raw'[j]
        OBVIOUS
      <4> DEFINE n == Len(raw)
      <4>1. n \in Nat /\ i \in 1 .. n + 1 /\ j \in 1 .. n + 1
        BY <1>3, <2>2
      <4> HIDE DEF n
      <4>2. i \in 1 .. n /\ (j \in 1 .. n \/ j = n + 1)
        BY <4>1
      <4>3. j \in 1 .. n => raw[i] < raw[j]
        BY <1>4, <4>2 DEF ScansInOrder, n
      <4> QED BY <2>2, <2>4, <4>2, <4>3 DEF n
    <3> QED BY <2>1, <3>1, <3>2 DEF ScansInOrder
  <2>6. FromBefore(pcl_proc_cur)' /\ FromBefore(pcl_proc_next)'
    BY <1>1, <1>4, <2>1, <2>2, <2>3 DEF FromBefore
  <2>7. CloudsOrdered'
    BY <1>1, <2>5, <2>6 DEF CloudsOrdered, Ascending
  <2> QED BY <1>2, <2>7 DEF PointInv
<1>6. CASE PushCloudTime \/ LoseScan
  <2>1. raw' = raw /\ lidar_next' = lidar_next + 1 /\ pushing' = "none"
        /\ (pushing = "lidar" \/ pushing = "none")
    BY <1>6 DEF PushCloudTime, LoseScan, Unlocked
  <2>2. ScansInOrder'
    BY <1>3, <1>4, <2>1 DEF ScansInOrder
  <2>3. \A m \in Nat : m < lidar_next => m < lidar_next'
    BY <1>3, <2>1
  <2>4. FromBefore(pcl_proc_cur)' /\ FromBefore(pcl_proc_next)'
    BY <1>1, <1>3, <1>4, <2>1, <2>3 DEF FromBefore
  <2>5. CloudsOrdered'
    BY <1>1, <2>2, <2>4 DEF CloudsOrdered, Ascending
  <2> QED BY <1>2, <2>5 DEF PointInv
<1> QED BY <1>5, <1>6

\* The loop over the scans cuts one more.
LEMMA PointsCut ==
  ASSUME Types, slam_mode = LIVO, PointInv, CutScan
  PROVE  PointInv'
<1> USE DEF configVars, nextVars, filterVars, colourVars
<1> DEFINE raw == lid_raw_data_buffer
           f == Head(raw)
           last == last_lio_update_time
<1>1. /\ UNCHANGED <<slam_mode, timer, lio_vio_flg, capture, last_lio_update_time, imu_need_init,
                     jumped, lidar_next, pushing>>
      /\ timer = "scans" /\ pushing = "none" /\ raw # <<>>
      /\ ScansLeft /\ lid_header_time_buffer # <<>>
      /\ pcl_proc_cur' = pcl_proc_cur \o BeforeCut(f)
      /\ pcl_proc_next' = pcl_proc_next \o LeftOver(f)
      /\ raw' = Tail(raw)
      /\ CloudsOrdered /\ PointsKept
  BY DEF CutScan, TimerRest, Unlocked, ScansLeft, PointInv
<1>2. /\ f = raw[1] /\ f \in 1 .. NFrames /\ Beg(f) \in Nat /\ Beg(f) <= capture
      /\ Cut(f) \in 0 .. Span /\ capture \in Nat /\ last \in Int
  BY <1>1, ScanCut DEF Types, TimerTypes
<1>3. /\ raw \in Seq(1 .. NFrames) /\ Len(raw) \in Nat \ {0}
      /\ pcl_proc_cur \in Clouds /\ pcl_proc_next \in Clouds
  <2>1. raw \in Seq(1 .. NFrames)
    BY DEF Types, LidarTypes
  <2> QED BY <1>1, <2>1, EmptySeq DEF Types, TimerTypes
<1>4. /\ Len(raw') = Len(raw) - 1
      /\ \A i \in 1 .. Len(raw) - 1 : raw'[i] = raw[i + 1] /\ i + 1 \in 1 .. Len(raw)
  BY <1>1, <1>3, TailIsRest
<1>5. ScansInOrder
  BY <1>1 DEF CloudsOrdered
<1>6. 1 \in 1 .. Len(raw)
  BY <1>3
<1>7. /\ f < lidar_next
      /\ \A j \in 1 .. Len(raw) - 1 : f < raw[j + 1] /\ j + 1 \in 1 .. Len(raw) /\ 1 < j + 1
  <2>1. \A j \in 1 .. Len(raw) - 1 : j + 1 \in 1 .. Len(raw) /\ 1 < j + 1
    BY <1>3
  <2>2. \A j \in 1 .. Len(raw) - 1 : raw[1] < raw[j + 1]
    BY <1>5, <1>6, <2>1 DEF ScansInOrder
  <2> QED BY <1>1, <1>2, <1>5, <1>6, <2>1, <2>2 DEF ScansInOrder
<1>8. /\ lidar_next \in Int
      /\ \A j \in 1 .. Len(raw) - 1 : raw[j + 1] \in Int
  <2> DEFINE S == 1 .. NFrames
  <2>1. raw \in Seq(S)
    BY <1>3
  <2>2. S \subseteq Int
    BY Constants
  <2> HIDE DEF S
  <2>3. \A i \in 1 .. Len(raw) : raw[i] \in S
    BY <2>1, ElementOfSeq
  <2>4. \A j \in 1 .. Len(raw) - 1 : raw[j + 1] \in Int
    BY <1>7, <2>2, <2>3
  <2>5. lidar_next \in Int
    BY DEF Types, LidarTypes
  <2> QED BY <2>4, <2>5
<1>9. ScansInOrder'
  <2> SUFFICES ASSUME NEW i \in 1 .. Len(raw')
               PROVE  /\ raw'[i] <= lidar_next
                      /\ raw'[i] < lidar_next
                      /\ \A j \in 1 .. Len(raw') : i < j => raw'[i] < raw'[j]
    BY <1>1 DEF ScansInOrder
  <2>1. i \in 1 .. Len(raw) - 1 /\ i + 1 \in 1 .. Len(raw)
    BY <1>4
  <2>2. raw'[i] = raw[i + 1] /\ raw[i + 1] <= lidar_next /\ raw[i + 1] < lidar_next
    BY <1>1, <1>4, <1>5, <2>1 DEF ScansInOrder
  <2>3. ASSUME NEW j \in 1 .. Len(raw'), i < j
        PROVE  raw'[i] < raw'[j]
    <3>1. j \in 1 .. Len(raw) - 1 /\ j + 1 \in 1 .. Len(raw) /\ i + 1 < j + 1
      BY <1>3, <1>4, <2>3
    <3>2. raw[i + 1] < raw[j + 1]
      BY <1>5, <2>1, <3>1 DEF ScansInOrder
    <3> QED BY <1>4, <2>1, <3>1, <3>2
  <2> QED BY <2>2, <2>3
<1>10. /\ \A i \in 1 .. Len(pcl_proc_cur) : pcl_proc_cur[i].point[1] < f
       /\ \A i \in 1 .. Len(pcl_proc_next) : pcl_proc_next[i].point[1] < f
       /\ Ascending(pcl_proc_cur) /\ Ascending(pcl_proc_next)
  BY <1>1, <1>2, <1>6 DEF CloudsOrdered, FromBefore
<1> HIDE DEF f
<1>11. /\ \A g \in Int : f < g =>
            (\A i \in 1 .. Len(pcl_proc_cur) : pcl_proc_cur[i].point[1] < g)
       /\ \A g \in Int : f < g =>
            (\A i \in 1 .. Len(pcl_proc_next) : pcl_proc_next[i].point[1] < g)
  <2>1. \A i \in 1 .. Len(pcl_proc_cur) : pcl_proc_cur[i].point[1] \in 1 .. NFrames
    BY <1>3, CloudTyped
  <2>2. \A i \in 1 .. Len(pcl_proc_next) : pcl_proc_next[i].point[1] \in 1 .. NFrames
    BY <1>3, CloudTyped
  <2>3. \A m \in 1 .. NFrames : m < f => \A g \in Int : f < g => m < g
    BY <1>2, Constants
  <2> QED BY <1>10, <2>1, <2>2, <2>3
\* The part before the cut.
<1>12. /\ Ascending(pcl_proc_cur')
       /\ TimedFrom(pcl_proc_cur, last) => TimedFrom(pcl_proc_cur', last)
       /\ Early(pcl_proc_cur, last, capture) => Early(pcl_proc_cur', last, capture)
       /\ \A g \in Int : f < g => \A i \in 1 .. Len(pcl_proc_cur') : pcl_proc_cur'[i].point[1] < g
  <2>1. 0 \in 0 .. Span /\ 0 <= Cut(f) /\ Beg(f) + Cut(f) <= capture /\ capture \in Int
    BY <1>2, Constants DEF Cut
  <2> DEFINE piece == Timed(f, 0, Cut(f), last)
  <2>2. /\ (Ascending(pcl_proc_cur) /\ \A i \in 1 .. Len(pcl_proc_cur) : pcl_proc_cur[i].point[1] < f)
             => Ascending(pcl_proc_cur \o piece)
        /\ TimedFrom(pcl_proc_cur, last) => TimedFrom(pcl_proc_cur \o piece, last)
        /\ \A to \in Int : (Early(pcl_proc_cur, last, to) /\ Beg(f) + Cut(f) <= to)
             => Early(pcl_proc_cur \o piece, last, to)
        /\ \A g \in Int : (f < g /\ \A i \in 1 .. Len(pcl_proc_cur) : pcl_proc_cur[i].point[1] < g)
             => \A i \in 1 .. Len(pcl_proc_cur \o piece) : (pcl_proc_cur \o piece)[i].point[1] < g
    BY <1>2, <1>3, <2>1, JoinedCloud
  <2>3. pcl_proc_cur' = pcl_proc_cur \o piece
    BY <1>1 DEF BeforeCut, f
  <2> HIDE DEF piece
  <2> QED BY <1>10, <1>11, <2>1, <2>2, <2>3
\* The part after it.
<1>13. /\ Ascending(pcl_proc_next')
       /\ TimedFrom(pcl_proc_next, capture) => TimedFrom(pcl_proc_next', capture)
       /\ Begun(pcl_proc_next, capture) => Begun(pcl_proc_next', capture)
       /\ \A g \in Int : f < g => \A i \in 1 .. Len(pcl_proc_next') : pcl_proc_next'[i].point[1] < g
  <2>1. Span \in 0 .. Span /\ Cut(f) <= Span /\ capture \in Int
    BY <1>2, Constants
  <2> DEFINE piece == Timed(f, Cut(f), Span, capture)
  <2>2. /\ (Ascending(pcl_proc_next) /\ \A i \in 1 .. Len(pcl_proc_next) : pcl_proc_next[i].point[1] < f)
             => Ascending(pcl_proc_next \o piece)
        /\ TimedFrom(pcl_proc_next, capture) => TimedFrom(pcl_proc_next \o piece, capture)
        /\ \A time \in Int : (Begun(pcl_proc_next, time) /\ Beg(f) <= time)
             => Begun(pcl_proc_next \o piece, time)
        /\ \A g \in Int : (f < g /\ \A i \in 1 .. Len(pcl_proc_next) : pcl_proc_next[i].point[1] < g)
             => \A i \in 1 .. Len(pcl_proc_next \o piece) : (pcl_proc_next \o piece)[i].point[1] < g
    BY <1>2, <1>3, <2>1, JoinedCloud
  <2>3. pcl_proc_next' = pcl_proc_next \o piece
    BY <1>1 DEF LeftOver, f
  <2> HIDE DEF piece
  <2> QED BY <1>2, <1>10, <1>11, <2>1, <2>2, <2>3
<1>14. \A j \in 1 .. Len(raw') : f < raw'[j] /\ raw'[j] \in Int
  BY <1>4, <1>7, <1>8
<1>15. FromBefore(pcl_proc_cur)' /\ FromBefore(pcl_proc_next)'
  BY <1>1, <1>7, <1>8, <1>12, <1>13, <1>14 DEF FromBefore
<1>16. CloudsOrdered'
  BY <1>9, <1>12, <1>13, <1>15 DEF CloudsOrdered, Ascending
<1>17. PointsKept'
  <2>1. /\ Gathering /\ (~imu_need_init /\ ~jumped => TimedFrom(pcl_proc_cur, last)
                                                      /\ Early(pcl_proc_cur, last, capture))
        /\ TimedFrom(pcl_proc_next, capture) /\ Begun(pcl_proc_next, capture)
    BY <1>1 DEF PointsKept, Gathering
  <2>2. TimedFrom(pcl_proc_next, capture)' /\ Begun(pcl_proc_next, capture)'
    BY <1>1, <1>13, <2>1 DEF TimedFrom, Begun
  <2>3. ~imu_need_init /\ ~jumped =>
          TimedFrom(pcl_proc_cur, last)' /\ Early(pcl_proc_cur, last, capture)'
    BY <1>1, <1>12, <2>1 DEF TimedFrom, Early
  <2> QED BY <1>1, <2>2, <2>3 DEF PointsKept, Resting
<1> QED BY <1>16, <1>17 DEF PointInv

\* The other steps do not touch the clouds, but hand them on.
LEMMA StepPoints ==
  ASSUME Types, PointInv, [Next]_vars
  PROVE  PointInv'
<1> USE DEF configVars, nextVars, lidVars, imgVars, measVars, filterVars, colourVars
<1>1. slam_mode' = slam_mode
  BY DEF Next, PushCloud, PushCloudTime, LoseScan, ImuCallback, ImgCallback, PushImageTime,
         ImageRest, TimerStep, TimerFires, ReadImageTime, ThrowImage, DrainImu, CutScan,
         FrameComplete, ReadVioTime, ReadImage, TakeImage, Undefined,
         ProcessLio, ProcessVio, LidarFrame,
         TimerRest, vars
<1>2. SUFFICES ASSUME slam_mode = LIVO
               PROVE  PointInv'
  BY <1>1 DEF PointInv
<1>3. CloudsOrdered /\ PointsKept
  BY <1>2 DEF PointInv
<1>4. CASE PushCloud \/ PushCloudTime \/ LoseScan
  BY <1>2, <1>4, ScanComes
<1>5. CASE CutScan
  BY <1>2, <1>5, PointsCut
<1>6. CASE LidarFrame
  BY <1>2, <1>6 DEF LidarFrame
<1>7. CASE UNCHANGED vars \/ ImuCallback
  BY <1>1, <1>3, <1>7
     DEF vars, ImuCallback, PointInv, CloudsOrdered, ScansInOrder, Ascending, FromBefore,
         PointsKept, TimedFrom, Begun, Early, Gathering, Pending, Resting
<1>8. CASE ImgCallback \/ PushImageTime
  <2>1. /\ UNCHANGED <<lidar_next, lid_raw_data_buffer, timer, lio_vio_flg, capture,
                       last_lio_update_time, imu_need_init, jumped, pcl_proc_cur, pcl_proc_next>>
        /\ pushing' = pushing \/ pushing # "lidar"
    BY <1>8 DEF ImgCallback, PushImageTime, ImageRest, ImageLoopsBack, Unlocked
  <2>2. ScansInOrder'
    BY <1>3, <2>1 DEF CloudsOrdered, ScansInOrder
  <2>3. CloudsOrdered'
    BY <1>3, <2>1, <2>2 DEF CloudsOrdered, Ascending, FromBefore
  <2>4. PointsKept'
    BY <1>3, <2>1 DEF PointsKept, TimedFrom, Begun, Early, Gathering, Pending, Resting
  <2> QED BY <2>3, <2>4 DEF PointInv
<1>9. CASE TimerStep /\ ~CutScan /\ ~LidarFrame
  <2>1. UNCHANGED <<lidar_next, lid_raw_data_buffer, pushing>>
    BY <1>9 DEF TimerStep, TimerFires, ReadImageTime, ThrowImage, DrainImu, FrameComplete,
                ReadVioTime, ReadImage, TakeImage, Undefined,
                ProcessLio, ProcessVio, TimerRest, BuffersKept
  <2>2. ScansInOrder'
    BY <1>3, <2>1 DEF CloudsOrdered, ScansInOrder
  <2>3. CASE DrainImu
    <3>1. /\ UNCHANGED <<lio_vio_flg, capture, last_lio_update_time, imu_need_init, jumped>>
          /\ timer = "imu" /\ timer' = "scans"
          /\ pcl_proc_cur' = pcl_proc_next /\ pcl_proc_next' = <<>>
      BY <2>3 DEF DrainImu, TakeLeftOver
    <3>2. Len(pcl_proc_next') = 0 /\ 1 .. 0 = {}
      BY <3>1
    <3>3. CloudsOrdered'
      BY <1>3, <2>1, <2>2, <3>1, <3>2 DEF CloudsOrdered, Ascending, FromBefore
    <3>4. Resting
      BY <3>1 DEF Resting, Types, TimerTypes, Phase
    <3>5. TimedFrom(pcl_proc_next, capture)' /\ Begun(pcl_proc_next, capture)'
      BY <3>2 DEF TimedFrom, Begun
    <3>6. (~imu_need_init /\ ~jumped) =>
            TimedFrom(pcl_proc_cur, last_lio_update_time)'
            /\ Early(pcl_proc_cur, last_lio_update_time, capture)'
      BY <1>3, <3>1, <3>4 DEF PointsKept, TimedFrom, Begun, Early
    <3> QED BY <3>1, <3>3, <3>5, <3>6 DEF PointInv, PointsKept, Resting
  <2>4. CASE ~DrainImu
    <3>1. UNCHANGED <<pcl_proc_cur, pcl_proc_next>>
      BY <1>9, <2>4 DEF TimerStep, TimerFires, ReadImageTime, ThrowImage, FrameComplete,
                ReadVioTime, ReadImage, TakeImage, Undefined, ProcessLio, ProcessVio
    <3>2. CloudsOrdered'
      BY <1>3, <2>1, <2>2, <3>1 DEF CloudsOrdered, Ascending, FromBefore
    <3>3. CASE TimerFires \/ ThrowImage \/ FrameComplete \/ ReadImage \/ TakeImage
             \/ Undefined
      <4>1. UNCHANGED <<capture, last_lio_update_time, imu_need_init, jumped>>
        BY <3>3 DEF TimerFires, ThrowImage, FrameComplete, ReadImage, TakeImage, Undefined
      <4>2. /\ Gathering' => Gathering
            /\ Pending' => Pending \/ Gathering
            /\ Resting' => Resting
        <5>1. CASE TimerFires
          BY <5>1 DEF TimerFires, NextStep, Gathering, Pending, Resting
        <5>2. CASE ThrowImage
          BY <5>2 DEF ThrowImage, Gathering, Pending, Resting, Types, TimerTypes, Phase
        <5>3. CASE FrameComplete
          BY <5>3 DEF FrameComplete, Gathering, Pending, Resting
        <5>4. CASE ReadImage \/ TakeImage
          BY <5>4 DEF ReadImage, TakeImage, Gathering, Pending, Resting, Types, TimerTypes, Phase
        <5>5. CASE Undefined
          BY <5>5 DEF Undefined, Gathering, Pending, Resting
        <5> QED BY <3>3, <5>1, <5>2, <5>3, <5>4, <5>5
      <4>3. PointsKept'
        BY <1>3, <3>1, <4>1, <4>2 DEF PointsKept, TimedFrom, Begun, Early
      <4> QED BY <3>2, <4>3 DEF PointInv
    <3>4. CASE ReadImageTime
      <4>1. /\ UNCHANGED <<lio_vio_flg, imu_need_init, jumped>>
            /\ timer = "frame" /\ timer' \in {"throw", "imu", "idle"}
            /\ last_lio_update_time' = FirstUpdateTime
        BY <3>4 DEF ReadImageTime
      <4>2. lio_vio_flg \in {"WAIT", "VIO"}
        BY <4>1 DEF Types, TimerTypes, Phase
      <4>3. Resting /\ ~Gathering' /\ ~Pending'
        BY <4>1, <4>2 DEF Resting, Gathering, Pending
      <4>4. ~imu_need_init => last_lio_update_time' = last_lio_update_time
        <5> SUFFICES ASSUME ~imu_need_init
                     PROVE  last_lio_update_time' = last_lio_update_time
          OBVIOUS
        <5>1. last_lio_update_time # -1
          BY <1>2, <4>2 DEF Types, TimerTypes, Phase
        <5>2. last_lio_update_time \in Nat
          BY <5>1 DEF Types, TimerTypes
        <5> QED BY <4>1, <5>2 DEF FirstUpdateTime
      <4>5. PointsKept'
        BY <1>3, <3>1, <4>1, <4>3, <4>4 DEF PointsKept, TimedFrom, Begun
      <4> QED BY <3>2, <4>5 DEF PointInv
    <3>5. CASE ReadVioTime
      <4>1. /\ UNCHANGED <<capture, last_lio_update_time, imu_need_init, jumped>>
            /\ timer = "image" /\ timer' = "peek" /\ lio_vio_flg' = "VIO"
        BY <3>5 DEF ReadVioTime
      <4>2. Pending /\ ~Gathering' /\ ~Resting'
        BY <4>1 DEF Types, TimerTypes, Phase, Pending, Gathering, Resting
      <4>3. PointsKept'
        BY <1>3, <3>1, <4>1, <4>2 DEF PointsKept, TimedFrom, Begun
      <4> QED BY <3>2, <4>3 DEF PointInv
    <3>6. CASE ProcessLio
      <4>1. /\ UNCHANGED <<lio_vio_flg, capture, jumped>> /\ timer' = "idle"
            /\ timer = "process" /\ lio_vio_flg = "LIO"
        BY <3>6 DEF ProcessLio, InitialiseImu
      <4>2. Pending /\ ~Gathering' /\ ~Resting'
        BY <4>1 DEF Pending, Gathering, Resting
      <4>3. PointsKept'
        BY <1>3, <3>1, <4>1, <4>2 DEF PointsKept, TimedFrom, Begun
      <4> QED BY <3>2, <4>3 DEF PointInv
    <3>7. CASE ProcessVio
      <4>1. /\ UNCHANGED <<lio_vio_flg, capture, imu_need_init>> /\ timer' = "idle"
            /\ timer = "process" /\ lio_vio_flg = "VIO"
        BY <3>7 DEF ProcessVio
      <4>2. Pending /\ ~Gathering' /\ ~Pending'
        BY <4>1 DEF Pending, Gathering
      <4>3. (~imu_need_init /\ ~jumped') => last_lio_update_time' = capture
        BY <3>7 DEF ProcessVio
      <4>4. PointsKept'
        BY <1>3, <3>1, <4>1, <4>2, <4>3 DEF PointsKept, TimedFrom, Begun
      <4> QED BY <3>2, <4>4 DEF PointInv
    <3> QED BY <1>9, <2>4, <3>3, <3>4, <3>5, <3>6, <3>7 DEF TimerStep
  <2> QED BY <2>3, <2>4
<1> QED BY <1>4, <1>5, <1>6, <1>7, <1>8, <1>9 DEF Next

\* Unless the filter's time has jumped, the time UndistortPcl gives a point,
\* counted from the beginning of its frame, is when it was measured; a
\* frame's points come in the order of their times; and none is after the
\* image at the end of the frame, but those of a scan that image is the
\* second to cut.
THEOREM PointsSafe == Spec => []PointsOnTime
<1> DEFINE IInv == Types /\ PointInv /\ PointsOnTime
<1>1. Init => IInv
  <2> SUFFICES ASSUME Init PROVE IInv
    OBVIOUS
  <2>1. /\ frames = <<>> /\ pcl_proc_cur = <<>> /\ pcl_proc_next = <<>>
        /\ lid_raw_data_buffer = <<>>
        /\ Len(pcl_proc_cur) = 0 /\ Len(pcl_proc_next) = 0 /\ Len(lid_raw_data_buffer) = 0
        /\ 1 .. 0 = {}
    BY DEF Init
  <2>2. CloudsOrdered
    BY <2>1 DEF CloudsOrdered, ScansInOrder, Ascending, FromBefore
  <2>3. PointsKept
    BY <2>1 DEF PointsKept, TimedFrom, Begun, Early
  <2>4. PointsOnTime
    BY <2>1 DEF PointsOnTime
  <2> QED BY <2>2, <2>3, <2>4, InitTypes DEF PointInv
<1>2. IInv /\ [Next]_vars => IInv'
  <2> SUFFICES ASSUME IInv, [Next]_vars PROVE IInv'
    OBVIOUS
  <2>1. Types' /\ PointInv'
    BY StepTypes, StepPoints
  <2>2. PointsOnTime'
    <3>1. CASE frames' = frames
      BY <3>1, FramesGrow DEF PointsOnTime
    <3>2. CASE frames' # frames
      <4> DEFINE OnTime(fr) ==
                   /\ \A i \in DOMAIN fr.cloud :
                        fr.from + fr.cloud[i].curvature = MeasuredAt(fr.cloud[i].point)
                   /\ \A i, j \in DOMAIN fr.cloud :
                        i < j => fr.cloud[i].curvature < fr.cloud[j].curvature
                   /\ \A i \in DOMAIN fr.cloud :
                        \/ MeasuredAt(fr.cloud[i].point) < fr.to
                        \/ Beg(fr.cloud[i].point[1]) <= fr.from
      <4>0. PointsOnTime' <=> (~jumped' => \A k \in DOMAIN frames' : OnTime(frames'[k]))
        BY DEF PointsOnTime
      <4>1. PointsOnTime <=> (~jumped => \A k \in DOMAIN frames : OnTime(frames[k]))
        BY DEF PointsOnTime
      <4> DEFINE fr == [from |-> last_lio_update_time, to |-> capture, imu |-> imu,
                        cloud |-> pcl_proc_cur]
      <4>2. /\ timer = "process" /\ lio_vio_flg = "LIO" /\ ~imu_need_init /\ slam_mode = LIVO
            /\ jumped' = jumped
            /\ DOMAIN frames' = DOMAIN frames \cup {Len(frames) + 1}
            /\ \A k \in DOMAIN frames : frames'[k] = frames[k]
            /\ frames'[Len(frames) + 1] = fr
        BY <3>2, FramesGrow
      <4>3. ASSUME ~jumped
            PROVE  OnTime(fr)
        <5> DEFINE cloud == pcl_proc_cur
                   last == last_lio_update_time
        <5>1. /\ TimedFrom(cloud, last) /\ Early(cloud, last, capture) /\ Ascending(cloud)
          BY <4>2, <4>3 DEF PointInv, PointsKept, CloudsOrdered, Gathering
        <5>2. cloud \in Clouds /\ last \in Int
          BY DEF Types, TimerTypes
        <5>3. /\ DOMAIN cloud = 1 .. Len(cloud)
              /\ \A i \in 1 .. Len(cloud) :
                   cloud[i].curvature \in Int /\ MeasuredAt(cloud[i].point) \in Int
          BY <5>2, CloudTyped
        <5>4. \A i \in 1 .. Len(cloud) : last + cloud[i].curvature = MeasuredAt(cloud[i].point)
          BY <5>1 DEF TimedFrom
        <5>5. ASSUME NEW i \in 1 .. Len(cloud), NEW j \in 1 .. Len(cloud), i < j
              PROVE  cloud[i].curvature < cloud[j].curvature
          <6>1. MeasuredAt(cloud[i].point) < MeasuredAt(cloud[j].point)
            BY <5>1, <5>5 DEF Ascending
          <6>2. /\ cloud[i].curvature \in Int /\ cloud[j].curvature \in Int
                /\ last + cloud[i].curvature < last + cloud[j].curvature
            BY <5>3, <5>4, <6>1
          <6> QED BY <5>2, <6>2
        <5> QED BY <5>1, <5>3, <5>4, <5>5 DEF Early
      <4> HIDE DEF OnTime, fr
      <4> QED BY <4>0, <4>1, <4>2, <4>3
    <3> QED BY <3>1, <3>2
  <2> QED BY <2>1, <2>2
<1>3. IInv => PointsOnTime
  OBVIOUS
<1> HIDE DEF IInv
<1> QED BY <1>1, <1>2, <1>3, PTL DEF Spec

-------------------------------------------------------------------------------
(* Each point once. *)

\* Every point of one cloud is before every point of another.
Behind(c, d) ==
  \A i \in 1 .. Len(c) : \A j \in 1 .. Len(d) : MeasuredAt(c[i].point) < MeasuredAt(d[j].point)

\* Points go through the clouds and into the frames in the order of their
\* times, whether the filter's time jumps or not.
FramesOrdered ==
  \A k \in 1 .. Len(frames) :
    /\ Ascending(frames[k].cloud) /\ FromBefore(frames[k].cloud)
    /\ Behind(frames[k].cloud, pcl_proc_next)
    /\ Gathering => Behind(frames[k].cloud, pcl_proc_cur)
    /\ \A l \in 1 .. Len(frames) : k < l => Behind(frames[k].cloud, frames[l].cloud)

HeldOrdered ==
  Gathering => /\ Behind(pcl_proc_cur, pcl_proc_next)
               /\ \A i \in 1 .. Len(pcl_proc_next) : capture <= MeasuredAt(pcl_proc_next[i].point)

OrderInv == slam_mode = LIVO => FramesOrdered /\ HeldOrdered

\* The other modes have no such clouds.
NoClouds == slam_mode # LIVO => frames = <<>> /\ pcl_proc_cur = <<>> /\ pcl_proc_next = <<>>

LEMMA FrameTyped ==
  ASSUME Types
  PROVE  /\ Len(frames) \in Nat /\ DOMAIN frames = 1 .. Len(frames)
         /\ \A k \in 1 .. Len(frames) : frames[k].cloud \in Clouds
         /\ pcl_proc_cur \in Clouds /\ pcl_proc_next \in Clouds
<1> DEFINE F == [from : Nat, to : Nat, imu : Seq(ImuTimes), cloud : Clouds]
<1>1. frames \in Seq(F) /\ pcl_proc_cur \in Clouds /\ pcl_proc_next \in Clouds
  BY DEF Types, ResultTypes, TimerTypes
<1>2. \A e \in F : e.cloud \in Clouds
  OBVIOUS
<1> HIDE DEF F
<1>3. Len(frames) \in Nat /\ DOMAIN frames = 1 .. Len(frames)
  BY <1>1, LenProperties
<1>4. \A k \in 1 .. Len(frames) : frames[k] \in F
  BY <1>1, ElementOfSeq
<1> QED BY <1>1, <1>2, <1>3, <1>4

\* The points of a piece of a scan, and of earlier scans.
LEMMA PieceBehind ==
  ASSUME NEW c \in Clouds, NEW f \in 1 .. NFrames,
         NEW first \in 0 .. Span, NEW end \in 0 .. Span, first <= end, NEW since \in Int
  PROVE  LET d == Timed(f, first, end, since)
         IN  /\ d \in Clouds
             /\ \A i \in 1 .. Len(d) : /\ Beg(f) + first <= MeasuredAt(d[i].point)
                                       /\ MeasuredAt(d[i].point) < Beg(f) + end
             /\ (\A i \in 1 .. Len(c) : c[i].point[1] < f) => Behind(c, d)
<1> DEFINE d == Timed(f, first, end, since)
           n == end - first
<1>1. /\ d \in Clouds /\ Len(d) = n
      /\ \A i \in 1 .. n :
           /\ first + i - 1 \in first .. end - 1
           /\ d[i] = [point |-> <<f, first + i - 1>>, curvature |-> first + i - 1 + Beg(f) - since]
  BY TimedPiece
<1>2. first \in Nat /\ end \in Nat /\ n \in Nat /\ f \in Nat
      /\ Beg(f) \in Nat /\ \A g \in Nat : g < f => Beg(g) + Span <= Beg(f)
  BY ScansApart, Constants
<1> HIDE DEF d
<1>3. \A i \in 1 .. n : /\ MeasuredAt(d[i].point) \in Nat
                        /\ Beg(f) + first <= MeasuredAt(d[i].point)
                        /\ MeasuredAt(d[i].point) < Beg(f) + end
  <2> TAKE i \in 1 .. n
  <2> DEFINE o == first + i - 1
  <2>1. o \in Nat /\ first <= o /\ o < end /\ d[i].point = <<f, o>>
    <3>1. o \in first .. end - 1
      BY <1>1
    <3> QED BY <1>1, <1>2, <3>1
  <2> HIDE DEF o
  <2>2. MeasuredAt(d[i].point) = Beg(f) + o
    BY <2>1 DEF MeasuredAt
  <2> QED BY <1>2, <2>1, <2>2
<1>4. ASSUME \A i \in 1 .. Len(c) : c[i].point[1] < f
      PROVE  Behind(c, d)
  <2> SUFFICES ASSUME NEW i \in 1 .. Len(c), NEW j \in 1 .. n
               PROVE  MeasuredAt(c[i].point) < MeasuredAt(d[j].point)
    BY <1>1 DEF Behind
  <2>1. /\ c[i].point[1] \in Nat /\ c[i].point[1] < f
        /\ MeasuredAt(c[i].point) \in Nat /\ Beg(c[i].point[1]) \in Nat
        /\ MeasuredAt(c[i].point) < Beg(c[i].point[1]) + Span
    BY <1>4, CloudTyped, Constants
  <2>2. Beg(c[i].point[1]) + Span <= Beg(f)
    BY <1>2, <2>1
  <2>3. Beg(f) + first <= MeasuredAt(d[j].point) /\ MeasuredAt(d[j].point) \in Nat
    BY <1>3
  <2> QED BY <1>2, <2>1, <2>2, <2>3, Constants
<1> QED BY <1>1, <1>3, <1>4 DEF d

\* What lies behind two clouds lies behind their join, and the other way.
LEMMA BehindJoined ==
  ASSUME NEW c \in Clouds, NEW d \in Clouds
  PROVE  /\ \A e \in Clouds : (Behind(e, c) /\ Behind(e, d)) => Behind(e, c \o d)
         /\ \A e \in Clouds : (Behind(c, e) /\ Behind(d, e)) => Behind(c \o d, e)
         /\ (Ascending(c) /\ Ascending(d) /\ Behind(c, d)) => Ascending(c \o d)
<1>1. /\ Len(c) \in Nat /\ Len(d) \in Nat
      /\ Len(c \o d) = Len(c) + Len(d)
      /\ \A i \in 1 .. Len(c \o d) :
           \/ i \in 1 .. Len(c) /\ (c \o d)[i] = c[i]
           \/ i - Len(c) \in 1 .. Len(d) /\ Len(c) < i /\ (c \o d)[i] = d[i - Len(c)]
  BY CloudTyped, JoinedElements
<1>2. \A e \in Clouds : (Behind(e, c) /\ Behind(e, d)) => Behind(e, c \o d)
  BY <1>1 DEF Behind
<1>3. \A e \in Clouds : (Behind(c, e) /\ Behind(d, e)) => Behind(c \o d, e)
  BY <1>1 DEF Behind
<1>4. ASSUME Ascending(c), Ascending(d), Behind(c, d),
             NEW i \in 1 .. Len(c \o d), NEW j \in 1 .. Len(c \o d), i < j
      PROVE  MeasuredAt((c \o d)[i].point) < MeasuredAt((c \o d)[j].point)
  <2>1. CASE j \in 1 .. Len(c)
    <3>1. i \in 1 .. Len(c) /\ ~(Len(c) < i) /\ ~(Len(c) < j)
      BY <1>1, <1>4, <2>1
    <3>2. (c \o d)[i] = c[i] /\ (c \o d)[j] = c[j]
      BY <1>1, <3>1
    <3> QED BY <1>4, <2>1, <3>1, <3>2 DEF Ascending
  <2>2. CASE i \in 1 .. Len(c) /\ ~(j \in 1 .. Len(c))
    <3>1. ~(Len(c) < i)
      BY <1>1, <2>2
    <3>2. (c \o d)[i] = c[i] /\ j - Len(c) \in 1 .. Len(d) /\ (c \o d)[j] = d[j - Len(c)]
      BY <1>1, <2>2, <3>1
    <3> QED BY <1>4, <2>2, <3>2 DEF Behind
  <2>3. CASE ~(i \in 1 .. Len(c))
    <3>1. i - Len(c) \in 1 .. Len(d) /\ (c \o d)[i] = d[i - Len(c)]
      BY <1>1, <2>3
    <3>2. ~(j \in 1 .. Len(c))
      BY <1>1, <1>4, <2>3
    <3>3. j - Len(c) \in 1 .. Len(d) /\ (c \o d)[j] = d[j - Len(c)]
      BY <1>1, <3>2
    <3>4. i - Len(c) < j - Len(c)
      BY <1>1, <1>4
    <3> QED BY <1>4, <3>1, <3>3, <3>4 DEF Ascending
  <2> QED BY <2>1, <2>2, <2>3
<1>5. (Ascending(c) /\ Ascending(d) /\ Behind(c, d)) => Ascending(c \o d)
  BY <1>4 DEF Ascending
<1> QED BY <1>2, <1>3, <1>5

\* Points that come from scans before those in the buffer still do when a scan
\* comes, and when the first is taken.
LEMMA StillFromBefore ==
  ASSUME Types, ScansInOrder, NEW c \in Clouds, FromBefore(c),
         PushCloud \/ PushCloudTime \/ LoseScan \/ CutScan
  PROVE  \A i \in 1 .. Len(c) :
           /\ c[i].point[1] < lidar_next'
           /\ \A j \in 1 .. Len(lid_raw_data_buffer') : c[i].point[1] < lid_raw_data_buffer'[j]
<1> USE DEF configVars, nextVars, lidVars
<1> DEFINE raw == lid_raw_data_buffer
<1>1. SUFFICES ASSUME NEW i \in 1 .. Len(c)
               PROVE  /\ c[i].point[1] < lidar_next'
                      /\ \A j \in 1 .. Len(raw') : c[i].point[1] < raw'[j]
  OBVIOUS
<1>2. /\ raw \in Seq(1 .. NFrames) /\ Len(raw) \in Nat /\ lidar_next \in Nat
      /\ c[i].point[1] \in 1 .. NFrames /\ c[i].point[1] \in Nat
  <2>1. c[i].point[1] \in 1 .. NFrames
    BY CloudTyped
  <2> QED BY <2>1, LenProperties, Constants DEF Types, LidarTypes
<1>3. c[i].point[1] < lidar_next /\ \A j \in 1 .. Len(raw) : c[i].point[1] < raw[j]
  BY DEF FromBefore
<1>4. CASE PushCloud
  <2>1. raw' = Append(raw, lidar_next) /\ lidar_next' = lidar_next /\ lidar_next \in 1 .. NFrames
    BY <1>4 DEF PushCloud
  <2>2. /\ Len(raw') = Len(raw) + 1
        /\ \A j \in 1 .. Len(raw) : raw'[j] = raw[j]
        /\ raw'[Len(raw) + 1] = lidar_next
    BY <1>2, <2>1, AppendProperties
  <2>3. \A j \in 1 .. Len(raw') : j \in 1 .. Len(raw) \/ j = Len(raw) + 1
    BY <1>2, <2>2
  <2> QED BY <1>3, <2>1, <2>2, <2>3
<1>5. CASE PushCloudTime \/ LoseScan
  <2>1. raw' = raw /\ lidar_next' = lidar_next + 1
    BY <1>5 DEF PushCloudTime, LoseScan
  <2>2. c[i].point[1] < lidar_next'
    BY <1>2, <1>3, <2>1
  <2> QED BY <1>3, <2>1, <2>2
<1>6. CASE CutScan
  <2>1. raw' = Tail(raw) /\ lidar_next' = lidar_next /\ raw # <<>>
    BY <1>6 DEF CutScan, TimerRest, ScansLeft
  <2>2. /\ Len(raw') = Len(raw) - 1
        /\ \A j \in 1 .. Len(raw) - 1 : raw'[j] = raw[j + 1] /\ j + 1 \in 1 .. Len(raw)
    BY <1>2, <2>1, TailIsRest
  <2> QED BY <1>3, <2>1, <2>2
<1> QED BY <1>4, <1>5, <1>6

\* A cut leaves nothing over but of the last scan it goes through.
LEMMA CutInOrder ==
  ASSUME Types, slam_mode = LIVO, PointInv, OrderInv, CutScan
  PROVE  OrderInv'
<1> USE DEF configVars, nextVars, filterVars, colourVars
<1> DEFINE raw == lid_raw_data_buffer
           f == Head(raw)
           last == last_lio_update_time
           cur == pcl_proc_cur
           next == pcl_proc_next
           A == Timed(f, 0, Cut(f), last)
           B == Timed(f, Cut(f), Span, capture)
<1>1. /\ UNCHANGED <<slam_mode, timer, lio_vio_flg, capture, lidar_next, frames>>
      /\ timer = "scans" /\ raw # <<>> /\ ScansLeft /\ lid_header_time_buffer # <<>>
      /\ cur' = cur \o A /\ next' = next \o B
  BY DEF CutScan, TimerRest, ScansLeft, BeforeCut, LeftOver
<1>2. /\ f = raw[1] /\ f \in 1 .. NFrames /\ Beg(f) \in Nat /\ Beg(f) <= capture
      /\ Cut(f) \in 0 .. Span /\ capture \in Nat /\ last \in Int
  BY <1>1, ScanCut DEF Types, TimerTypes
<1>3. /\ CloudsOrdered /\ PointsKept /\ FramesOrdered /\ HeldOrdered /\ Gathering /\ Gathering'
      /\ ScansInOrder
  BY <1>1 DEF PointInv, OrderInv, Gathering, CloudsOrdered
<1>4. /\ cur \in Clouds /\ next \in Clouds /\ \A k \in 1 .. Len(frames) : frames[k].cloud \in Clouds
  BY FrameTyped
<1>5. 1 \in 1 .. Len(raw)
  <2>1. raw \in Seq(1 .. NFrames)
    BY DEF Types, LidarTypes
  <2>2. Len(raw) \in Nat \ {0}
    BY <1>1, <2>1, EmptySeq
  <2> QED BY <2>2
<1>6. \A c \in Clouds : FromBefore(c) => \A i \in 1 .. Len(c) : c[i].point[1] < f
  BY <1>2, <1>5 DEF FromBefore
<1>7. /\ 0 \in 0 .. Span /\ Span \in 0 .. Span /\ 0 <= Cut(f) /\ Cut(f) <= Span /\ capture \in Int
      /\ Beg(f) + Cut(f) <= capture
      /\ Cut(f) < Span => Beg(f) + Cut(f) = capture
  BY <1>2, Constants DEF Cut
<1> HIDE DEF f
<1>8. /\ A \in Clouds
      /\ \A i \in 1 .. Len(A) : MeasuredAt(A[i].point) < Beg(f) + Cut(f)
      /\ \A c \in Clouds : (\A i \in 1 .. Len(c) : c[i].point[1] < f) => Behind(c, A)
  <2>1. \A c \in Clouds :
          /\ A \in Clouds
          /\ \A i \in 1 .. Len(A) : MeasuredAt(A[i].point) < Beg(f) + Cut(f)
          /\ (\A i \in 1 .. Len(c) : c[i].point[1] < f) => Behind(c, A)
    BY <1>2, <1>7, PieceBehind
  <2> HIDE DEF A
  <2> QED BY <1>4, <2>1
<1>9. /\ B \in Clouds
      /\ \A i \in 1 .. Len(B) : /\ Beg(f) + Cut(f) <= MeasuredAt(B[i].point)
                                /\ MeasuredAt(B[i].point) < Beg(f) + Span
      /\ \A c \in Clouds : (\A i \in 1 .. Len(c) : c[i].point[1] < f) => Behind(c, B)
  <2>1. \A c \in Clouds :
          /\ B \in Clouds
          /\ \A i \in 1 .. Len(B) : /\ Beg(f) + Cut(f) <= MeasuredAt(B[i].point)
                                    /\ MeasuredAt(B[i].point) < Beg(f) + Span
          /\ (\A i \in 1 .. Len(c) : c[i].point[1] < f) => Behind(c, B)
    BY <1>2, <1>7, PieceBehind
  <2> HIDE DEF B
  <2> QED BY <1>4, <2>1
<1> HIDE DEF A, B
\* Nothing has been left over before this scan.
<1>10. Len(next) = 0
  <2> SUFFICES ASSUME Len(next) # 0 PROVE FALSE
    OBVIOUS
  <2>1. 1 \in 1 .. Len(next)
    BY <1>4, CloudTyped
  <2> DEFINE g == next[1].point[1]
             t == MeasuredAt(next[1].point)
  <2>2. g < f /\ capture <= t
    BY <1>3, <1>4, <1>6, <2>1 DEF CloudsOrdered, HeldOrdered
  <2>3. g \in 1 .. NFrames /\ t \in Nat /\ Beg(g) \in Nat /\ t < Beg(g) + Span
    BY <1>4, <2>1, CloudTyped
  <2> HIDE DEF g, t
  <2>4. Beg(g) + Span <= Beg(f)
    <3>1. g \in Nat /\ f \in Nat
      BY <1>2, <2>3, Constants
    <3> QED BY <2>2, <3>1, ScansApart
  <2> QED BY <1>2, <2>2, <2>3, <2>4, Constants
<1>11. /\ Behind(cur, next) /\ Behind(A, next) /\ Behind(cur, B) /\ Behind(A, B)
  <2>1. \A c \in Clouds : Behind(c, next)
    BY <1>10 DEF Behind
  <2>2. Behind(cur, B)
    BY <1>3, <1>4, <1>6, <1>9 DEF CloudsOrdered
  <2>3. Behind(A, B)
    <3> SUFFICES ASSUME NEW i \in 1 .. Len(A), NEW j \in 1 .. Len(B)
                 PROVE  MeasuredAt(A[i].point) < MeasuredAt(B[j].point)
      BY DEF Behind
    <3>1. MeasuredAt(A[i].point) \in Nat /\ MeasuredAt(B[j].point) \in Nat
      BY <1>8, <1>9, CloudTyped
    <3>2. /\ MeasuredAt(A[i].point) < Beg(f) + Cut(f)
          /\ Beg(f) + Cut(f) <= MeasuredAt(B[j].point)
      BY <1>8, <1>9
    <3>3. Beg(f) + Cut(f) \in Int
      BY <1>2
    <3> QED BY <3>1, <3>2, <3>3
  <2> QED BY <1>4, <1>8, <2>1, <2>2, <2>3
<1>12. HeldOrdered'
  <2>1. Behind(cur \o A, next \o B)
    <3>1. cur \o A \in Clouds
      BY <1>4, <1>8, JoinedElements
    <3>2. Behind(cur \o A, next) /\ Behind(cur \o A, B)
      BY <1>4, <1>8, <1>9, <1>11, BehindJoined
    <3> QED BY <1>4, <1>9, <3>1, <3>2, BehindJoined
  <2>2. Behind(pcl_proc_cur, pcl_proc_next)'
    BY <1>1, <2>1 DEF Behind
  <2>3. \A i \in 1 .. Len(next') : capture <= MeasuredAt(next'[i].point)
    <3> TAKE i \in 1 .. Len(next')
    <3>1. i \in 1 .. Len(B) /\ next'[i] = B[i]
      <4>1. /\ Len(next \o B) = Len(next) + Len(B) /\ Len(B) \in Nat
            /\ \A m \in 1 .. Len(next) + Len(B) :
                 \/ m \in 1 .. Len(next) /\ (next \o B)[m] = next[m]
                 \/ m - Len(next) \in 1 .. Len(B) /\ Len(next) < m
                    /\ (next \o B)[m] = B[m - Len(next)]
        BY <1>4, <1>9, JoinedElements, CloudTyped
      <4>2. i \in 1 .. Len(next) + Len(B) /\ ~(i \in 1 .. Len(next)) /\ i - Len(next) = i
        BY <1>1, <1>10, <4>1
      <4> QED BY <1>1, <4>1, <4>2
    <3>2. /\ Beg(f) + Cut(f) <= MeasuredAt(B[i].point) /\ MeasuredAt(B[i].point) < Beg(f) + Span
          /\ MeasuredAt(B[i].point) \in Nat
      BY <1>9, <3>1, CloudTyped
    <3>3. Cut(f) < Span
      BY <1>2, <3>2, Constants
    <3> QED BY <1>7, <3>1, <3>2, <3>3
  <2> QED BY <1>1, <2>2, <2>3 DEF HeldOrdered
<1>13. FramesOrdered'
  <2>0. ASSUME NEW k \in 1 .. Len(frames)
        PROVE  /\ Ascending(frames[k].cloud)
               /\ \A i \in 1 .. Len(frames[k].cloud) :
                    /\ frames[k].cloud[i].point[1] < lidar_next'
                    /\ \A j \in 1 .. Len(raw') : frames[k].cloud[i].point[1] < raw'[j]
               /\ Behind(frames[k].cloud, next \o B)
               /\ Behind(frames[k].cloud, cur \o A)
               /\ \A l \in 1 .. Len(frames) : k < l => Behind(frames[k].cloud, frames[l].cloud)
    <3> DEFINE e == frames[k].cloud
    <3>1. /\ e \in Clouds /\ Ascending(e) /\ FromBefore(e) /\ Behind(e, next) /\ Behind(e, cur)
          /\ \A l \in 1 .. Len(frames) : k < l => Behind(e, frames[l].cloud)
      BY <1>3, <1>4 DEF FramesOrdered
    <3> HIDE DEF e
    <3>2. Behind(e, A) /\ Behind(e, B)
      BY <1>6, <1>8, <1>9, <3>1
    <3>3. Behind(e, next \o B) /\ Behind(e, cur \o A)
      BY <1>4, <1>8, <1>9, <3>1, <3>2, BehindJoined
    <3>4. \A i \in 1 .. Len(e) :
            /\ e[i].point[1] < lidar_next'
            /\ \A j \in 1 .. Len(raw') : e[i].point[1] < raw'[j]
      BY <1>3, <3>1, StillFromBefore
    <3> QED BY <3>1, <3>3, <3>4 DEF e
  <2>1. \A k \in 1 .. Len(frames) : FromBefore(frames[k].cloud)'
    BY <1>1, <2>0 DEF FromBefore
  <2>2. \A k \in 1 .. Len(frames) :
          /\ Behind(frames'[k].cloud, next')
          /\ Behind(frames'[k].cloud, cur')
    BY <1>1, <2>0
  <2>3. \A k \in 1 .. Len(frames') :
          /\ Ascending(frames'[k].cloud)
          /\ \A l \in 1 .. Len(frames') : k < l => Behind(frames'[k].cloud, frames'[l].cloud)
    BY <1>1, <2>0
  <2> QED BY <1>1, <2>1, <2>2, <2>3 DEF FramesOrdered
<1> QED BY <1>12, <1>13 DEF OrderInv

LEMMA StepOrder ==
  ASSUME Types, PointInv, OrderInv, [Next]_vars
  PROVE  OrderInv'
<1> USE DEF configVars, nextVars, lidVars, imgVars, measVars, filterVars, colourVars
<1>1. slam_mode' = slam_mode
  BY DEF Next, PushCloud, PushCloudTime, LoseScan, ImuCallback, ImgCallback, PushImageTime,
         ImageRest, TimerStep, TimerFires, ReadImageTime, ThrowImage, DrainImu, CutScan,
         FrameComplete, ReadVioTime, ReadImage, TakeImage, Undefined,
         ProcessLio, ProcessVio, LidarFrame,
         TimerRest, vars
<1>2. SUFFICES ASSUME slam_mode = LIVO
               PROVE  OrderInv'
  BY <1>1 DEF OrderInv
<1>3. FramesOrdered /\ HeldOrdered /\ CloudsOrdered
  BY <1>2 DEF OrderInv, PointInv
<1>4. CASE PushCloud \/ PushCloudTime \/ LoseScan
  <2>1. UNCHANGED <<timer, lio_vio_flg, capture, frames, pcl_proc_cur, pcl_proc_next>>
    BY <1>4 DEF PushCloud, PushCloudTime, LoseScan
  <2>2. HeldOrdered'
    BY <1>3, <2>1 DEF HeldOrdered, Gathering, Behind
  <2>3. ASSUME NEW k \in 1 .. Len(frames)
        PROVE  \A i \in 1 .. Len(frames[k].cloud) :
                 /\ frames[k].cloud[i].point[1] < lidar_next'
                 /\ \A j \in 1 .. Len(lid_raw_data_buffer') :
                      frames[k].cloud[i].point[1] < lid_raw_data_buffer'[j]
    <3> DEFINE e == frames[k].cloud
    <3>1. e \in Clouds /\ FromBefore(e) /\ ScansInOrder
      BY <1>3, FrameTyped DEF FramesOrdered, CloudsOrdered
    <3> HIDE DEF e
    <3>2. \A i \in 1 .. Len(e) :
            /\ e[i].point[1] < lidar_next'
            /\ \A j \in 1 .. Len(lid_raw_data_buffer') : e[i].point[1] < lid_raw_data_buffer'[j]
      BY <1>4, <3>1, StillFromBefore
    <3> QED BY <3>2 DEF e
  <2>4. \A k \in 1 .. Len(frames) : FromBefore(frames[k].cloud)'
    BY <2>1, <2>3 DEF FromBefore
  <2>5. FramesOrdered'
    BY <1>3, <2>1, <2>4 DEF FramesOrdered, Gathering, Ascending, Behind
  <2> QED BY <2>2, <2>5 DEF OrderInv
<1>5. CASE CutScan
  BY <1>2, <1>5, CutInOrder
<1>6. CASE LidarFrame
  BY <1>2, <1>6 DEF LidarFrame
<1>7. CASE DrainImu
  <2>1. /\ UNCHANGED <<frames, lidar_next, lid_raw_data_buffer>>
        /\ pcl_proc_cur' = pcl_proc_next /\ Len(pcl_proc_next') = 0 /\ 1 .. 0 = {}
    BY <1>7 DEF DrainImu, TakeLeftOver, TimerRest
  <2>2. HeldOrdered'
    BY <2>1 DEF HeldOrdered, Behind
  <2>3. FramesOrdered'
    BY <1>3, <2>1 DEF FramesOrdered, Ascending, FromBefore, Behind
  <2> QED BY <2>2, <2>3 DEF OrderInv
<1>8. CASE UNCHANGED <<frames, pcl_proc_cur, pcl_proc_next, lidar_next, lid_raw_data_buffer>>
           /\ (Gathering' => Gathering /\ capture' = capture)
  BY <1>3, <1>8 DEF OrderInv, FramesOrdered, HeldOrdered, Ascending, FromBefore, Behind
<1>9. CASE ProcessLio /\ ~imu_need_init
  <2> DEFINE n == Len(frames)
             fr == [from |-> last_lio_update_time, to |-> capture, imu |-> imu,
                    cloud |-> pcl_proc_cur]
  <2>1. /\ timer = "process" /\ lio_vio_flg = "LIO" /\ timer' = "idle"
        /\ UNCHANGED <<lidar_next, lid_raw_data_buffer, pcl_proc_cur, pcl_proc_next>>
        /\ frames' = Append(frames, fr)
    BY <1>9 DEF ProcessLio, TimerRest
  <2>2. Gathering /\ ~Gathering'
    BY <2>1 DEF Gathering
  <2>3. /\ n \in Nat /\ Len(frames') = n + 1
        /\ \A k \in 1 .. n : frames'[k] = frames[k]
        /\ frames'[n + 1] = fr
    <3> DEFINE F == [from : Nat, to : Nat, imu : Seq(ImuTimes), cloud : Clouds]
    <3>1. last_lio_update_time \in Nat
      BY <1>2, <2>1 DEF Types, TimerTypes, Phase
    <3>2. frames \in Seq(F) /\ fr \in F
      BY <3>1 DEF Types, ResultTypes, TimerTypes
    <3> HIDE DEF F, fr
    <3> QED BY <2>1, <3>2, AppendProperties, LenProperties
  <2>4. fr.cloud = pcl_proc_cur
    OBVIOUS
  <2> HIDE DEF n, fr
  <2>5. \A k \in 1 .. n + 1 : (k \in 1 .. n \/ k = n + 1) /\ \A l \in 1 .. n : k < l => k \in 1 .. n
    BY <2>3
  <2>6. \A k \in 1 .. n : /\ Ascending(frames[k].cloud) /\ FromBefore(frames[k].cloud)
                          /\ Behind(frames[k].cloud, pcl_proc_next)
                          /\ Behind(frames[k].cloud, pcl_proc_cur)
                          /\ \A l \in 1 .. n : k < l => Behind(frames[k].cloud, frames[l].cloud)
    BY <1>3, <2>2 DEF FramesOrdered, n
  <2>7. /\ Ascending(fr.cloud) /\ FromBefore(fr.cloud) /\ Behind(fr.cloud, pcl_proc_next)
    BY <1>3, <2>2, <2>4 DEF CloudsOrdered, HeldOrdered
  <2>8. \A k \in 1 .. n + 1 : Ascending(frames'[k].cloud) /\ Behind(frames'[k].cloud, pcl_proc_next)
    BY <2>3, <2>5, <2>6, <2>7
  <2>9. \A k, l \in 1 .. n + 1 : k < l => Behind(frames'[k].cloud, frames'[l].cloud)
    <3> SUFFICES ASSUME NEW k \in 1 .. n + 1, NEW l \in 1 .. n + 1, k < l
                 PROVE  Behind(frames'[k].cloud, frames'[l].cloud)
      OBVIOUS
    <3>1. k \in 1 .. n /\ (l \in 1 .. n \/ l = n + 1)
      BY <2>3
    <3> QED BY <2>3, <2>4, <2>6, <3>1
  <2>10. \A k \in 1 .. n + 1 :
           \A i \in 1 .. Len(frames'[k].cloud) :
             /\ frames'[k].cloud[i].point[1] < lidar_next
             /\ \A j \in 1 .. Len(lid_raw_data_buffer) :
                  frames'[k].cloud[i].point[1] < lid_raw_data_buffer[j]
    BY <2>3, <2>5, <2>6, <2>7 DEF FromBefore
  <2>11. \A k \in 1 .. Len(frames') : FromBefore(frames[k].cloud)'
    BY <2>1, <2>3, <2>10 DEF FromBefore
  <2>12. FramesOrdered'
    BY <2>1, <2>2, <2>3, <2>8, <2>9, <2>11 DEF FramesOrdered
  <2> QED BY <2>2, <2>12 DEF OrderInv, HeldOrdered
<1>10. CASE ~(ProcessLio /\ ~imu_need_init) /\ ~DrainImu /\ ~CutScan /\ ~LidarFrame
            /\ ~(PushCloud \/ PushCloudTime \/ LoseScan)
  <2>1. UNCHANGED <<frames, pcl_proc_cur, pcl_proc_next, lidar_next, lid_raw_data_buffer>>
    BY <1>10 DEF Next, ImuCallback, ImgCallback, PushImageTime,
         ImageRest, TimerStep, TimerFires, ReadImageTime, ThrowImage, BuffersKept,
         FrameComplete, ReadVioTime, ReadImage, TakeImage, Undefined,
         ProcessLio, InitialiseImu, ProcessVio,
         TimerRest, vars
  <2>2. Gathering' => Gathering /\ capture' = capture
    <3>1. CASE UNCHANGED vars \/ ImuCallback \/ ImgCallback \/ PushImageTime
      BY <3>1 DEF vars, ImuCallback, ImgCallback, PushImageTime, ImageRest, Gathering
    <3>2. CASE TimerFires \/ ReadImageTime \/ ReadVioTime \/ ReadImage \/ ProcessLio \/ ProcessVio \/ Undefined
      BY <3>2 DEF TimerFires, NextStep, ReadImageTime, ReadVioTime, ReadImage, ProcessLio, ProcessVio, Undefined,
                  Gathering
    <3>3. CASE ThrowImage \/ TakeImage
      BY <3>3 DEF ThrowImage, TakeImage, Gathering, Types, TimerTypes, Phase
    <3>4. CASE FrameComplete
      BY <3>4 DEF FrameComplete, Gathering
    <3> QED BY <1>10, <3>1, <3>2, <3>3, <3>4 DEF Next, TimerStep
  <2> QED BY <1>8, <2>1, <2>2
<1> QED BY <1>4, <1>5, <1>6, <1>7, <1>9, <1>10

\* Of the points of a set, every one their scans have from some time on is in
\* it.
Whole(P, t) ==
  \A p \in P : \A o \in 0 .. Span - 1 : t <= MeasuredAt(<<p[1], o>>) => <<p[1], o>> \in P

HeldPoints ==
  PointsOf(pcl_proc_next) \cup (IF Gathering THEN PointsOf(pcl_proc_cur) ELSE {})
FramePoints == UNION {PointsOf(frames[k].cloud) : k \in 1 .. Len(frames)}
SeenPoints == HeldPoints \cup FramePoints

\* What waits is whole from the last cut on, and from there to the time of
\* the filter it is one and the same.
WaitingWhole ==
  /\ (Gathering \/ Pending) => Whole(PointsOf(pcl_proc_next), capture)
  /\ ((Resting \/ Gathering) /\ ~imu_need_init /\ ~jumped) =>
       Whole(HeldPoints, last_lio_update_time)

SeenWhole ==
  frames # <<>> =>
    /\ ~imu_need_init
    /\ (~jumped /\ timer # "undefined") => Whole(SeenPoints, frames[1].from)

WholeInv == slam_mode = LIVO => WaitingWhole /\ SeenWhole

LEMMA WholeUnion ==
  ASSUME NEW P, NEW Q, NEW t, Whole(P, t), Whole(Q, t)
  PROVE  Whole(P \cup Q, t)
BY DEF Whole

LEMMA PointsJoined ==
  ASSUME NEW c \in Clouds, NEW d \in Clouds
  PROVE  PointsOf(c \o d) = PointsOf(c) \cup PointsOf(d)
<1> DEFINE e == c \o d
<1>1. /\ Len(c) \in Nat /\ Len(d) \in Nat /\ e \in Clouds
      /\ DOMAIN c = 1 .. Len(c) /\ DOMAIN d = 1 .. Len(d) /\ DOMAIN e = 1 .. Len(c) + Len(d)
  <2>1. e \in Clouds /\ Len(e) = Len(c) + Len(d)
    BY JoinedElements
  <2> HIDE DEF e
  <2> QED BY <2>1, CloudTyped
<1>2. \A i \in 1 .. Len(c) + Len(d) :
        \/ i \in 1 .. Len(c) /\ e[i] = c[i]
        \/ i - Len(c) \in 1 .. Len(d) /\ Len(c) < i /\ e[i] = d[i - Len(c)]
  BY JoinedElements
<1> HIDE DEF e
<1>3. \A i \in 1 .. Len(c) : i \in 1 .. Len(c) + Len(d) /\ e[i] = c[i]
  <2> TAKE i \in 1 .. Len(c)
  <2>1. i \in 1 .. Len(c) + Len(d) /\ ~(Len(c) < i)
    BY <1>1
  <2> QED BY <1>2, <2>1
<1>4. \A j \in 1 .. Len(d) : Len(c) + j \in 1 .. Len(c) + Len(d) /\ e[Len(c) + j] = d[j]
  <2> TAKE j \in 1 .. Len(d)
  <2>1. /\ Len(c) + j \in 1 .. Len(c) + Len(d) /\ ~(Len(c) + j \in 1 .. Len(c))
        /\ (Len(c) + j) - Len(c) = j
    BY <1>1
  <2>2. e[Len(c) + j] = d[(Len(c) + j) - Len(c)]
    BY <1>2, <2>1
  <2> QED BY <2>1, <2>2
<1>5. \A i \in DOMAIN e :
        \/ i \in DOMAIN c /\ e[i] = c[i]
        \/ i - Len(c) \in DOMAIN d /\ e[i] = d[i - Len(c)]
  BY <1>1, <1>2
<1>6. PointsOf(e) \subseteq PointsOf(c) \cup PointsOf(d)
  BY <1>5 DEF PointsOf
<1>7. PointsOf(c) \subseteq PointsOf(e)
  BY <1>1, <1>3 DEF PointsOf
<1>8. PointsOf(d) \subseteq PointsOf(e)
  BY <1>1, <1>4 DEF PointsOf
<1> QED BY <1>6, <1>7, <1>8 DEF e

LEMMA PiecePoints ==
  ASSUME NEW f \in 1 .. NFrames, NEW first \in 0 .. Span, NEW end \in 0 .. Span, first <= end,
         NEW since \in Int
  PROVE  PointsOf(Timed(f, first, end, since)) = {<<f, o>> : o \in first .. end - 1}
<1> DEFINE d == Timed(f, first, end, since)
<1>1. /\ DOMAIN d = 1 .. end - first
      /\ \A i \in 1 .. end - first :
           /\ first + i - 1 \in first .. end - 1
           /\ d[i] = [point |-> <<f, first + i - 1>>, curvature |-> first + i - 1 + Beg(f) - since]
  BY TimedPiece
<1> HIDE DEF d
<1>2. \A o \in first .. end - 1 : o - first + 1 \in DOMAIN d /\ d[o - first + 1].point = <<f, o>>
  <2> TAKE o \in first .. end - 1
  <2>1. /\ o - first + 1 \in 1 .. end - first /\ first + (o - first + 1) - 1 = o
    BY Constants
  <2> QED BY <1>1, <2>1
<1>3. PointsOf(d) \subseteq {<<f, o>> : o \in first .. end - 1}
  BY <1>1 DEF PointsOf
<1>4. {<<f, o>> : o \in first .. end - 1} \subseteq PointsOf(d)
  BY <1>2 DEF PointsOf
<1> QED BY <1>3, <1>4 DEF d

\* A cut takes a scan whole: what is before the image to the frame, and the
\* rest to those who wait.
LEMMA CutWhole ==
  ASSUME Types, slam_mode = LIVO, WholeInv, CutScan
  PROVE  WholeInv'
<1> USE DEF configVars, nextVars, filterVars, colourVars
<1> DEFINE f == Head(lid_raw_data_buffer)
           cur == pcl_proc_cur
           next == pcl_proc_next
           A == Timed(f, 0, Cut(f), last_lio_update_time)
           B == Timed(f, Cut(f), Span, capture)
           All == {<<f, o>> : o \in 0 .. Span - 1}
<1>1. /\ UNCHANGED <<slam_mode, timer, lio_vio_flg, capture, last_lio_update_time, frames,
                     imu_need_init, jumped>>
      /\ timer = "scans" /\ ScansLeft /\ lid_header_time_buffer # <<>>
      /\ cur' = cur \o A /\ next' = next \o B
  BY DEF CutScan, TimerRest, ScansLeft, BeforeCut, LeftOver
<1>2. /\ f \in 1 .. NFrames /\ Beg(f) \in Nat /\ Cut(f) \in 0 .. Span /\ capture \in Nat
      /\ last_lio_update_time \in Int
      /\ cur \in Clouds /\ next \in Clouds
  BY <1>1, ScanCut DEF Types, TimerTypes
<1>3. Gathering /\ Gathering' /\ WaitingWhole /\ SeenWhole
  BY <1>1 DEF WholeInv, Gathering
<1>4. /\ 0 \in 0 .. Span /\ Span \in 0 .. Span /\ 0 <= Cut(f) /\ Cut(f) <= Span /\ capture \in Int
      /\ \A o \in 0 .. Span - 1 : capture <= Beg(f) + o => o \in Cut(f) .. Span - 1
  BY <1>2, Constants DEF Cut
<1> HIDE DEF f
<1>5. /\ A \in Clouds /\ PointsOf(A) = {<<f, o>> : o \in 0 .. Cut(f) - 1}
      /\ B \in Clouds /\ PointsOf(B) = {<<f, o>> : o \in Cut(f) .. Span - 1}
  BY <1>2, <1>4, TimedPiece, PiecePoints
<1> HIDE DEF A, B
<1>6. PointsOf(A) \cup PointsOf(B) = All
  <2>1. \A o : o \in 0 .. Span - 1 <=> (o \in 0 .. Cut(f) - 1 \/ o \in Cut(f) .. Span - 1)
    BY <1>2, Constants
  <2> QED BY <1>5, <2>1
<1>7. /\ PointsOf(cur \o A) = PointsOf(cur) \cup PointsOf(A)
      /\ PointsOf(next \o B) = PointsOf(next) \cup PointsOf(B)
  BY <1>2, <1>5, PointsJoined
<1>8. /\ PointsOf(pcl_proc_cur)' = PointsOf(cur) \cup PointsOf(A)
      /\ PointsOf(pcl_proc_next)' = PointsOf(next) \cup PointsOf(B)
  BY <1>1, <1>7
<1>9. HeldPoints' = HeldPoints \cup All
  BY <1>3, <1>6, <1>8 DEF HeldPoints
<1>10. SeenPoints' = SeenPoints \cup All
  <2>1. FramePoints' = FramePoints
    BY <1>1 DEF FramePoints, PointsOf
  <2> QED BY <1>9, <2>1 DEF SeenPoints
<1>11. \A t : Whole(All, t)
  BY DEF Whole
<1>12. Whole(PointsOf(B), capture)
  <2> SUFFICES ASSUME NEW p \in PointsOf(B), NEW o \in 0 .. Span - 1,
                      capture <= MeasuredAt(<<p[1], o>>)
               PROVE  <<p[1], o>> \in PointsOf(B)
    BY DEF Whole
  <2>1. p[1] = f
    BY <1>5
  <2>2. capture <= Beg(f) + o
    BY <2>1 DEF MeasuredAt
  <2>3. o \in Cut(f) .. Span - 1
    BY <1>4, <2>2
  <2> QED BY <1>5, <2>1, <2>3
<1> HIDE DEF All
<1>13. WaitingWhole'
  <2>1. Whole(PointsOf(next) \cup PointsOf(B), capture)
    BY <1>3, <1>12, WholeUnion DEF WaitingWhole
  <2>2. Whole(PointsOf(pcl_proc_next), capture)'
    BY <1>1, <1>8, <2>1 DEF Whole
  <2>3. ASSUME ~imu_need_init, ~jumped
        PROVE  Whole(HeldPoints \cup All, last_lio_update_time)
    BY <1>3, <1>11, <2>3, WholeUnion DEF WaitingWhole
  <2>4. (~imu_need_init' /\ ~jumped') => Whole(HeldPoints, last_lio_update_time)'
    BY <1>1, <1>9, <2>3 DEF Whole
  <2> QED BY <2>2, <2>4 DEF WaitingWhole
<1>14. SeenWhole'
  <2>1. ASSUME frames # <<>>, ~jumped, timer # "undefined"
        PROVE  Whole(SeenPoints \cup All, frames[1].from)
    BY <1>3, <1>11, <2>1, WholeUnion DEF SeenWhole
  <2>2. (frames' # <<>> /\ ~jumped' /\ timer' # "undefined") =>
          Whole(SeenPoints, frames[1].from)'
    BY <1>1, <1>10, <2>1 DEF Whole
  <2> QED BY <1>1, <1>3, <2>2 DEF SeenWhole
<1> QED BY <1>13, <1>14 DEF WholeInv

\* A frame takes the points that have waited for it.
LEMMA FrameWhole ==
  ASSUME Types, slam_mode = LIVO, WholeInv, ProcessLio
  PROVE  WholeInv'
<1> USE DEF measVars, configVars
<1>1. /\ UNCHANGED <<slam_mode, lio_vio_flg, capture, jumped, pcl_proc_cur, pcl_proc_next>>
      /\ timer = "process" /\ lio_vio_flg = "LIO" /\ timer' = "idle"
  BY DEF ProcessLio, InitialiseImu, TimerRest
<1>2. Gathering /\ ~Gathering' /\ ~Resting' /\ WaitingWhole /\ SeenWhole
  BY <1>1 DEF WholeInv, Gathering, Resting
<1>3. PointsOf(pcl_proc_next)' = PointsOf(pcl_proc_next)
  BY <1>1
<1>4. Whole(PointsOf(pcl_proc_next), capture)'
  BY <1>1, <1>2, <1>3 DEF WaitingWhole, Whole
<1>5. WaitingWhole'
  BY <1>2, <1>4 DEF WaitingWhole
<1>6. CASE imu_need_init
  <2>1. frames = <<>>
    BY <1>2, <1>6 DEF SeenWhole
  <2>2. frames' = frames
    BY <1>6 DEF ProcessLio, InitialiseImu
  <2> QED BY <1>5, <2>1, <2>2 DEF WholeInv, SeenWhole
<1>7. CASE ~imu_need_init
  <2> DEFINE n == Len(frames)
             fr == [from |-> last_lio_update_time, to |-> capture, imu |-> imu,
                    cloud |-> pcl_proc_cur]
             F == [from : Nat, to : Nat, imu : Seq(ImuTimes), cloud : Clouds]
  <2>1. frames' = Append(frames, fr) /\ imu_need_init' = imu_need_init
    BY <1>7 DEF ProcessLio
  <2>2. /\ n \in Nat /\ Len(frames') = n + 1
        /\ \A k \in 1 .. n : frames'[k] = frames[k]
        /\ frames'[n + 1] = fr
    <3>1. last_lio_update_time \in Nat
      BY <1>1 DEF Types, TimerTypes, Phase
    <3>2. frames \in Seq(F) /\ fr \in F
      BY <3>1 DEF Types, ResultTypes, TimerTypes
    <3> HIDE DEF F, fr
    <3> QED BY <2>1, <3>2, AppendProperties, LenProperties
  <2>3. fr.cloud = pcl_proc_cur /\ fr.from = last_lio_update_time
    OBVIOUS
  <2>4. n = 0 <=> frames = <<>>
    <3>1. frames \in Seq(F)
      BY DEF Types, ResultTypes
    <3> HIDE DEF F
    <3> QED BY <3>1, EmptySeq
  <2> HIDE DEF n, fr
  <2>5. \A k : k \in 1 .. n + 1 <=> (k \in 1 .. n \/ k = n + 1)
    BY <2>2
  <2>6. FramePoints' = FramePoints \cup PointsOf(pcl_proc_cur)
    <3>1. FramePoints' = UNION {PointsOf(frames'[k].cloud) : k \in 1 .. n + 1}
      BY <2>2 DEF FramePoints
    <3>2. UNION {PointsOf(frames'[k].cloud) : k \in 1 .. n + 1} =
            (UNION {PointsOf(frames[k].cloud) : k \in 1 .. n}) \cup PointsOf(pcl_proc_cur)
      <4>1. \A k \in 1 .. n : PointsOf(frames'[k].cloud) = PointsOf(frames[k].cloud)
        BY <2>2
      <4>2. PointsOf(frames'[n + 1].cloud) = PointsOf(pcl_proc_cur)
        BY <2>2, <2>3
      <4> QED BY <2>5, <4>1, <4>2
    <3> QED BY <3>1, <3>2 DEF FramePoints, n
  <2>7. HeldPoints' = PointsOf(pcl_proc_next)
        /\ HeldPoints = PointsOf(pcl_proc_next) \cup PointsOf(pcl_proc_cur)
    BY <1>2, <1>3 DEF HeldPoints
  <2>8. SeenPoints' = SeenPoints
    BY <2>6, <2>7 DEF SeenPoints
  <2>9. ASSUME ~jumped
        PROVE  Whole(SeenPoints, frames'[1].from)
    <3>1. CASE frames = <<>>
      <4>1. FramePoints = {}
        <5>1. 1 .. Len(frames) = {}
          BY <2>2, <2>4, <3>1 DEF n
        <5> QED BY <5>1 DEF FramePoints
      <4>2. Whole(HeldPoints, last_lio_update_time)
        BY <1>2, <1>7, <2>9 DEF WaitingWhole
      <4>3. frames'[1].from = last_lio_update_time
        <5>1. n + 1 = 1
          BY <2>4, <3>1
        <5> QED BY <2>2, <2>3, <5>1
      <4>4. SeenPoints = HeldPoints
        BY <4>1 DEF SeenPoints
      <4> QED BY <4>2, <4>3, <4>4
    <3>2. CASE frames # <<>>
      <4>1. 1 \in 1 .. n
        BY <2>2, <2>4, <3>2
      <4>2. frames'[1] = frames[1]
        BY <2>2, <4>1
      <4>3. Whole(SeenPoints, frames[1].from)
        BY <1>1, <1>2, <2>9, <3>2 DEF SeenWhole
      <4> QED BY <4>2, <4>3
    <3> QED BY <3>1, <3>2
  <2>10. ~jumped' => Whole(SeenPoints, frames[1].from)'
    BY <1>1, <2>8, <2>9 DEF Whole
  <2>11. SeenWhole'
    BY <1>7, <2>1, <2>10 DEF SeenWhole
  <2> QED BY <1>5, <2>11 DEF WholeInv
<1> QED BY <1>6, <1>7

LEMMA StepWhole ==
  ASSUME Types, WholeInv, [Next]_vars
  PROVE  WholeInv'
<1> USE DEF configVars, nextVars, lidVars, imgVars, measVars, filterVars, colourVars
<1>1. slam_mode' = slam_mode
  BY DEF Next, PushCloud, PushCloudTime, LoseScan, ImuCallback, ImgCallback, PushImageTime,
         ImageRest, TimerStep, TimerFires, ReadImageTime, ThrowImage, DrainImu, CutScan,
         FrameComplete, ReadVioTime, ReadImage, TakeImage, Undefined,
         ProcessLio, ProcessVio, LidarFrame,
         TimerRest, vars
<1>2. SUFFICES ASSUME slam_mode = LIVO
               PROVE  WholeInv'
  BY <1>1 DEF WholeInv
<1>3. WaitingWhole /\ SeenWhole
  BY <1>2 DEF WholeInv
<1>4. CASE CutScan
  BY <1>2, <1>4, CutWhole
<1>5. CASE ProcessLio
  BY <1>2, <1>5, FrameWhole
<1>6. CASE LidarFrame
  BY <1>2, <1>6 DEF LidarFrame
\* No step but these takes a point or adds one.
<1>7. ASSUME UNCHANGED <<frames, imu_need_init>>, jumped => jumped',
             timer = "undefined" => timer' = "undefined", HeldPoints' = HeldPoints
      PROVE  SeenWhole'
  <2>1. FramePoints' = FramePoints
    BY <1>7 DEF FramePoints, PointsOf
  <2>2. SeenPoints' = SeenPoints
    BY <1>7, <2>1 DEF SeenPoints
  <2>3. ASSUME frames # <<>>, ~jumped', timer' # "undefined"
        PROVE  Whole(SeenPoints, frames[1].from)
    BY <1>3, <1>7, <2>3 DEF SeenWhole
  <2>4. (frames' # <<>> /\ ~jumped' /\ timer' # "undefined") =>
          Whole(SeenPoints, frames[1].from)'
    BY <1>7, <2>2, <2>3 DEF Whole
  <2> QED BY <1>3, <1>7, <2>4 DEF SeenWhole
<1>8. CASE DrainImu
  <2>1. /\ UNCHANGED <<lio_vio_flg, capture, last_lio_update_time, imu_need_init, jumped, frames>>
        /\ timer = "imu" /\ timer' = "scans"
        /\ pcl_proc_cur' = pcl_proc_next /\ pcl_proc_next' = <<>>
    BY <1>8 DEF DrainImu, TakeLeftOver
  <2>2. Resting /\ ~Gathering /\ Gathering'
    BY <2>1 DEF Resting, Gathering, Types, TimerTypes, Phase
  <2>3. PointsOf(pcl_proc_next)' = {} /\ PointsOf(pcl_proc_cur)' = PointsOf(pcl_proc_next)
    <3>1. DOMAIN (pcl_proc_next') = {}
      BY <2>1
    <3> QED BY <2>1, <3>1 DEF PointsOf
  <2>4. HeldPoints' = HeldPoints
    BY <2>2, <2>3 DEF HeldPoints
  <2>5. Whole(PointsOf(pcl_proc_next), capture)'
    BY <2>3 DEF Whole
  <2>6. (~imu_need_init' /\ ~jumped') => Whole(HeldPoints, last_lio_update_time)'
    BY <1>3, <2>1, <2>2, <2>4 DEF WaitingWhole, Whole
  <2> QED BY <1>7, <2>1, <2>4, <2>5, <2>6 DEF WholeInv, WaitingWhole
<1>9. ASSUME UNCHANGED <<pcl_proc_cur, pcl_proc_next>>
      PROVE  /\ PointsOf(pcl_proc_cur)' = PointsOf(pcl_proc_cur)
             /\ PointsOf(pcl_proc_next)' = PointsOf(pcl_proc_next)
             /\ Gathering' = Gathering => HeldPoints' = HeldPoints
             /\ ~Gathering' /\ ~Gathering => HeldPoints' = HeldPoints
  <2>1. /\ PointsOf(pcl_proc_cur)' = PointsOf(pcl_proc_cur)
        /\ PointsOf(pcl_proc_next)' = PointsOf(pcl_proc_next)
    BY <1>9
  <2> QED BY <2>1 DEF HeldPoints
<1>10. ASSUME UNCHANGED <<pcl_proc_cur, pcl_proc_next, frames, imu_need_init, capture,
                          last_lio_update_time, jumped>>,
              timer = "undefined" => timer' = "undefined",
              timer' = "undefined" \/ (Gathering <=> Gathering'),
              Gathering' => Gathering, Pending' => Pending \/ Gathering, Resting' => Resting
       PROVE  WholeInv'
  <2>1. Whole(PointsOf(pcl_proc_next), capture) => Whole(PointsOf(pcl_proc_next), capture)'
    BY <1>9, <1>10 DEF Whole
  <2>2. CASE timer' = "undefined" /\ ~Gathering'
    <3>1. ~Resting'
      BY <2>2 DEF Resting
    <3>2. WaitingWhole'
      BY <1>3, <1>10, <2>1, <2>2, <3>1 DEF WaitingWhole
    <3>3. SeenWhole'
      BY <1>3, <1>10, <2>2 DEF SeenWhole
    <3> QED BY <3>2, <3>3 DEF WholeInv
  <2>3. CASE Gathering <=> Gathering'
    <3>1. HeldPoints' = HeldPoints
      BY <1>9, <1>10, <2>3 DEF HeldPoints
    <3>2. (~imu_need_init' /\ ~jumped' /\ (Resting' \/ Gathering')) =>
            Whole(HeldPoints, last_lio_update_time)'
      BY <1>3, <1>10, <3>1 DEF WaitingWhole, Whole
    <3>3. WaitingWhole'
      BY <1>3, <1>10, <2>1, <3>2 DEF WaitingWhole
    <3> QED BY <1>7, <1>10, <3>1, <3>3 DEF WholeInv
  <2> QED BY <1>10, <2>2, <2>3 DEF Gathering
<1>11. CASE PushCloud \/ PushCloudTime \/ LoseScan \/ ImuCallback \/ ImgCallback
            \/ PushImageTime \/ UNCHANGED vars
  <2>1. UNCHANGED <<pcl_proc_cur, pcl_proc_next, frames, imu_need_init, capture, timer,
                    lio_vio_flg, last_lio_update_time, jumped>>
    BY <1>11 DEF PushCloud, PushCloudTime, LoseScan, ImuCallback, ImgCallback, PushImageTime,
                 ImageRest, vars
  <2> QED BY <1>10, <2>1 DEF Gathering, Pending, Resting
<1>12. CASE TimerFires \/ ThrowImage \/ FrameComplete \/ ReadImage \/ TakeImage
             \/ Undefined
  <2>1. UNCHANGED <<pcl_proc_cur, pcl_proc_next, frames, imu_need_init, capture,
                    last_lio_update_time, jumped>>
    BY <1>12 DEF TimerFires, ThrowImage, FrameComplete, ReadImage, TakeImage, Undefined
  <2>2. /\ timer = "undefined" => timer' = "undefined"
        /\ timer' = "undefined" \/ (Gathering <=> Gathering')
        /\ Gathering' => Gathering
        /\ Pending' => Pending \/ Gathering
        /\ Resting' => Resting
    <3>1. CASE TimerFires
      BY <3>1 DEF TimerFires, NextStep, Gathering, Pending, Resting
    <3>2. CASE ThrowImage
      BY <3>2 DEF ThrowImage, Gathering, Pending, Resting, Types, TimerTypes, Phase
    <3>3. CASE FrameComplete
      BY <3>3 DEF FrameComplete, Gathering, Pending, Resting
    <3>4. CASE ReadImage \/ TakeImage
      BY <3>4 DEF ReadImage, TakeImage, Gathering, Pending, Resting, Types, TimerTypes, Phase
    <3>5. CASE Undefined
      BY <3>5 DEF Undefined, Gathering, Pending, Resting
    <3> QED BY <1>12, <3>1, <3>2, <3>3, <3>4, <3>5
  <2> QED BY <1>10, <2>1, <2>2
<1>13. CASE ReadImageTime
  <2>1. /\ UNCHANGED <<lio_vio_flg, imu_need_init, jumped, frames, pcl_proc_cur, pcl_proc_next>>
        /\ timer = "frame" /\ timer' \in {"throw", "imu", "idle"}
        /\ last_lio_update_time' = FirstUpdateTime
    BY <1>13 DEF ReadImageTime
  <2>2. lio_vio_flg \in {"WAIT", "VIO"}
    BY <2>1 DEF Types, TimerTypes, Phase
  <2>3. Resting /\ ~Gathering /\ ~Gathering' /\ ~Pending'
    BY <2>1, <2>2 DEF Resting, Gathering, Pending
  <2>4. ~imu_need_init => last_lio_update_time' = last_lio_update_time
    <3> SUFFICES ASSUME ~imu_need_init
                 PROVE  last_lio_update_time' = last_lio_update_time
      OBVIOUS
    <3>1. last_lio_update_time # -1
      BY <1>2, <2>2 DEF Types, TimerTypes, Phase
    <3>2. last_lio_update_time \in Nat
      BY <3>1 DEF Types, TimerTypes
    <3> QED BY <2>1, <3>2 DEF FirstUpdateTime
  <2>5. HeldPoints' = HeldPoints
    BY <1>9, <2>1, <2>3
  <2>6. (~imu_need_init' /\ ~jumped') => Whole(HeldPoints, last_lio_update_time)'
    BY <1>3, <2>1, <2>3, <2>4, <2>5 DEF WaitingWhole, Whole
  <2>7. SeenWhole'
    BY <1>7, <2>1, <2>5
  <2> QED BY <2>3, <2>6, <2>7 DEF WholeInv, WaitingWhole
<1>14. CASE ReadVioTime
  <2>1. /\ UNCHANGED <<capture, imu_need_init, jumped, frames, pcl_proc_cur, pcl_proc_next>>
        /\ timer = "image" /\ timer' = "peek" /\ lio_vio_flg' = "VIO"
    BY <1>14 DEF ReadVioTime
  <2>2. Pending /\ ~Gathering /\ ~Gathering' /\ ~Resting'
    BY <2>1 DEF Types, TimerTypes, Phase, Pending, Gathering, Resting
  <2>3. HeldPoints' = HeldPoints /\ PointsOf(pcl_proc_next)' = PointsOf(pcl_proc_next)
    BY <1>9, <2>1, <2>2
  <2>4. Whole(PointsOf(pcl_proc_next), capture)'
    BY <1>3, <2>1, <2>2, <2>3 DEF WaitingWhole, Whole
  <2>5. SeenWhole'
    BY <1>7, <2>1, <2>3
  <2> QED BY <2>2, <2>4, <2>5 DEF WholeInv, WaitingWhole
<1>15. CASE ProcessVio
  <2>1. /\ UNCHANGED <<lio_vio_flg, capture, imu_need_init, frames, pcl_proc_cur, pcl_proc_next>>
        /\ timer = "process" /\ lio_vio_flg = "VIO" /\ timer' = "idle"
        /\ jumped => jumped'
    BY <1>15 DEF ProcessVio
  <2>2. Pending /\ ~Gathering /\ ~Gathering' /\ ~Pending'
    BY <2>1 DEF Pending, Gathering
  <2>3. (~imu_need_init /\ ~jumped') => last_lio_update_time' = capture
    BY <1>15 DEF ProcessVio
  <2>4. HeldPoints' = HeldPoints /\ HeldPoints = PointsOf(pcl_proc_next)
    BY <1>9, <2>1, <2>2 DEF HeldPoints
  <2>5. (~imu_need_init' /\ ~jumped') => Whole(HeldPoints, last_lio_update_time)'
    BY <1>3, <2>1, <2>2, <2>3, <2>4 DEF WaitingWhole, Whole
  <2>6. SeenWhole'
    BY <1>7, <2>1, <2>4
  <2> QED BY <2>2, <2>5, <2>6 DEF WholeInv, WaitingWhole
<1> QED BY <1>4, <1>5, <1>6, <1>8, <1>11, <1>12, <1>13, <1>14, <1>15 DEF Next, TimerStep

LEMMA StepNoClouds ==
  ASSUME Types, NoClouds, [Next]_vars
  PROVE  NoClouds'
<1> USE DEF configVars, nextVars, lidVars, imgVars, measVars, filterVars, colourVars
<1>1. slam_mode' = slam_mode
  BY DEF Next, PushCloud, PushCloudTime, LoseScan, ImuCallback, ImgCallback, PushImageTime,
         ImageRest, TimerStep, TimerFires, ReadImageTime, ThrowImage, DrainImu, CutScan,
         FrameComplete, ReadVioTime, ReadImage, TakeImage, Undefined,
         ProcessLio, ProcessVio, LidarFrame,
         TimerRest, vars
<1>2. SUFFICES ASSUME slam_mode # LIVO
               PROVE  UNCHANGED <<frames, pcl_proc_cur, pcl_proc_next>>
  BY <1>1 DEF NoClouds
<1>3. timer = "idle"
  BY <1>2 DEF Types, TimerTypes, Phase
<1>4. CASE TimerStep
  BY <1>2, <1>3, <1>4 DEF TimerStep, TimerFires, ReadImageTime, ThrowImage, DrainImu, CutScan,
         FrameComplete, ReadVioTime, ReadImage, TakeImage, Undefined,
         ReadsEmpty, ProcessLio, ProcessVio,
         LidarFrame
<1>5. CASE ~TimerStep
  BY <1>5 DEF Next, PushCloud, PushCloudTime, LoseScan, ImuCallback, ImgCallback, PushImageTime,
         ImageRest, vars
<1> QED BY <1>4, <1>5

\* Frames and what waits, in one order.
LEMMA SeenInOrder ==
  ASSUME Types, PointInv, OrderInv, NoClouds
  PROVE  /\ Len(frames) \in Nat /\ DOMAIN CloudsSeen = 1 .. Len(frames) + 1
         /\ \A k \in DOMAIN CloudsSeen : CloudsSeen[k] \in Clouds /\ Ascending(CloudsSeen[k])
         /\ \A k, l \in DOMAIN CloudsSeen : k < l => Behind(CloudsSeen[k], CloudsSeen[l])
         /\ UNION {PointsOf(CloudsSeen[k]) : k \in DOMAIN CloudsSeen} = SeenPoints
<1> DEFINE n == Len(frames)
           C == CloudsSeen
<1>1. /\ n \in Nat /\ DOMAIN frames = 1 .. n
      /\ \A k \in 1 .. n : frames[k].cloud \in Clouds
      /\ pcl_proc_cur \in Clouds /\ pcl_proc_next \in Clouds
  BY FrameTyped
<1>2. /\ DOMAIN C = 1 .. n + 1
      /\ \A k \in 1 .. n : C[k] = frames[k].cloud
      /\ C[n + 1] = Held
  <2>1. \A k \in 1 .. n : k \in 1 .. n + 1
    BY <1>1
  <2>2. n + 1 \in 1 .. n + 1 /\ ~(n + 1 \in 1 .. n)
    BY <1>1
  <2> QED BY <1>1, <2>1, <2>2 DEF CloudsSeen
<1> HIDE DEF C
<1>3. /\ Held \in Clouds /\ Ascending(Held) /\ PointsOf(Held) = HeldPoints
      /\ \A k \in 1 .. n : Ascending(frames[k].cloud) /\ Behind(frames[k].cloud, Held)
                           /\ \A l \in 1 .. n : k < l => Behind(frames[k].cloud, frames[l].cloud)
  <2>1. CASE slam_mode # LIVO
    <3>1. frames = <<>> /\ pcl_proc_cur = <<>> /\ pcl_proc_next = <<>> /\ n = 0
      BY <2>1 DEF NoClouds
    <3>2. ~Gathering
      BY <2>1 DEF Gathering, Types, TimerTypes, Phase
    <3>3. Held = <<>>
      BY <3>1, <3>2 DEF Held, Gathering
    <3>4. Len(<<>>) = 0 /\ 1 .. 0 = {}
      OBVIOUS
    <3>5. Held \in Clouds /\ Ascending(Held)
      BY <1>1, <3>1, <3>3, <3>4 DEF Ascending
    <3>6. PointsOf(Held) = HeldPoints
      BY <3>1, <3>2, <3>3 DEF HeldPoints
    <3> QED BY <3>1, <3>4, <3>5, <3>6
  <2>2. CASE slam_mode = LIVO /\ Gathering
    <3>1. Held = pcl_proc_cur \o pcl_proc_next
      BY <2>2 DEF Held, Gathering
    <3>2. FramesOrdered /\ HeldOrdered /\ CloudsOrdered
      BY <2>2 DEF OrderInv, PointInv
    <3>3. Held \in Clouds /\ Ascending(Held)
      BY <1>1, <2>2, <3>1, <3>2, JoinedElements, BehindJoined DEF CloudsOrdered, HeldOrdered
    <3>4. PointsOf(Held) = HeldPoints
      BY <1>1, <2>2, <3>1, PointsJoined DEF HeldPoints
    <3>5. ASSUME NEW k \in 1 .. n
          PROVE  /\ Ascending(frames[k].cloud) /\ Behind(frames[k].cloud, Held)
                 /\ \A l \in 1 .. n : k < l => Behind(frames[k].cloud, frames[l].cloud)
      BY <1>1, <2>2, <3>1, <3>2, BehindJoined DEF FramesOrdered
    <3> QED BY <3>3, <3>4, <3>5
  <2>3. CASE slam_mode = LIVO /\ ~Gathering
    <3>1. Held = pcl_proc_next
      BY <2>3 DEF Held, Gathering
    <3>2. FramesOrdered /\ CloudsOrdered
      BY <2>3 DEF OrderInv, PointInv
    <3>3. Held \in Clouds /\ Ascending(Held)
      BY <1>1, <3>1, <3>2 DEF CloudsOrdered
    <3>4. PointsOf(Held) = HeldPoints
      BY <2>3, <3>1 DEF HeldPoints
    <3> QED BY <3>1, <3>2, <3>3, <3>4 DEF FramesOrdered
  <2> QED BY <2>1, <2>2, <2>3
<1> HIDE DEF n
<1>4. \A k : k \in 1 .. n + 1 <=> (k \in 1 .. n \/ k = n + 1)
  BY <1>1
<1>5. \A k \in DOMAIN C : C[k] \in Clouds /\ Ascending(C[k])
  BY <1>1, <1>2, <1>3, <1>4
<1>6. \A k, l \in DOMAIN C : k < l => Behind(C[k], C[l])
  <2> SUFFICES ASSUME NEW k \in DOMAIN C, NEW l \in DOMAIN C, k < l
               PROVE  Behind(C[k], C[l])
    OBVIOUS
  <2>1. k \in 1 .. n
    BY <1>1, <1>2
  <2> QED BY <1>2, <1>3, <1>4, <2>1
<1>7. UNION {PointsOf(C[k]) : k \in DOMAIN C} = SeenPoints
  <2>1. \A k \in 1 .. n : PointsOf(C[k]) = PointsOf(frames[k].cloud)
    BY <1>2
  <2>2. PointsOf(C[n + 1]) = HeldPoints
    BY <1>2, <1>3
  <2>3. UNION {PointsOf(C[k]) : k \in 1 .. n + 1} = HeldPoints \cup FramePoints
    BY <1>4, <2>1, <2>2 DEF FramePoints, n
  <2> QED BY <1>2, <2>3 DEF SeenPoints
<1> QED BY <1>1, <1>2, <1>5, <1>6, <1>7 DEF n, C

\* However the images cut the scans, no point of a scan that came is mapped
\* twice; and from the time the first frame begins none of it is missing, in
\* the frames or among those who wait, unless the filter's time has jumped:
\* of the two clouds the buffer and the rest of the last scan make, none
\* loses a point to the other and none keeps what it has given away.
THEOREM PointsOnceSafe == Spec => []NoPointLost
<1> DEFINE IInv == Types /\ PointInv /\ OrderInv /\ NoClouds /\ WholeInv
<1>1. Init => IInv
  <2> SUFFICES ASSUME Init PROVE IInv
    OBVIOUS
  <2>1. /\ frames = <<>> /\ pcl_proc_cur = <<>> /\ pcl_proc_next = <<>>
        /\ lid_raw_data_buffer = <<>> /\ Len(<<>>) = 0 /\ 1 .. 0 = {}
        /\ timer = "idle" /\ lio_vio_flg = "WAIT" /\ imu_need_init
    BY DEF Init
  <2>2. ~Gathering /\ ~Pending
    BY <2>1 DEF Gathering, Pending
  <2>3. PointInv
    BY <2>1, <2>2 DEF PointInv, CloudsOrdered, ScansInOrder, Ascending, FromBefore, PointsKept
  <2>4. OrderInv
    BY <2>1, <2>2 DEF OrderInv, FramesOrdered, HeldOrdered
  <2>5. NoClouds
    BY <2>1 DEF NoClouds
  <2>6. WholeInv
    BY <2>1, <2>2 DEF WholeInv, WaitingWhole, SeenWhole
  <2> QED BY <2>3, <2>4, <2>5, <2>6, InitTypes
<1>2. IInv /\ [Next]_vars => IInv'
  BY StepTypes, StepPoints, StepOrder, StepNoClouds, StepWhole
<1>3. IInv => NoPointLost
  <2> SUFFICES ASSUME IInv, timer # "undefined"
               PROVE  /\ \A k, l \in DOMAIN CloudsSeen :
                           \A i \in DOMAIN CloudsSeen[k], j \in DOMAIN CloudsSeen[l] :
                             CloudsSeen[k][i].point = CloudsSeen[l][j].point => k = l /\ i = j
                      /\ (frames # <<>> /\ ~jumped) =>
                           \A p \in SeenPoints : \A o \in 0 .. Span - 1 :
                             frames[1].from <= MeasuredAt(<<p[1], o>>) =>
                               <<p[1], o>> \in SeenPoints
    BY SeenInOrder DEF NoPointLost
  <2> DEFINE C == CloudsSeen
  <2>1. /\ Len(frames) \in Nat /\ DOMAIN C = 1 .. Len(frames) + 1
        /\ \A k \in DOMAIN C : C[k] \in Clouds /\ Ascending(C[k])
        /\ \A k, l \in DOMAIN C : k < l => Behind(C[k], C[l])
    BY SeenInOrder
  <2> HIDE DEF C
  <2>2. ASSUME NEW k \in DOMAIN C, NEW l \in DOMAIN C, NEW i \in DOMAIN C[k],
               NEW j \in DOMAIN C[l], C[k][i].point = C[l][j].point
        PROVE  k = l /\ i = j
    <3>1. /\ k \in Nat /\ l \in Nat /\ C[k] \in Clouds /\ C[l] \in Clouds
      BY <2>1
    <3>2. /\ i \in 1 .. Len(C[k]) /\ j \in 1 .. Len(C[l])
          /\ Len(C[k]) \in Nat /\ Len(C[l]) \in Nat
          /\ MeasuredAt(C[k][i].point) \in Nat /\ MeasuredAt(C[l][j].point) \in Nat
      BY <3>1, CloudTyped
    <3>3. MeasuredAt(C[k][i].point) = MeasuredAt(C[l][j].point)
      BY <2>2
    <3>4. ~(k < l)
      BY <2>1, <3>2, <3>3 DEF Behind
    <3>5. ~(l < k)
      BY <2>1, <3>2, <3>3 DEF Behind
    <3>6. k = l
      BY <3>1, <3>4, <3>5
    <3>7. ~(i < j) /\ ~(j < i)
      BY <2>1, <3>2, <3>3, <3>6 DEF Ascending
    <3>8. i = j
      BY <3>2, <3>7
    <3> QED BY <3>6, <3>8
  <2>3. ASSUME frames # <<>>, ~jumped
        PROVE  Whole(SeenPoints, frames[1].from)
    <3>1. slam_mode = LIVO
      BY <2>3 DEF NoClouds
    <3> QED BY <2>3, <3>1 DEF WholeInv, SeenWhole
  <2> QED BY <2>2, <2>3 DEF C, Whole
<1> HIDE DEF IInv
<1> QED BY <1>1, <1>2, <1>3, PTL DEF Spec

===============================================================================
