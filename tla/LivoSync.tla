-------------------------------- MODULE LivoSync --------------------------------
(***************************************************************************)
(* The mapper with a camera (slam_mode_ LIVO): every image ends a frame,   *)
(* sync_packages cuts the scans and the IMU samples at its time, the LIO   *)
(* step maps the points up to it, and the VIO step then takes the image    *)
(* itself and colours the points with it.  In the deployed mode, ONLY_LIO, *)
(* images are buffered all the same, and pose_output_en saves the one      *)
(* nearest to each frame.                                                  *)
(*                                                                         *)
(* The timer thread runs sync_packages, which tests and reads the buffers  *)
(* without mtx_buffer; each of its actions is what happens between two     *)
(* accesses a callback can disturb.  The callbacks of one sensor do not    *)
(* overlap here (see MapperSync), and the lidar's clock does not jump.     *)
(* The camera's may.  Time is counted in integers; exposure_time_init is   *)
(* part of an image's stamp.                                               *)
(***************************************************************************)
EXTENDS Integers, SequencesExt, FiniteSetsExt, Functions

CONSTANTS
  Modes,          \* the values of slam_mode_
  NFrames,        \* bounds the scans the lidar sends
  Span,           \* the points of a scan, one at each instant
  SamplePeriod,   \* of the IMU
  Stamps,         \* the times images may carry
  NImages,        \* bounds the images
  Match,          \* an image nearer to a frame than this is saved with it
  MAX_INI_COUNT,  \* IMU samples the initialisation averages
  ScanNums        \* the values of pub_scan_num

ASSUME LidarAssumption == {NFrames, Span, SamplePeriod} \subseteq Nat \ {0}
ASSUME ImageAssumption == NImages \in Nat /\ Stamps \subseteq Nat \ {0} /\ Match \in Nat
ASSUME CountAssumption == MAX_INI_COUNT \in Nat /\ ScanNums \subseteq Int

VARIABLES
  slam_mode, pose_output_en, pub_scan_num,
  sent,         \* the stamps of the images the camera sends, in order
  lidar_next, imu_next, img_next,  \* the next message of each subscription
  pushing,      \* the buffer whose time is still to be pushed: "lidar", "img" or "none"
  lid_raw_data_buffer, lid_header_time_buffer, last_timestamp_lidar,
  imu_buffer,
  img_buffer,   \* the numbers of the images
  img_time_buffer, last_timestamp_img,
  timer,        \* where the timer thread is
  lio_vio_flg,
  last_lio_update_time,
  capture,      \* img_capture_time of the last cut
  vio_time, image, \* the image taken since, m.img, and its time
  imu,          \* the IMU samples of the measure group
  pcl_proc_cur, pcl_proc_next,
  init_iter_num, imu_need_init,
  frames,       \* the frames UndistortPcl has seen: [from, to, imu, cloud]
  pcl_w_wait_pub, \* the time of the frame the VIO step is to colour; 0 if none
  pcl_wait_pub, \* the times of the frames whose points wait for colours
  pub_num,      \* the static counter of publish_frame_world
  coloured,     \* <<frame, image, time>>: an image has coloured points of a frame
  jumped        \* an image was taken whose time is not that of the cut before it

configVars == <<slam_mode, pose_output_en, pub_scan_num, sent>>
nextVars   == <<lidar_next, imu_next, img_next>>
lidVars    == <<lid_raw_data_buffer, lid_header_time_buffer, last_timestamp_lidar>>
imgVars    == <<img_buffer, img_time_buffer, last_timestamp_img>>
measVars   == <<lio_vio_flg, capture, vio_time, image, imu, pcl_proc_cur, pcl_proc_next>>
colourVars == <<pcl_wait_pub, pub_num, coloured>>
filterVars == <<last_lio_update_time, init_iter_num, imu_need_init, frames, pcl_w_wait_pub,
                colourVars, jumped>>
vars == <<configVars, nextVars, pushing, lidVars, imu_buffer, imgVars, timer, measVars,
          filterVars>>

LIVO == "LIVO"
Beg(f) == (f - 1) * Span + 1
LastTime == NFrames * Span

Init ==
  /\ slam_mode \in Modes
  /\ pose_output_en \in BOOLEAN
  /\ pub_scan_num \in ScanNums
  /\ sent \in [1 .. NImages -> Stamps]
  /\ lidar_next = 1 /\ imu_next = SamplePeriod /\ img_next = 1
  /\ pushing = "none"
  /\ lid_raw_data_buffer = <<>> /\ lid_header_time_buffer = <<>> /\ last_timestamp_lidar = -1
  /\ imu_buffer = <<>>
  /\ img_buffer = <<>> /\ img_time_buffer = <<>> /\ last_timestamp_img = -1
  /\ timer = "idle"
  /\ lio_vio_flg = "WAIT"
  /\ last_lio_update_time = -1
  /\ capture = 0 /\ vio_time = 0 /\ image = 0
  /\ imu = <<>>
  /\ pcl_proc_cur = <<>> /\ pcl_proc_next = <<>>
  /\ init_iter_num = 1 /\ imu_need_init = TRUE
  /\ frames = <<>>
  /\ pcl_w_wait_pub = 0 /\ pcl_wait_pub = {} /\ pub_num = 1
  /\ coloured = {}
  /\ jumped = FALSE

-------------------------------------------------------------------------------
(* The callbacks.  Each holds mtx_buffer from its first push to its last.  *)
Unlocked == pushing = "none"

PushCloud ==
  /\ Unlocked
  /\ lidar_next \in 1 .. NFrames
  /\ lid_raw_data_buffer' = Append(lid_raw_data_buffer, lidar_next)
  /\ pushing' = "lidar"
  /\ UNCHANGED <<configVars, nextVars, lid_header_time_buffer, last_timestamp_lidar, imu_buffer,
                 imgVars, timer, measVars, filterVars>>

PushCloudTime ==
  /\ pushing = "lidar"
  /\ lid_header_time_buffer' = Append(lid_header_time_buffer, Beg(lidar_next))
  /\ last_timestamp_lidar' = Beg(lidar_next)
  /\ lidar_next' = lidar_next + 1
  /\ pushing' = "none"
  /\ UNCHANGED <<configVars, imu_next, img_next, lid_raw_data_buffer, imu_buffer, imgVars, timer,
                 measVars, filterVars>>

(* A scan is lost on the way. *)
LoseScan ==
  /\ Unlocked
  /\ lidar_next \in 1 .. NFrames
  /\ lidar_next' = lidar_next + 1
  /\ UNCHANGED <<configVars, imu_next, img_next, pushing, lidVars, imu_buffer, imgVars, timer,
                 measVars, filterVars>>

ImuCallback ==
  /\ slam_mode # "ONLY_LO"
  /\ imu_next <= LastTime
  /\ imu_next' = imu_next + SamplePeriod
  /\ IF last_timestamp_lidar < 0 THEN UNCHANGED imu_buffer
     ELSE Unlocked /\ imu_buffer' = Append(imu_buffer, imu_next)
  /\ UNCHANGED <<configVars, lidar_next, img_next, pushing, lidVars, imgVars, timer, measVars,
                 filterVars>>

(* img_cbk: an image twice, an image older than the last, and any other.   *)
SameImage == sent[img_next] = last_timestamp_img
LoopBack == last_timestamp_lidar > 0 /\ sent[img_next] < last_timestamp_img

ImageRest == UNCHANGED <<configVars, lidar_next, imu_next, lidVars, imu_buffer, timer, measVars,
                         filterVars>>

ClearImages == img_buffer' = <<>> /\ img_time_buffer' = <<>>

ImageLoopsBack ==
  /\ Unlocked
  /\ ClearImages
  /\ last_timestamp_img' = sent[img_next]
  /\ img_next' = img_next + 1
  /\ UNCHANGED pushing

ImgCallback ==
  /\ img_next \in 1 .. NImages
  /\ \/ /\ SameImage
        /\ img_next' = img_next + 1
        /\ UNCHANGED <<pushing, imgVars>>
     \/ ~SameImage /\ LoopBack /\ ImageLoopsBack
     \/ /\ ~SameImage /\ ~LoopBack
        /\ Unlocked
        /\ img_buffer' = Append(img_buffer, img_next)
        /\ pushing' = "img"
        /\ UNCHANGED <<img_next, img_time_buffer, last_timestamp_img>>
  /\ ImageRest

PushImageTime ==
  /\ pushing = "img"
  /\ img_time_buffer' = Append(img_time_buffer, sent[img_next])
  /\ last_timestamp_img' = sent[img_next]
  /\ img_next' = img_next + 1
  /\ pushing' = "none"
  /\ UNCHANGED img_buffer
  /\ ImageRest

-------------------------------------------------------------------------------
(* sync_packages in LIVO mode. *)

TimerRest == UNCHANGED <<configVars, nextVars, pushing, last_timestamp_lidar, last_timestamp_img>>
BuffersKept == UNCHANGED <<lid_raw_data_buffer, lid_header_time_buffer, imu_buffer, img_buffer,
                           img_time_buffer>>

NextStep == IF lio_vio_flg = "LIO" THEN "image" ELSE "frame"

(* The tests at its top.  What is in the buffers of the lidar and the IMU  *)
(* stays there; an image may be gone when the next step looks for it.      *)
TimerFires ==
  /\ timer = "idle"
  /\ slam_mode = LIVO
  /\ lid_raw_data_buffer # <<>> /\ imu_buffer # <<>> /\ img_buffer # <<>>
  /\ timer' = NextStep
  /\ BuffersKept /\ UNCHANGED <<measVars, filterVars>>
  /\ TimerRest

FirstUpdateTime ==
  IF last_lio_update_time < 0 THEN Head(lid_header_time_buffer) ELSE last_lio_update_time

lid_newest_time == Last(lid_header_time_buffer) + Span - 1
imu_newest_time == Last(imu_buffer)

(* The image is compared with the newest point only. *)
LidarReady(t) == t <= lid_newest_time

DataReady(t) == t <= lid_newest_time /\ t <= imu_newest_time

(* Before a LIO step: the first image tells where the frame ends. *)
ReadImageTime ==
  /\ timer = "frame"
  /\ img_time_buffer # <<>> /\ lid_header_time_buffer # <<>>
  /\ capture' = Head(img_time_buffer)
  /\ last_lio_update_time' = FirstUpdateTime
  /\ timer' = IF capture' <= FirstUpdateTime THEN "throw"
              ELSE IF DataReady(capture') THEN "imu" ELSE "idle"
  /\ BuffersKept
  /\ UNCHANGED <<lio_vio_flg, vio_time, image, imu, pcl_proc_cur, pcl_proc_next,
                 init_iter_num, imu_need_init, frames, pcl_w_wait_pub, colourVars,
                 jumped>>
  /\ TimerRest

PopImage ==
  /\ Unlocked
  /\ img_buffer' = Tail(img_buffer)
  /\ img_time_buffer' = Tail(img_time_buffer)

(* An image the filter is already past is thrown away. *)
ThrowImage ==
  /\ timer = "throw"
  /\ img_buffer # <<>>
  /\ PopImage
  /\ timer' = "idle"
  /\ UNCHANGED <<lid_raw_data_buffer, lid_header_time_buffer, imu_buffer, measVars, filterVars>>
  /\ TimerRest

(* The points left over are copied, but not taken out. *)
CopyLeftOver == pcl_proc_cur' = pcl_proc_next /\ UNCHANGED pcl_proc_next

TakeLeftOver == pcl_proc_cur' = pcl_proc_next /\ pcl_proc_next' = <<>>

(* The loop over imu_buffer pops until it meets a sample after the time t. *)
Stops(n, t) ==
  /\ \A i \in 1 .. n : imu_buffer[i] <= t
  /\ n < Len(imu_buffer) => imu_buffer[n + 1] > t

Through(t) == CHOOSE n \in 0 .. Len(imu_buffer) : Stops(n, t)
SamplesAfter(t) == SubSeq(imu_buffer, Through(t) + 1, Len(imu_buffer))

(* The samples since the last frame, and the points it left over.  Samples *)
(* the filter is past are popped all the same; they are the first.         *)
DrainImu ==
  /\ timer = "imu"
  /\ Unlocked
  /\ imu' = SubSeq(imu_buffer, Through(last_lio_update_time) + 1, Through(capture))
  /\ imu_buffer' = SamplesAfter(capture)
  /\ TakeLeftOver
  /\ timer' = "scans"
  /\ UNCHANGED <<lid_raw_data_buffer, lid_header_time_buffer, img_buffer, img_time_buffer,
                 lio_vio_flg, capture, vio_time, image, filterVars>>
  /\ TimerRest

(* Points are timed from the time the frame begins, which for those after  *)
(* the cut is the time of the image.                                       *)
Timed(f, first, end, since) ==
  [i \in 1 .. end - first |->
     LET o == first + i - 1 IN [point |-> <<f, o>>, curvature |-> o + Beg(f) - since]]

(* How many of a scan's points, one at each offset, are before the image.  *)
Cut(f) == IF capture - Beg(f) < Span THEN capture - Beg(f) ELSE Span

BeforeCut(f) == Timed(f, 0, Cut(f), last_lio_update_time)

(* Points after the cut keep the time base of the frame before. *)
LeftOverSameBase(f) == Timed(f, Cut(f), Span, last_lio_update_time)

LeftOver(f) == Timed(f, Cut(f), Span, capture)

ScansLeft ==
  /\ lid_raw_data_buffer # <<>>
  /\ lid_header_time_buffer # <<>> => Head(lid_header_time_buffer) <= capture

CutScan ==
  /\ timer = "scans"
  /\ ScansLeft /\ lid_header_time_buffer # <<>>
  /\ Unlocked
  /\ LET f == Head(lid_raw_data_buffer)
     IN  /\ pcl_proc_cur' = pcl_proc_cur \o BeforeCut(f)
         /\ pcl_proc_next' = pcl_proc_next \o LeftOver(f)
  /\ lid_raw_data_buffer' = Tail(lid_raw_data_buffer)
  /\ lid_header_time_buffer' = Tail(lid_header_time_buffer)
  /\ UNCHANGED <<imu_buffer, img_buffer, img_time_buffer, timer, lio_vio_flg, capture, vio_time,
                 image, imu, filterVars>>
  /\ TimerRest

FrameComplete ==
  /\ timer = "scans"
  /\ ~ScansLeft
  /\ lio_vio_flg' = "LIO"
  /\ timer' = "process"
  /\ BuffersKept
  /\ UNCHANGED <<capture, vio_time, image, imu, pcl_proc_cur, pcl_proc_next, filterVars>>
  /\ TimerRest

(* After a LIO step: whatever image is first now, its time before it.      *)
ReadVioTime ==
  /\ timer = "image"
  /\ img_time_buffer # <<>>
  /\ vio_time' = Head(img_time_buffer)
  /\ imu' = <<>>
  /\ lio_vio_flg' = "VIO"
  /\ timer' = "peek"
  /\ BuffersKept
  /\ UNCHANGED <<capture, image, pcl_proc_cur, pcl_proc_next, filterVars>>
  /\ TimerRest

ReadImage ==
  /\ timer = "peek"
  /\ img_buffer # <<>>
  /\ image' = Head(img_buffer)
  /\ timer' = "pop"
  /\ BuffersKept
  /\ UNCHANGED <<lio_vio_flg, capture, vio_time, imu, pcl_proc_cur, pcl_proc_next, filterVars>>
  /\ TimerRest

TakeImage ==
  /\ timer = "pop"
  /\ img_buffer # <<>>
  /\ PopImage
  /\ timer' = "process"
  /\ UNCHANGED <<lid_raw_data_buffer, lid_header_time_buffer, imu_buffer, measVars, filterVars>>
  /\ TimerRest

(* front() or pop_front() of an empty deque: an image cleared since the    *)
(* test, or an image or a cloud whose time is not there yet.               *)
ReadsEmpty ==
  \/ timer = "frame" /\ (img_time_buffer = <<>> \/ lid_header_time_buffer = <<>>)
  \/ timer = "image" /\ img_time_buffer = <<>>
  \/ timer = "peek" /\ img_buffer = <<>>
  \/ timer \in {"throw", "pop"} /\ Unlocked /\ img_buffer = <<>>
  \/ timer = "scans" /\ ScansLeft /\ lid_header_time_buffer = <<>>

Undefined ==
  /\ ReadsEmpty
  /\ timer' = "undefined"
  /\ BuffersKept /\ UNCHANGED <<measVars, filterVars>>
  /\ TimerRest

-------------------------------------------------------------------------------
(* processImu and stateEstimationAndMapping. *)

InitialiseImu ==
  /\ init_iter_num' = init_iter_num + Len(imu)
  /\ imu_need_init' = (imu = <<>> \/ init_iter_num' <= MAX_INI_COUNT)
  /\ UNCHANGED <<last_lio_update_time, frames, pcl_w_wait_pub, jumped>>

(* The image nearest to the frame is saved with it, and goes with all      *)
(* images before it.                                                       *)
Distance(i, time) == Max({img_time_buffer[i] - time, time - img_time_buffer[i]})
Nearest(time) ==
  Min({i \in DOMAIN img_time_buffer :
         \A j \in DOMAIN img_time_buffer : Distance(i, time) <= Distance(j, time)})

(* The image is taken whether it is to be saved or not. *)
AnyImage(time) == img_time_buffer # <<>> /\ Distance(Nearest(time), time) < Match

ImageToSave(time) ==
  pose_output_en /\ img_time_buffer # <<>> /\ Distance(Nearest(time), time) < Match

SaveImage(time) ==
  LET n == IF ImageToSave(time) THEN Nearest(time) ELSE 0
  IN  /\ pose_output_en => Unlocked
      /\ img_buffer' = SubSeq(img_buffer, n + 1, Len(img_buffer))
      /\ img_time_buffer' = SubSeq(img_time_buffer, n + 1, Len(img_time_buffer))

(* handleLIO.  Without the camera the points are published at once. *)
HandleLio(to, points) ==
  IF points = <<>> THEN UNCHANGED <<img_buffer, img_time_buffer, pcl_w_wait_pub>>
  ELSE SaveImage(to) /\ pcl_w_wait_pub' = IF slam_mode = LIVO THEN to ELSE 0

ProcessLio ==
  /\ timer = "process"
  /\ lio_vio_flg = "LIO"
  /\ IF imu_need_init
     THEN InitialiseImu /\ UNCHANGED <<img_buffer, img_time_buffer>>
     ELSE /\ HandleLio(capture, pcl_proc_cur)
          /\ frames' = Append(frames, [from |-> last_lio_update_time, to |-> capture,
                                       imu |-> imu, cloud |-> pcl_proc_cur])
          /\ last_lio_update_time' = capture
          /\ UNCHANGED <<init_iter_num, imu_need_init, jumped>>
  /\ timer' = "idle"
  /\ UNCHANGED <<lid_raw_data_buffer, lid_header_time_buffer, imu_buffer, measVars, colourVars>>
  /\ TimerRest

(* publish_frame_world: at every pub_scan_num-th frame the image colours   *)
(* what it shows of the frames that wait, however old they are.  They all  *)
(* go if it shows one point of one of them, and all wait on if it shows    *)
(* none.                                                                   *)
Waiting == pcl_wait_pub \cup {pcl_w_wait_pub}

\* Points that have been coloured stay to be coloured again.
WaitAlways(seen) == Waiting

WaitOn(seen) == IF seen = {} THEN Waiting ELSE {}

ColourFrames ==
  IF pub_num = pub_scan_num
  THEN /\ pub_num' = 1
       /\ \E seen \in SUBSET Waiting :
            /\ coloured' = coloured \cup {<<f, image, vio_time>> : f \in seen}
            /\ pcl_wait_pub' = WaitOn(seen)
  ELSE /\ pub_num' = pub_num + 1
       /\ pcl_wait_pub' = Waiting
       /\ UNCHANGED coloured

(* handleVIO does nothing without a point. *)
HandleVio ==
  IF pcl_w_wait_pub = 0 THEN UNCHANGED <<pcl_w_wait_pub, colourVars>>
  ELSE ColourFrames /\ pcl_w_wait_pub' = 0

(* The filter's time is the image's from now on, and while the IMU is      *)
(* initialised no state goes with it.                                      *)
ProcessVio ==
  /\ timer = "process"
  /\ lio_vio_flg = "VIO"
  /\ IF imu_need_init
     THEN UNCHANGED <<last_lio_update_time, pcl_w_wait_pub, colourVars, jumped>>
     ELSE /\ last_lio_update_time' = vio_time
          /\ jumped' = (jumped \/ vio_time # capture)
          /\ HandleVio
  /\ timer' = "idle"
  /\ BuffersKept
  /\ UNCHANGED <<measVars, init_iter_num, imu_need_init, frames>>
  /\ TimerRest

(* ONLY_LIO and ONLY_LO, step by step in MapperSync: a scan is a frame. *)
LidarFrameEnd == Head(lid_header_time_buffer) + Span - 1

LidarFrame ==
  /\ timer = "idle"
  /\ slam_mode # LIVO
  /\ Unlocked
  /\ lid_raw_data_buffer # <<>>
  /\ slam_mode = "ONLY_LIO" => imu_buffer # <<>> /\ LidarFrameEnd <= imu_newest_time
  /\ imu' = SubSeq(imu_buffer, 1, Through(LidarFrameEnd))
  /\ imu_buffer' = SamplesAfter(LidarFrameEnd)
  /\ lio_vio_flg' = IF slam_mode = "ONLY_LIO" THEN "LIO" ELSE "LO"
  /\ IF slam_mode = "ONLY_LIO" /\ imu_need_init
     THEN /\ init_iter_num' = init_iter_num + Len(imu')
          /\ imu_need_init' = (imu' = <<>> \/ init_iter_num' <= MAX_INI_COUNT)
          /\ last_lio_update_time' = FirstUpdateTime
          /\ UNCHANGED <<img_buffer, img_time_buffer, pcl_w_wait_pub>>
     ELSE /\ HandleLio(LidarFrameEnd, <<Head(lid_raw_data_buffer)>>)
          /\ last_lio_update_time' = LidarFrameEnd
          /\ UNCHANGED <<init_iter_num, imu_need_init>>
  /\ lid_raw_data_buffer' = Tail(lid_raw_data_buffer)
  /\ lid_header_time_buffer' = Tail(lid_header_time_buffer)
  /\ UNCHANGED <<timer, capture, vio_time, image, pcl_proc_cur, pcl_proc_next, frames, colourVars,
                 jumped>>
  /\ TimerRest

-------------------------------------------------------------------------------
TimerStep ==
  \/ TimerFires
  \/ ReadImageTime
  \/ ThrowImage
  \/ DrainImu
  \/ CutScan
  \/ FrameComplete
  \/ ReadVioTime
  \/ ReadImage
  \/ TakeImage
  \/ Undefined
  \/ ProcessLio
  \/ ProcessVio
  \/ LidarFrame

Next ==
  \/ PushCloud
  \/ PushCloudTime
  \/ LoseScan
  \/ ImuCallback
  \/ ImgCallback
  \/ PushImageTime
  \/ TimerStep

Spec == Init /\ [][Next]_vars

-------------------------------------------------------------------------------
Points == (1 .. NFrames) \X (0 .. Span - 1)
Clouds == Seq([point : Points, curvature : Int])
ImuTimes == {t \in 1 .. LastTime : t % SamplePeriod = 0}
Steps ==
  {"idle", "frame", "throw", "imu", "scans", "image", "peek", "pop", "process", "undefined"}

TypeOK ==
  /\ slam_mode \in Modes /\ pose_output_en \in BOOLEAN /\ pub_scan_num \in ScanNums
  /\ sent \in [1 .. NImages -> Stamps]
  /\ {lidar_next, imu_next, img_next} \subseteq Nat \ {0}
  /\ pushing \in {"lidar", "img", "none"}
  /\ lid_raw_data_buffer \in Seq(1 .. NFrames)
  /\ lid_header_time_buffer \in Seq(1 .. LastTime)
  /\ last_timestamp_lidar \in (1 .. LastTime) \cup {-1}
  /\ imu_buffer \in Seq(ImuTimes) /\ imu \in Seq(ImuTimes)
  /\ img_buffer \in Seq(1 .. NImages)
  /\ img_time_buffer \in Seq(Stamps)
  /\ Len(img_time_buffer) = Len(img_buffer) - (IF pushing = "img" THEN 1 ELSE 0)
  /\ last_timestamp_img \in Stamps \cup {-1}
  /\ timer \in Steps
  /\ lio_vio_flg \in {"WAIT", "LIO", "VIO", "LO"}
  /\ last_lio_update_time \in Nat \cup {-1}
  /\ {capture, vio_time, pcl_w_wait_pub} \subseteq Nat
  /\ image \in 0 .. NImages
  /\ pcl_proc_cur \in Clouds /\ pcl_proc_next \in Clouds
  /\ init_iter_num \in Nat \ {0} /\ imu_need_init \in BOOLEAN
  /\ frames \in Seq([from : Nat, to : Nat, imu : Seq(ImuTimes), cloud : Clouds])
  /\ pcl_wait_pub \subseteq Nat /\ pub_num \in Nat \ {0}
  /\ coloured \subseteq Nat \X (1 .. NImages) \X Stamps
  /\ jumped \in BOOLEAN

(* Types hold, and an image goes with its own time through two queues that *)
(* a callback fills and clears and the timer empties, cuts and reads one   *)
(* after the other without the lock: unless the camera's clock turns back, *)
(* a point is never coloured from one image with the time of another.  And *)
(* whatever the images show, and however many frames they have to wait,    *)
(* frames are coloured in order and once: by an image at their end or      *)
(* after it, and by no later image than the first that coloured anything   *)
(* from their end on; unless the image a frame was cut at was gone when    *)
(* the VIO step came to take it.                                           *)
TurnsBack == \E i, j \in 1 .. NImages : i < j /\ sent[j] < sent[i]

ColouredOnce ==
  /\ TypeOK
  /\ TurnsBack \/ \A c \in coloured : sent[c[2]] = c[3]
  /\ ~jumped => \A c, d \in coloured : c[1] <= c[3] /\ (c[3] < d[3] => c[3] < d[1])

(* That it is gone happens when the camera's clock turns back, or with     *)
(* pose_output_en, which takes the image before the VIO step can: no other *)
(* interleaving makes the filter's time jump over points and IMU samples   *)
(* it has not seen.                                                        *)
TimeJumpsOnlyIf ==
  jumped => pose_output_en \/ TurnsBack

(* However the scans lie to the images, in every frame the time of each    *)
(* point, counted from the frame's beginning, is the time it was measured, *)
(* and the points come in the order UndistortPcl counts on.  Only the rest *)
(* of a scan that one image has cut may reach past the next image: it is   *)
(* not cut again.                                                          *)
MeasuredAt(p) == Beg(p[1]) + p[2]

PointsOnTime ==
  ~jumped => \A k \in DOMAIN frames :
    LET cloud == frames[k].cloud
    IN  /\ \A i \in DOMAIN cloud : frames[k].from + cloud[i].curvature = MeasuredAt(cloud[i].point)
        /\ \A i, j \in DOMAIN cloud : i < j => cloud[i].curvature < cloud[j].curvature
        /\ \A i \in DOMAIN cloud :
             \/ MeasuredAt(cloud[i].point) < frames[k].to
             \/ Beg(cloud[i].point[1]) <= frames[k].from

(* Of a scan that came no point is mapped twice, and none is lost between  *)
(* two frames: from the time the first frame begins, every point of it is  *)
(* in one frame or waits to be, unless the filter's time jumped back       *)
(* before that frame, over points the initialisation had dropped.          *)
Held ==
  IF timer = "scans" \/ (timer = "process" /\ lio_vio_flg = "LIO")
  THEN pcl_proc_cur \o pcl_proc_next ELSE pcl_proc_next

CloudsSeen ==
  [k \in 1 .. Len(frames) + 1 |-> IF k \in DOMAIN frames THEN frames[k].cloud ELSE Held]

PointsOf(cloud) == {cloud[i].point : i \in DOMAIN cloud}

NoPointLost ==
  timer # "undefined" =>
  LET clouds == CloudsSeen
      seen == UNION {PointsOf(clouds[k]) : k \in DOMAIN clouds}
  IN  /\ \A k, l \in DOMAIN clouds : \A i \in DOMAIN clouds[k], j \in DOMAIN clouds[l] :
           clouds[k][i].point = clouds[l][j].point => k = l /\ i = j
      /\ (frames # <<>> /\ ~jumped) => \A p \in seen : \A o \in 0 .. Span - 1 :
           frames[1].from <= MeasuredAt(<<p[1], o>>) => <<p[1], o>> \in seen

(* The filter integrates every sample once: those a frame brings lie in it,*)
(* and none that came is missing.                                          *)
SamplesCoverFrame ==
  ~jumped => \A k \in DOMAIN frames :
    Range(frames[k].imu) =
      {t \in ImuTimes : frames[k].from < t /\ t <= frames[k].to}
===============================================================================
