---------------------------- MODULE TwistController ----------------------------
(***************************************************************************)
(* twist_controller_node: velocity commands become wheel speeds written to *)
(* a serial port, and a watchdog stops the wheels when commands stop       *)
(* arriving.                                                               *)
(*                                                                         *)
(* Two threads share the port.  The executor runs the callbacks; what      *)
(* send_command does between two locks of serial_mutex_ is one action.     *)
(* The read thread copies serial_fd_ under the mutex and reads outside it. *)
(* Around them the port is plugged and unplugged, and the rest of the      *)
(* process opens and closes files of its own.                              *)
(***************************************************************************)
EXTENDS Integers

CONSTANTS
  Fds,         \* file descriptors; bounds the file table of the process
  NoFd,        \* serial_fd_ == -1
  MaxErrors,   \* MAX_SERIAL_ERRORS
  HalfTurn,    \* pi, in steps of the yaw; a full turn is twice as many
  Linear,      \* linear.x of the commands that arrive
  Angular,     \* angular.z of the commands that arrive
  MaxLinear,   \* max_linear_vel
  MaxAngular,  \* max_angular_vel
  Faults       \* whether the port may be unplugged and a write may fail

ASSUME FdsAssumption == NoFd \notin Fds
ASSUME ErrorsAssumption == MaxErrors \in Nat
ASSUME TurnAssumption == HalfTurn \in Nat \ {0}
ASSUME VelocityAssumption ==
  /\ Linear \subseteq Int
  /\ Angular \subseteq Int
  /\ MaxLinear \in Nat
  /\ MaxAngular \in Nat
ASSUME FaultsAssumption == Faults \in BOOLEAN

VARIABLES
  serial_fd,          \* serial_fd_
  serial_error_count, \* serial_error_count_
  is_timed_out,       \* is_timed_out_
  driving_straight,   \* driving_straight_
  current_yaw,        \* current_yaw_
  target_yaw,         \* target_yaw_
  keep_reading,       \* keep_reading_
  quiet,              \* more than cmd_vel_timeout_ since last_cmd_vel_time_
  executor,           \* where the executor thread is
  caller,             \* the callback that called send_command
  command,            \* its arguments right_rpm and left_rpm
  reader,             \* where the read thread is
  reader_fd,          \* its current_fd
  file,               \* the file table of the process
  plugged,            \* the base is connected
  wheels              \* the last command the base received

portVars   == <<serial_fd, serial_error_count, file>>
driveVars  == <<is_timed_out, driving_straight, target_yaw, quiet>>
readerVars == <<reader, reader_fd>>
baseVars   == <<plugged, wheels>>
vars == <<portVars, driveVars, readerVars, baseVars, current_yaw, keep_reading,
          executor, caller, command>>

Yaws    == (1 - HalfTurn)..HalfTurn
Stop    == <<0, 0>>
Callers == {"cmd_vel", "watchdog", "destructor"}

\* A file of the port is dead once the device behind it was unplugged.
PortFile  == {"live", "dead"}
FileState == {"free", "other"} \cup PortFile

TypeOK ==
  /\ serial_fd \in Fds \cup {NoFd}
  /\ serial_error_count \in 0..(MaxErrors + 1)
  /\ is_timed_out \in BOOLEAN
  /\ driving_straight \in BOOLEAN
  /\ current_yaw \in Yaws
  /\ target_yaw \in Yaws
  /\ keep_reading \in BOOLEAN
  /\ quiet \in BOOLEAN
  /\ executor \in {"idle", "send", "close", "join", "farewell", "ended"}
  /\ caller \in Callers
  /\ command \in Int \X Int
  /\ reader \in {"loop", "read", "done"}
  /\ reader_fd \in Fds \cup {NoFd}
  /\ file \in [Fds -> FileState]
  /\ plugged \in BOOLEAN
  /\ wheels \in Int \X Int

\* The constructor has tried to open the port and started the read thread.
Init ==
  /\ \/ /\ plugged = FALSE
        /\ Faults
        /\ serial_fd = NoFd
        /\ file = [f \in Fds |-> "free"]
     \/ /\ plugged = TRUE
        /\ serial_fd \in Fds
        /\ file = [f \in Fds |-> IF f = serial_fd THEN "live" ELSE "free"]
  /\ serial_error_count = 0
  /\ is_timed_out = TRUE
  /\ driving_straight = FALSE
  /\ current_yaw = 0
  /\ target_yaw = 0
  /\ keep_reading = TRUE
  /\ quiet = FALSE
  /\ executor = "idle"
  /\ caller = "cmd_vel"
  /\ command = Stop
  /\ reader = "loop"
  /\ reader_fd = NoFd
  /\ wheels = Stop

------------------------------------------------------------------------------
(* Callbacks of the executor                                               *)

Within(v, limit) == IF v > limit THEN limit ELSE IF v < -limit THEN -limit ELSE v

\* The way from one yaw to another, the short way round.  Two yaws differ by
\* less than a full turn, so the loops of the code run at most once.
YawError(target, current) ==
  LET e == target - current
  IN  IF e > HalfTurn THEN e - 2 * HalfTurn
      ELSE IF e < -HalfTurn THEN e + 2 * HalfTurn ELSE e

\* Half the wheel base and the rpm of one unit of velocity are 1 here.
RightLeft(lin, ang) ==
  <<Within(lin, MaxLinear) - Within(ang, MaxAngular),
    Within(lin, MaxLinear) + Within(ang, MaxAngular)>>

IsStraight(lin, ang) == lin # 0 /\ ang = 0

\* The heading to hold: locked when the straight run begins.
Heading == IF driving_straight THEN target_yaw ELSE current_yaw

StaysTimedOut == is_timed_out   \* mutant: the flag is not cleared

Resumed == FALSE

CmdVel ==
  /\ executor = "idle"
  /\ keep_reading
  /\ quiet' = FALSE
  /\ is_timed_out' = Resumed
  /\ \E lin \in Linear, ang \in Angular :
       IF IsStraight(lin, ang)
       THEN /\ driving_straight' = TRUE
            /\ target_yaw' = Heading
            /\ command' = RightLeft(lin, ang + YawError(Heading, current_yaw))
       ELSE /\ driving_straight' = FALSE
            /\ UNCHANGED target_yaw
            /\ command' = RightLeft(lin, ang)
  /\ executor' = "send"
  /\ caller' = "cmd_vel"
  /\ UNCHANGED <<portVars, readerVars, baseVars, current_yaw, keep_reading>>

Imu ==
  /\ executor = "idle"
  /\ keep_reading
  /\ \E yaw \in Yaws : current_yaw' = yaw
  /\ UNCHANGED <<portVars, driveVars, readerVars, baseVars, keep_reading,
                 executor, caller, command>>

\* The watchdog speaks once: not again before the next command.
Watchdog ==
  /\ executor = "idle"
  /\ keep_reading
  /\ quiet
  /\ ~is_timed_out
  /\ command' = Stop
  /\ executor' = "send"
  /\ caller' = "watchdog"
  /\ UNCHANGED <<portVars, driveVars, readerVars, baseVars, current_yaw, keep_reading>>

------------------------------------------------------------------------------
(* send_command                                                            *)

StaysStraight == UNCHANGED driving_straight     \* mutant: the stop keeps the run

ForgetStraight == driving_straight' = (driving_straight /\ caller # "watchdog")

\* send_command returns and the callback does what it has left to do.
Return ==
  /\ executor' = IF caller = "destructor" THEN "farewell" ELSE "idle"
  /\ is_timed_out' = (is_timed_out \/ caller = "watchdog")
  /\ ForgetStraight
  /\ UNCHANGED <<target_yaw, quiet, current_yaw, keep_reading, caller, command>>

\* init_serial, with the port closed before.
Connect ==
  /\ executor = "send"
  /\ serial_fd = NoFd
  /\ \/ /\ plugged
        /\ \E f \in Fds :
             /\ file[f] = "free"
             /\ file' = [file EXCEPT ![f] = "live"]
             /\ serial_fd' = f
        /\ UNCHANGED <<driveVars, executor, caller, command, current_yaw, keep_reading>>
     \/ /\ ~plugged
        /\ Return
        /\ UNCHANGED <<serial_fd, file>>
  /\ UNCHANGED <<serial_error_count, readerVars, baseVars>>

WriteSucceeds ==
  /\ executor = "send"
  /\ serial_fd # NoFd
  /\ file[serial_fd] = "live"
  /\ wheels' = command
  /\ serial_error_count' = 0
  /\ Return
  /\ UNCHANGED <<serial_fd, file, readerVars, plugged>>

CountNothing == UNCHANGED serial_error_count    \* mutant: failures are not counted

CountError == serial_error_count' = serial_error_count + 1

\* The failure just counted is one too many in a row.
LinkLost == serial_error_count + 1 > MaxErrors

WriteFails ==
  /\ executor = "send"
  /\ serial_fd # NoFd
  /\ file[serial_fd] = "live" => Faults
  /\ CountError
  /\ IF LinkLost
     THEN /\ executor' = "close"
          /\ UNCHANGED <<driveVars, caller, command, current_yaw, keep_reading>>
     ELSE Return
  /\ UNCHANGED <<serial_fd, file, readerVars, baseVars>>

KeepFd == UNCHANGED serial_fd   \* mutant: serial_fd_ is not reset

ForgetFd == serial_fd' = NoFd

\* close_serial
CloseSerial ==
  /\ file' = [f \in Fds |-> IF f = serial_fd THEN "free" ELSE file[f]]
  /\ ForgetFd

Close ==
  /\ executor = "close"
  /\ CloseSerial
  /\ serial_error_count' = 0
  /\ Return
  /\ UNCHANGED <<readerVars, baseVars>>

------------------------------------------------------------------------------
(* The destructor: join the read thread, stop the wheels, close the port   *)

StopReading == keep_reading' = FALSE

Destroy ==
  /\ executor = "idle"
  /\ keep_reading
  /\ StopReading
  /\ executor' = "join"
  /\ UNCHANGED <<portVars, driveVars, readerVars, baseVars, current_yaw, caller, command>>

Joined == reader = "done"

Join ==
  /\ executor = "join"
  /\ Joined
  /\ command' = Stop
  /\ caller' = "destructor"
  /\ executor' = "send"
  /\ UNCHANGED <<portVars, driveVars, readerVars, baseVars, current_yaw, keep_reading>>

Farewell ==
  /\ executor = "farewell"
  /\ CloseSerial
  /\ executor' = "ended"
  /\ UNCHANGED <<serial_error_count, driveVars, readerVars, baseVars, current_yaw,
                 keep_reading, caller, command>>

------------------------------------------------------------------------------
(* read_serial_loop.  With no port open the thread sleeps and looks again. *)

executorVars == <<executor, caller, command>>

TakeFd ==
  /\ reader = "loop"
  /\ keep_reading
  /\ serial_fd # NoFd
  /\ reader_fd' = serial_fd
  /\ reader' = "read"
  /\ UNCHANGED <<portVars, driveVars, baseVars, executorVars, current_yaw, keep_reading>>

Read ==
  /\ reader = "read"
  /\ reader_fd' = NoFd
  /\ reader' = "loop"
  /\ UNCHANGED <<portVars, driveVars, baseVars, executorVars, current_yaw, keep_reading>>

LeaveLoop ==
  /\ reader = "loop"
  /\ ~keep_reading
  /\ reader' = "done"
  /\ UNCHANGED <<portVars, driveVars, reader_fd, baseVars, executorVars,
                 current_yaw, keep_reading>>

------------------------------------------------------------------------------
(* The environment: time, the cable, and the other files of the process    *)

TimePasses ==
  /\ ~quiet
  /\ quiet' = TRUE
  /\ UNCHANGED <<portVars, is_timed_out, driving_straight, target_yaw, readerVars,
                 baseVars, executorVars, current_yaw, keep_reading>>

Unplug ==
  /\ Faults
  /\ plugged
  /\ plugged' = FALSE
  /\ file' = [f \in Fds |-> IF file[f] = "live" THEN "dead" ELSE file[f]]
  /\ UNCHANGED <<serial_fd, serial_error_count, driveVars, readerVars, wheels,
                 executorVars, current_yaw, keep_reading>>

Plug ==
  /\ ~plugged
  /\ plugged' = TRUE
  /\ UNCHANGED <<portVars, driveVars, readerVars, wheels, executorVars,
                 current_yaw, keep_reading>>

\* The table is far from full in the process: one descriptor stays free.
OtherFile(f) ==
  /\ \/ /\ file[f] = "free"
        /\ \E g \in Fds \ {f} : file[g] \in {"free"} \cup PortFile
        /\ file' = [file EXCEPT ![f] = "other"]
     \/ /\ file[f] = "other"
        /\ file' = [file EXCEPT ![f] = "free"]
  /\ UNCHANGED <<serial_fd, serial_error_count, driveVars, readerVars, baseVars,
                 executorVars, current_yaw, keep_reading>>

------------------------------------------------------------------------------
Next ==
  \/ CmdVel \/ Imu \/ Watchdog
  \/ Connect \/ WriteSucceeds \/ WriteFails \/ Close
  \/ Destroy \/ Join \/ Farewell
  \/ TakeFd \/ Read \/ LeaveLoop
  \/ TimePasses \/ Unplug \/ Plug
  \/ \E f \in Fds : OtherFile(f)

Spec == Init /\ [][Next]_vars

\* Both threads keep running, and a port that is connected takes a command if
\* it is written again and again.
Fairness ==
  /\ WF_vars(Watchdog)
  /\ WF_vars(Connect)
  /\ WF_vars(WriteSucceeds \/ WriteFails)
  /\ SF_vars(WriteSucceeds)
  /\ WF_vars(Close)
  /\ WF_vars(Join)
  /\ WF_vars(Farewell)
  /\ WF_vars(Read)
  /\ WF_vars(LeaveLoop)

FairSpec == Spec /\ Fairness

------------------------------------------------------------------------------
(* Properties                                                              *)

\* serial_fd_ names the one file of the port and nothing else: send_command
\* never writes into a file of another part of the process, and reconnecting
\* never leaks a descriptor, whatever is unplugged and opened in between.
PortOwned ==
  /\ serial_fd # NoFd => file[serial_fd] \in PortFile
  /\ \A f \in Fds : file[f] \in PortFile => f = serial_fd

\* The node ends with the read thread gone and the port closed, and the thread
\* is gone before the port is closed: then no read meets a closed descriptor.
EndsClean ==
  /\ executor \in {"farewell", "ended"} => reader = "done"
  /\ executor = "ended" => serial_fd = NoFd

\* A straight run does not survive a watchdog stop: whatever the robot was turned
\* to meanwhile, the first straight command after it holds the yaw of that moment
\* and never steers back to a heading locked before the stop.
StopForgetsHeading ==
  [][is_timed_out /\ driving_straight' => target_yaw' = current_yaw]_vars

\* As long as commands arrive and the base is connected again for good, commands
\* keep reaching the wheels: no sequence of unplugging, failed writes and
\* reconnections wedges send_command.
CommandsGetThrough ==
  <>[]plugged /\ []<><<CmdVel>>_vars => []<><<WriteSucceeds>>_vars

\* The destructor ends: joining the read thread cannot hang.
DestructorEnds == executor = "join" ~> executor = "ended"

\* docs/ros2_basics.md: a watchdog stops the wheels if commands stop arriving.
\* It does while the port is good.  (The stop is sent once: if the base is
\* unplugged then or the write fails, nothing sends it again.)
GoodPort == plugged /\ serial_error_count = 0

WatchdogStopsWheels ==
  []GoodPort /\ <>[](quiet /\ keep_reading) => <>[](wheels = Stop)
===============================================================================
