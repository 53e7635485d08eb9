------------------------- MODULE TwistControllerProofs -------------------------
(***************************************************************************)
(* For any number of descriptors, any error limit, any velocities and any  *)
(* resolution of the yaw: the port is owned, the node ends clean, a stop   *)
(* forgets the heading of the run it ends.                                 *)
(***************************************************************************)
EXTENDS TwistController, TLAPS

\* What the destructor and the two other callers of send_command rely on.
CallerInv ==
  /\ executor = "farewell" => caller = "destructor"
  /\ caller = "destructor" => reader = "done" /\ executor # "idle"
  /\ caller = "cmd_vel" /\ executor \in {"send", "close"} => ~is_timed_out
  /\ executor = "ended" => reader = "done" /\ serial_fd = NoFd

\* The count passes the limit only on the way to close_serial.
CountInv == executor = "close" \/ serial_error_count <= MaxErrors

\* A node that has timed out drives no straight run.
StopEndsRun == is_timed_out => ~driving_straight

Inv == TypeOK /\ PortOwned /\ CallerInv /\ CountInv /\ StopEndsRun

\* A command of any callback is a pair of integers: clamping and correcting
\* never leave the integers.
LEMMA SpeedsAreIntegers ==
  ASSUME NEW lin \in Linear, NEW ang \in Angular, NEW t \in Yaws, NEW c \in Yaws
  PROVE  /\ RightLeft(lin, ang) \in Int \X Int
         /\ RightLeft(lin, ang + YawError(t, c)) \in Int \X Int
<1>1. lin \in Int /\ ang \in Int
  BY VelocityAssumption
<1>2. YawError(t, c) \in Int
  BY TurnAssumption DEF Yaws, YawError
<1>3. \A v \in Int, m \in Nat : Within(v, m) \in Int
  BY DEF Within
<1>4. \A x, y \in Int : RightLeft(x, y) \in Int \X Int
  <2> TAKE x, y \in Int
  <2>1. Within(x, MaxLinear) \in Int /\ Within(y, MaxAngular) \in Int
    BY <1>3, VelocityAssumption
  <2> DEFINE a == Within(x, MaxLinear)
             b == Within(y, MaxAngular)
  <2>2. a \in Int /\ b \in Int
    BY <2>1
  <2>3. <<a - b, a + b>> \in Int \X Int
    <3> HIDE DEF a, b
    <3> QED BY <2>2
  <2> QED BY <2>3 DEF RightLeft
<1>5. ang + YawError(t, c) \in Int
  BY <1>1, <1>2
<1> QED
  BY <1>1, <1>4, <1>5

\* The correction leads from the current yaw to the target, up to a full turn, and
\* never by more than half a turn: across the -pi/pi seam it goes the short way.
THEOREM ShortWay ==
  ASSUME NEW t \in Yaws, NEW c \in Yaws
  PROVE  /\ YawError(t, c) \in -HalfTurn..HalfTurn
         /\ t - (c + YawError(t, c)) \in {-2 * HalfTurn, 0, 2 * HalfTurn}
BY TurnAssumption DEF Yaws, YawError

\* The constructor establishes the invariant.
LEMMA Initial == Init => Inv
<1> SUFFICES ASSUME Init PROVE Inv
  OBVIOUS
<1>1. 0 \in Yaws
  BY TurnAssumption DEF Yaws
<1>2. TypeOK
  <2>1. file \in [Fds -> FileState] /\ serial_fd \in Fds \cup {NoFd} /\ plugged \in BOOLEAN
    BY DEF Init, FileState, PortFile
  <2>2. command \in Int \X Int /\ wheels \in Int \X Int
    BY DEF Init, Stop
  <2>3. serial_error_count \in 0..(MaxErrors + 1)
    BY ErrorsAssumption DEF Init
  <2> QED BY <1>1, <2>1, <2>2, <2>3 DEF Init, TypeOK, Callers
<1>3. PortOwned
  BY FdsAssumption DEF Init, PortOwned, PortFile
<1>4. CallerInv /\ CountInv /\ StopEndsRun
  BY ErrorsAssumption DEF Init, CallerInv, CountInv, StopEndsRun
<1> QED BY <1>2, <1>3, <1>4 DEF Inv

\* The callbacks leave the port alone and hand send_command a sane command.
LEMMA CallbacksPreserve ==
  ASSUME Inv, CmdVel \/ Imu \/ Watchdog \/ Destroy \/ Join
  PROVE  Inv'
<1> USE DEF portVars, driveVars, readerVars, baseVars
<1>1. CASE CmdVel
  <2> PICK lin \in Linear, ang \in Angular :
        IF IsStraight(lin, ang)
        THEN /\ driving_straight' = TRUE
             /\ target_yaw' = Heading
             /\ command' = RightLeft(lin, ang + YawError(Heading, current_yaw))
        ELSE /\ driving_straight' = FALSE
             /\ UNCHANGED target_yaw
             /\ command' = RightLeft(lin, ang)
    BY <1>1 DEF CmdVel
  <2>1. Heading \in Yaws /\ current_yaw \in Yaws
    BY DEF Inv, TypeOK, Heading
  <2>2. /\ command' \in Int \X Int
        /\ driving_straight' \in BOOLEAN
        /\ target_yaw' \in Yaws
    <3>1. lin \in Linear /\ ang \in Angular
      OBVIOUS
    <3>2. /\ RightLeft(lin, ang) \in Int \X Int
          /\ RightLeft(lin, ang + YawError(Heading, current_yaw)) \in Int \X Int
      BY <2>1, <3>1, SpeedsAreIntegers
    <3> QED BY <2>1, <3>2 DEF Inv, TypeOK
  <2>3. TypeOK'
    BY <1>1, <2>2 DEF Inv, TypeOK, CmdVel, Callers, Resumed, FileState, PortFile, Yaws
  <2>4. PortOwned'
    BY <1>1 DEF Inv, PortOwned, CmdVel
  <2>5. CallerInv' /\ CountInv' /\ StopEndsRun'
    BY <1>1 DEF Inv, CallerInv, CountInv, StopEndsRun, CmdVel, Resumed
  <2> QED BY <2>3, <2>4, <2>5 DEF Inv
<1>2. CASE Imu
  BY <1>2 DEF Inv, TypeOK, PortOwned, CallerInv, CountInv, StopEndsRun, Imu,
              FileState, PortFile, Yaws, Callers
<1>3. CASE Watchdog
  BY <1>3 DEF Inv, TypeOK, PortOwned, CallerInv, CountInv, StopEndsRun, Watchdog,
              FileState, PortFile, Yaws, Callers, Stop
<1>4. CASE Destroy
  BY <1>4 DEF Inv, TypeOK, PortOwned, CallerInv, CountInv, StopEndsRun, Destroy,
              StopReading, FileState, PortFile, Yaws, Callers
<1>5. CASE Join
  BY <1>5 DEF Inv, TypeOK, PortOwned, CallerInv, CountInv, StopEndsRun, Join,
              Joined, FileState, PortFile, Yaws, Callers, Stop
<1> QED BY <1>1, <1>2, <1>3, <1>4, <1>5

\* A return from send_command keeps what does not concern the port.
LEMMA ReturnPreserves ==
  ASSUME Inv, Return, executor \in {"send", "close"},
         UNCHANGED <<reader, reader_fd, plugged>>
  PROVE  /\ executor' \in {"idle", "farewell"}
         /\ is_timed_out' \in BOOLEAN
         /\ driving_straight' \in BOOLEAN
         /\ CallerInv'
         /\ StopEndsRun'
BY DEF Inv, TypeOK, CallerInv, StopEndsRun, Return, ForgetStraight, Callers

\* close_serial leaves no file of the port behind.
LEMMA ClosingOwns ==
  ASSUME Inv, CloseSerial
  PROVE  /\ PortOwned'
         /\ serial_fd' = NoFd
         /\ file' \in [Fds -> FileState]
<1>1. /\ serial_fd' = NoFd
      /\ file' = [f \in Fds |-> IF f = serial_fd THEN "free" ELSE file[f]]
  BY DEF CloseSerial, ForgetFd
<1>2. file' \in [Fds -> FileState]
  BY <1>1 DEF Inv, TypeOK, FileState, PortFile
<1>3. \A f \in Fds : file'[f] \in PortFile => f = serial_fd /\ FALSE
  BY <1>1 DEF Inv, PortOwned, PortFile
<1> QED BY <1>1, <1>2, <1>3 DEF PortOwned, PortFile

\* The steps of send_command and the closing of the port.
LEMMA SendPreserves ==
  ASSUME Inv, Connect \/ WriteSucceeds \/ WriteFails \/ Close \/ Farewell
  PROVE  Inv'
<1> USE DEF portVars, driveVars, readerVars, baseVars
<1>1. CASE Connect /\ plugged
  <2> PICK f \in Fds : /\ file[f] = "free"
                       /\ file' = [file EXCEPT ![f] = "live"]
                       /\ serial_fd' = f
    BY <1>1 DEF Connect
  <2>1. TypeOK'
    BY <1>1 DEF Inv, TypeOK, Connect, FileState, PortFile, Yaws, Callers
  <2>2. PortOwned'
    <3>1. serial_fd = NoFd
      BY <1>1 DEF Connect
    <3>2. file'[f] = "live" /\ \A g \in Fds \ {f} : file'[g] = file[g]
      BY DEF Inv, TypeOK
    <3>3. \A g \in Fds : g # NoFd
      BY FdsAssumption
    <3>4. \A g \in Fds : file[g] \notin PortFile
      BY <3>1, <3>3 DEF Inv, PortOwned
    <3> QED BY <3>2, <3>4 DEF PortOwned, PortFile
  <2>3. CallerInv' /\ CountInv' /\ StopEndsRun'
    BY <1>1 DEF Inv, CallerInv, CountInv, StopEndsRun, Connect
  <2> QED BY <2>1, <2>2, <2>3 DEF Inv
<1>2. CASE Connect /\ ~plugged
  <2>1. executor = "send" /\ Return /\ UNCHANGED <<portVars, readerVars, baseVars>>
    BY <1>2 DEF Connect
  <2>2. /\ executor' \in {"idle", "farewell"}
        /\ is_timed_out' \in BOOLEAN
        /\ driving_straight' \in BOOLEAN
        /\ CallerInv' /\ StopEndsRun'
    BY <2>1, ReturnPreserves
  <2>3. TypeOK'
    BY <2>1, <2>2 DEF Inv, TypeOK, Return, FileState, PortFile, Yaws, Callers
  <2>4. PortOwned' /\ CountInv'
    BY <2>1 DEF Inv, PortOwned, CountInv
  <2> QED BY <2>2, <2>3, <2>4 DEF Inv
<1>3. CASE WriteSucceeds
  <2>1. /\ executor = "send" /\ Return /\ UNCHANGED <<serial_fd, file, readerVars, plugged>>
        /\ wheels' = command /\ serial_error_count' = 0
    BY <1>3 DEF WriteSucceeds
  <2>2. /\ executor' \in {"idle", "farewell"}
        /\ is_timed_out' \in BOOLEAN
        /\ driving_straight' \in BOOLEAN
        /\ CallerInv' /\ StopEndsRun'
    BY <2>1, ReturnPreserves
  <2>3. TypeOK'
    BY <2>1, <2>2, ErrorsAssumption
    DEF Inv, TypeOK, Return, FileState, PortFile, Yaws, Callers
  <2>4. PortOwned' /\ CountInv'
    BY <2>1, ErrorsAssumption DEF Inv, PortOwned, CountInv
  <2> QED BY <2>2, <2>3, <2>4 DEF Inv
<1>4. CASE WriteFails /\ LinkLost
  <2>1. serial_error_count' \in 0..(MaxErrors + 1)
    BY <1>4, ErrorsAssumption DEF Inv, TypeOK, CountInv, WriteFails, CountError
  <2>2. TypeOK'
    BY <1>4, <2>1 DEF Inv, TypeOK, WriteFails, FileState, PortFile, Yaws, Callers
  <2>3. PortOwned' /\ CallerInv' /\ CountInv' /\ StopEndsRun'
    BY <1>4 DEF Inv, PortOwned, CallerInv, CountInv, StopEndsRun, WriteFails
  <2> QED BY <2>2, <2>3 DEF Inv
<1>5. CASE WriteFails /\ ~LinkLost
  <2>1. /\ executor = "send" /\ Return
        /\ UNCHANGED <<serial_fd, file, readerVars, baseVars>>
        /\ serial_error_count' = serial_error_count + 1
    BY <1>5 DEF WriteFails, CountError
  <2>2. /\ executor' \in {"idle", "farewell"}
        /\ is_timed_out' \in BOOLEAN
        /\ driving_straight' \in BOOLEAN
        /\ CallerInv' /\ StopEndsRun'
    BY <2>1, ReturnPreserves
  <2>3. serial_error_count' \in 0..(MaxErrors + 1) /\ serial_error_count' <= MaxErrors
    BY <1>5, <2>1, ErrorsAssumption DEF Inv, TypeOK, LinkLost
  <2>4. TypeOK'
    BY <2>1, <2>2, <2>3 DEF Inv, TypeOK, Return, FileState, PortFile, Yaws, Callers
  <2>5. PortOwned' /\ CountInv'
    BY <2>1, <2>3 DEF Inv, PortOwned, CountInv
  <2> QED BY <2>2, <2>4, <2>5 DEF Inv
<1>6. CASE Close
  <2>1. /\ executor = "close" /\ Return /\ CloseSerial
        /\ UNCHANGED <<readerVars, baseVars>>
        /\ serial_error_count' = 0
    BY <1>6 DEF Close
  <2>2. /\ executor' \in {"idle", "farewell"}
        /\ is_timed_out' \in BOOLEAN
        /\ driving_straight' \in BOOLEAN
        /\ CallerInv' /\ StopEndsRun'
    BY <2>1, ReturnPreserves
  <2>3. PortOwned' /\ serial_fd' = NoFd /\ file' \in [Fds -> FileState]
    BY <2>1, ClosingOwns
  <2>4. TypeOK'
    BY <2>1, <2>2, <2>3, ErrorsAssumption
    DEF Inv, TypeOK, Return, FileState, PortFile, Yaws, Callers
  <2>5. CountInv'
    BY <2>1, ErrorsAssumption DEF CountInv
  <2> QED BY <2>2, <2>3, <2>4, <2>5 DEF Inv
<1>7. CASE Farewell
  <2>1. PortOwned' /\ serial_fd' = NoFd /\ file' \in [Fds -> FileState]
    BY <1>7, ClosingOwns DEF Farewell
  <2>2. TypeOK'
    BY <1>7, <2>1 DEF Inv, TypeOK, Farewell, FileState, PortFile, Yaws, Callers
  <2>3. CallerInv' /\ CountInv' /\ StopEndsRun'
    BY <1>7, <2>1 DEF Inv, CallerInv, CountInv, StopEndsRun, Farewell
  <2> QED BY <2>1, <2>2, <2>3 DEF Inv
<1> QED BY <1>1, <1>2, <1>3, <1>4, <1>5, <1>6, <1>7

\* The read thread and the environment.
LEMMA OthersPreserve ==
  ASSUME Inv, \/ TakeFd \/ Read \/ LeaveLoop \/ TimePasses \/ Unplug \/ Plug
              \/ \E f \in Fds : OtherFile(f)
  PROVE  Inv'
<1> USE DEF portVars, driveVars, readerVars, baseVars, executorVars
<1>1. CASE TakeFd \/ Read \/ LeaveLoop
  BY <1>1 DEF Inv, TypeOK, PortOwned, CallerInv, CountInv, StopEndsRun, TakeFd,
              Read, LeaveLoop, FileState, PortFile, Yaws, Callers
<1>2. CASE TimePasses
  BY <1>2 DEF Inv, TypeOK, PortOwned, CallerInv, CountInv, StopEndsRun, TimePasses,
              FileState, PortFile, Yaws, Callers
<1>5. CASE Plug
  BY <1>5 DEF Inv, TypeOK, PortOwned, CallerInv, CountInv, StopEndsRun, Plug,
              FileState, PortFile, Yaws, Callers
<1>3. CASE Unplug
  <2>1. file' = [f \in Fds |-> IF file[f] = "live" THEN "dead" ELSE file[f]]
    BY <1>3 DEF Unplug
  <2>2. file' \in [Fds -> FileState]
    BY <2>1 DEF Inv, TypeOK, FileState, PortFile
  <2>3. TypeOK'
    BY <1>3, <2>2 DEF Inv, TypeOK, Unplug, Yaws, Callers
  <2>4. PortOwned'
    BY <1>3, <2>1, FdsAssumption DEF Inv, TypeOK, PortOwned, PortFile, Unplug
  <2>5. CallerInv' /\ CountInv' /\ StopEndsRun'
    BY <1>3 DEF Inv, CallerInv, CountInv, StopEndsRun, Unplug
  <2> QED BY <2>3, <2>4, <2>5 DEF Inv
<1>4. ASSUME NEW f \in Fds, OtherFile(f) PROVE Inv'
  <2>1. \/ file[f] = "free" /\ file' = [file EXCEPT ![f] = "other"]
        \/ file[f] = "other" /\ file' = [file EXCEPT ![f] = "free"]
    BY <1>4 DEF OtherFile
  <2>2. file' \in [Fds -> FileState]
    BY <2>1 DEF Inv, TypeOK, FileState, PortFile
  <2>3. TypeOK'
    BY <1>4, <2>2 DEF Inv, TypeOK, OtherFile, Yaws, Callers
  <2>4. PortOwned'
    BY <1>4, <2>1 DEF Inv, TypeOK, PortOwned, PortFile, OtherFile
  <2>5. CallerInv' /\ CountInv' /\ StopEndsRun'
    BY <1>4 DEF Inv, CallerInv, CountInv, StopEndsRun, OtherFile
  <2> QED BY <2>3, <2>4, <2>5 DEF Inv
<1> QED BY <1>1, <1>2, <1>3, <1>4, <1>5

LEMMA Inductive == Inv /\ [Next]_vars => Inv'
<1> SUFFICES ASSUME Inv, [Next]_vars PROVE Inv'
  OBVIOUS
<1>1. CASE UNCHANGED vars
  BY <1>1 DEF Inv, TypeOK, PortOwned, CallerInv, CountInv, StopEndsRun, vars,
              portVars, driveVars, readerVars, baseVars, FileState, PortFile, Yaws, Callers
<1>2. CASE Next
  BY <1>2, CallbacksPreserve, SendPreserves, OthersPreserve DEF Next
<1> QED BY <1>1, <1>2

THEOREM Invariant == Spec => []Inv
<1> QED BY Initial, Inductive, PTL DEF Spec

\* Every member keeps its type; above all the error count of send_command never
\* passes the limit by more than the one failure that closes the port.
THEOREM TypeCorrect == Spec => []TypeOK
<1>1. Inv => TypeOK
  BY DEF Inv
<1> QED BY <1>1, Invariant, PTL

\* send_command never writes to a file that is not the port, and reconnecting
\* never leaks a descriptor.
THEOREM PortSafe == Spec => []PortOwned
<1>1. Inv => PortOwned
  BY DEF Inv
<1> QED BY <1>1, Invariant, PTL

\* The destructor closes the port after the read thread is gone, and leaves
\* nothing open.
THEOREM EndSafe == Spec => []EndsClean
<1>1. Inv => EndsClean
  BY DEF Inv, CallerInv, EndsClean
<1> QED BY <1>1, Invariant, PTL

\* After a watchdog stop a straight run begins anew, with the yaw of its first
\* command as its heading.
THEOREM StopSafe == Spec => StopForgetsHeading
<1>1. ASSUME Inv, [Next]_vars
      PROVE  [is_timed_out /\ driving_straight' => target_yaw' = current_yaw]_vars
  <2> SUFFICES ASSUME Next, is_timed_out, driving_straight'
               PROVE  target_yaw' = current_yaw
    BY <1>1
  <2>0. ~driving_straight
    BY <1>1 DEF Inv, StopEndsRun
  <2>1. CASE CmdVel
    BY <2>0, <2>1 DEF CmdVel, Heading
  <2>2. CASE Imu \/ Watchdog \/ Destroy \/ Join \/ Farewell
    BY <2>0, <2>2 DEF Imu, Watchdog, Destroy, Join, Farewell, driveVars
  <2>3. CASE Connect \/ WriteSucceeds \/ WriteFails \/ Close
    BY <2>0, <2>3
    DEF Connect, WriteSucceeds, WriteFails, Close, Return, ForgetStraight, driveVars
  <2>4. CASE TakeFd \/ Read \/ LeaveLoop \/ TimePasses \/ Unplug \/ Plug
    BY <2>0, <2>4 DEF TakeFd, Read, LeaveLoop, TimePasses, Unplug, Plug, driveVars
  <2>5. CASE \E f \in Fds : OtherFile(f)
    BY <2>0, <2>5 DEF OtherFile, driveVars
  <2> QED BY <2>1, <2>2, <2>3, <2>4, <2>5 DEF Next
<1> QED BY <1>1, Invariant, PTL DEF Spec, StopForgetsHeading
===============================================================================
