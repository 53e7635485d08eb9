---------------------------- MODULE BagStopProofs -----------------------------
(***************************************************************************)
(* Stopping children second by second, for any pids: types, the children,  *)
(* the time launch gives, and that BagStop implements BagRecorder.         *)
(***************************************************************************)
EXTENDS BagStop, TLAPS

RecorderSteps   == {"int", "term", "kill"}
ConversionSteps == {"conv_term", "conv_kill"}

(* How the members and the thread's place in a stop go together.           *)
MembersAgree ==
  /\ is_recording <=> recording_pid # NoPid
  /\ (is_recording \/ pid # NoPid) => current_bag_name = "nav_bag"
  /\ step \in RecorderSteps => is_recording
  /\ step \in ConversionSteps => ~is_recording /\ ssh_conversion_pid # NoPid
  /\ pid # NoPid => step \in ConversionSteps /\ pid # ssh_conversion_pid
  /\ allow_conversion => step \in RecorderSteps \/ pid # NoPid

(* How the members and the kernel go together: a pid the node holds has    *)
(* not been reaped, and what was sent SIGKILL is on record.                *)
KernelAgrees ==
  /\ recording_pid # NoPid => child[recording_pid] \in {"recorder", "recorder_exited"}
  /\ ssh_conversion_pid # NoPid =>
       child[ssh_conversion_pid] \in {"conversion", "conversion_exited"}
  /\ \A p \in orphans : child[p] \in Running /\ p \notin {recording_pid, ssh_conversion_pid}
  /\ step \in {"kill", "conv_kill"} => Awaited \in killed
  /\ ForgottenIsDoomed

(* The types but for the node's life and the two clocks.                   *)
MembersTyped ==
  /\ is_recording \in BOOLEAN
  /\ recording_pid \in Pids \cup {NoPid}
  /\ current_bag_name \in {"", "nav_bag"}
  /\ ssh_conversion_pid \in Pids \cup {NoPid}
  /\ automatic_update_map \in BOOLEAN
  /\ child \in [Pids -> {"none"} \cup Running \cup Zombie]
  /\ killed \subseteq Pids
  /\ stuck \subseteq Pids
  /\ step \in Steps
  /\ pid \in Pids \cup {NoPid}
  /\ allow_conversion \in BOOLEAN
  /\ orphans \subseteq Pids

StopInv == MembersTyped /\ MembersAgree /\ KernelAgrees

(* The child a stop waits for is one of the node's, and still in the       *)
(* kernel's table.                                                         *)
LEMMA AwaitsChild ==
  ASSUME StopInv, step # "idle"
  PROVE  /\ Awaited \in Pids
         /\ child[Awaited] # "none"
         /\ Awaited = IF step \in RecorderSteps THEN recording_pid ELSE ssh_conversion_pid
         /\ step \in RecorderSteps \cup ConversionSteps
BY PidAssumption DEF StopInv, MembersTyped, Steps, MembersAgree, KernelAgrees, Awaited,
   RecorderSteps, ConversionSteps

LEMMA StopInitial == StopInit => StopInv
<1> SUFFICES ASSUME StopInit PROVE StopInv
  OBVIOUS
<1>1. MembersTyped
  BY DEF StopInit, MembersTyped, Steps, Running, Zombie
<1>2. MembersAgree
  BY PidAssumption DEF StopInit, MembersAgree, RecorderSteps, ConversionSteps
<1>3. KernelAgrees
  BY PidAssumption DEF StopInit, KernelAgrees, ForgottenIsDoomed, Running
<1> QED BY <1>1, <1>2, <1>3 DEF StopInv

-------------------------------------------------------------------------------
(* What a fork, a stop and an end do to the children. *)

LEMMA StartSafe ==
  ASSUME StopInv, Serving, StartRecording
  PROVE  StopInv'
<1> USE PidAssumption DEF stopVars, memberVars, kernelVars, waitVars, lifeVars
<1>1. CASE UNCHANGED stopVars
  BY <1>1 DEF StopInv, MembersTyped, MembersAgree, KernelAgrees, ForgottenIsDoomed, Awaited,
     RecorderSteps, ConversionSteps, Steps, Running, Zombie
<1>2. CASE ~(is_recording \/ recording_pid # NoPid)
  <2>1. /\ current_bag_name' = "nav_bag"
        /\ UNCHANGED <<ssh_conversion_pid, automatic_update_map, killed, stuck,
                       waitVars, lifeVars>>
    BY <1>2 DEF StartRecording
  <2>2. CASE UNCHANGED <<is_recording, recording_pid, child>>
    BY <1>2, <2>1, <2>2 DEF StopInv, MembersTyped, MembersAgree, KernelAgrees,
       ForgottenIsDoomed, Awaited, RecorderSteps, ConversionSteps, Steps, Running, Zombie
  <2>3. ASSUME NEW p \in FreePids(child), child' = [child EXCEPT ![p] = "recorder"],
               recording_pid' = p, is_recording' = TRUE
        PROVE  StopInv'
    <3>1. p \in Pids /\ child[p] = "none" /\ p # NoPid
      BY DEF FreePids
    <3>2. MembersTyped'
      BY <2>1, <2>3, <3>1 DEF StopInv, MembersTyped, Steps, Running, Zombie
    <3>3. MembersAgree'
      BY <2>1, <2>3, <3>1 DEF StopInv, MembersTyped, Serving, MembersAgree, RecorderSteps,
         ConversionSteps
    <3>4. KernelAgrees'
      BY <1>2, <2>1, <2>3, <3>1 DEF StopInv, MembersTyped, Serving, KernelAgrees, ForgottenIsDoomed,
         Running, Zombie
    <3> QED BY <3>2, <3>3, <3>4 DEF StopInv
  <2> QED BY <1>2, <2>2, <2>3 DEF StartRecording
<1> QED BY <1>1, <1>2 DEF StartRecording

(* Whatever touches neither the members nor the children nor a wait.       *)
LEMMA WaitSafe ==
  ASSUME StopInv, UNCHANGED <<memberVars, automatic_update_map, child, pid, orphans>>,
         MembersTyped', MembersAgree',
         killed \subseteq killed', step' \in {"kill", "conv_kill"} => Awaited' \in killed'
  PROVE  StopInv'
BY DEF memberVars, StopInv, MembersTyped, KernelAgrees, ForgottenIsDoomed, Running

(* The last things a stop does; table is the kernel's after its wait.      *)
LEMMA FinishSafe ==
  ASSUME StopInv, step # "idle", NEW table,
         table \in [Pids -> {"none"} \cup Running \cup Zombie],
         \A p \in Pids : table[p] \in {"none", child[p]},
         Finish(table),
         UNCHANGED <<automatic_update_map, stuck, lifeVars>>,
         killed' \subseteq killed,
         \A p \in Pids : table[p] \in Running => p \in killed' \cup orphans,
         \A p \in orphans : table[p] \in Running
  PROVE  StopInv'
<1> USE PidAssumption DEF lifeVars
<1>1. /\ step' = "idle" /\ waited' = 0 /\ pid' = NoPid /\ allow_conversion' = FALSE
      /\ current_bag_name' = "" /\ is_recording' = FALSE /\ recording_pid' = NoPid
  BY DEF Finish, Return, WaitFor, ForgetRecorder
<1>2. CASE child' = table /\ ssh_conversion_pid' = NoPid
  <2>1. MembersTyped'
    BY <1>1, <1>2 DEF StopInv, MembersTyped, Steps, Running, Zombie
  <2>2. MembersAgree'
    BY <1>1 DEF MembersAgree, RecorderSteps, ConversionSteps
  <2>3. KernelAgrees'
    BY <1>1, <1>2 DEF StopInv, MembersTyped, KernelAgrees, ForgottenIsDoomed
  <2> QED BY <2>1, <2>2, <2>3 DEF StopInv
<1>3. ASSUME NEW p \in FreePids(table), child' = [table EXCEPT ![p] = "conversion"],
             ssh_conversion_pid' = p
      PROVE  StopInv'
  <2>0. p \in Pids /\ table[p] = "none" /\ p # NoPid
    BY DEF FreePids
  <2>1. MembersTyped'
    BY <1>1, <1>3, <2>0 DEF StopInv, MembersTyped, Steps, Running, Zombie
  <2>2. MembersAgree'
    BY <1>1 DEF MembersAgree, RecorderSteps, ConversionSteps
  <2>3. KernelAgrees'
    BY <1>1, <1>3, <2>0 DEF StopInv, MembersTyped, KernelAgrees, ForgottenIsDoomed, Running
  <2> QED BY <2>1, <2>2, <2>3 DEF StopInv
<1> QED BY <1>2, <1>3 DEF Finish

LEMMA GiveUpSafe ==
  ASSUME StopInv, step \in RecorderSteps, NEW table,
         table \in [Pids -> {"none"} \cup Running \cup Zombie],
         \A p \in Pids : table[p] \in {"none", child[p]},
         \A p \in Pids \ {recording_pid} : table[p] = child[p],
         GiveUpRecorder(table),
         UNCHANGED <<automatic_update_map, stuck, lifeVars>>,
         killed \ {recording_pid} \subseteq killed', killed' \subseteq killed,
         table[recording_pid] \in Running => recording_pid \in killed'
  PROVE  StopInv'
<1>0. /\ \A p \in orphans : table[p] \in Running
      /\ is_recording /\ recording_pid \in Pids /\ step # "idle"
      /\ pid = NoPid
      /\ recording_pid # ssh_conversion_pid
  BY DEF StopInv, MembersTyped, MembersAgree, KernelAgrees, RecorderSteps, ConversionSteps
<1>1. CASE ssh_conversion_pid = NoPid /\ Finish(table)
  <2>1. \A p \in Pids : table[p] \in Running => p \in killed' \cup orphans
    BY <1>0, <1>1, PidAssumption DEF StopInv, MembersTyped, KernelAgrees, ForgottenIsDoomed
  <2> QED BY <1>0, <1>1, <2>1, FinishSafe
<1>2. CASE ssh_conversion_pid # NoPid /\ ~(ssh_conversion_pid = NoPid /\ Finish(table))
  <2>1. /\ child' = table /\ is_recording' = FALSE /\ recording_pid' = NoPid
        /\ pid' = recording_pid /\ step' = "conv_term" /\ waited' = 0
        /\ UNCHANGED <<current_bag_name, ssh_conversion_pid, allow_conversion>>
    BY <1>2 DEF GiveUpRecorder, ForgetRecorder, WaitFor
  <2>2. MembersTyped'
    BY <1>0, <2>1 DEF StopInv, MembersTyped, Steps, Running, Zombie, lifeVars
  <2>3. MembersAgree'
    BY <1>0, <1>2, <2>1, PidAssumption DEF StopInv, MembersAgree, RecorderSteps, ConversionSteps
  <2>4. KernelAgrees'
    BY <1>0, <1>2, <2>1, PidAssumption DEF StopInv, MembersTyped, KernelAgrees,
       ForgottenIsDoomed, lifeVars
  <2> QED BY <2>2, <2>3, <2>4 DEF StopInv
<1> QED BY <1>1, <1>2 DEF GiveUpRecorder

-------------------------------------------------------------------------------
(* The steps, one by one.                                                  *)

LEMMA StutterSafe ==
  ASSUME StopInv, UNCHANGED stopVars
  PROVE  StopInv'
BY DEF stopVars, memberVars, kernelVars, waitVars, lifeVars, StopInv, MembersTyped, MembersAgree,
   KernelAgrees, ForgottenIsDoomed, Awaited, RecorderSteps, ConversionSteps, Steps, Running, Zombie

LEMMA BeginSafe ==
  ASSUME StopInv, step = "idle", NEW c \in BOOLEAN, BeginStop(c)
  PROVE  StopInv'
<1>1. CASE ~is_recording \/ recording_pid = NoPid
  BY <1>1, StutterSafe DEF BeginStop
<1>2. CASE is_recording /\ recording_pid # NoPid
  <2>1. /\ step' = "int" /\ waited' = 0 /\ allow_conversion' = c
        /\ UNCHANGED <<memberVars, automatic_update_map, kernelVars, pid, lifeVars>>
    BY <1>2 DEF BeginStop, WaitFor
  <2>2. MembersTyped'
    BY <2>1 DEF memberVars, kernelVars, lifeVars, StopInv, MembersTyped, Steps, Running, Zombie
  <2>3. MembersAgree'
    BY <1>2, <2>1 DEF memberVars, StopInv, MembersAgree, RecorderSteps, ConversionSteps
  <2> QED BY <2>1, <2>2, <2>3, WaitSafe DEF memberVars, kernelVars, lifeVars
<1> QED BY <1>1, <1>2

LEMMA ReapSafe ==
  ASSUME StopInv, ChildReaped
  PROVE  StopInv'
<1> DEFINE table == Reaped
<1> HIDE DEF table
<1>1. /\ step # "idle" /\ child[Awaited] \in Zombie
      /\ IF step \in RecorderSteps THEN GiveUpRecorder(table) ELSE Finish(table)
      /\ killed' = killed \ {Awaited}
      /\ UNCHANGED <<automatic_update_map, stuck, lifeVars>>
  BY DEF ChildReaped, RecorderSteps, table
<1>2. /\ Awaited \in Pids
      /\ Awaited = IF step \in RecorderSteps THEN recording_pid ELSE ssh_conversion_pid
      /\ step \in RecorderSteps \cup ConversionSteps
  BY <1>1, AwaitsChild
<1>3. /\ child \in [Pids -> {"none"} \cup Running \cup Zombie]
      /\ table = [child EXCEPT ![Awaited] = "none"]
  BY DEF StopInv, MembersTyped, Reaped, table
<1>4. /\ table \in [Pids -> {"none"} \cup Running \cup Zombie]
      /\ \A p \in Pids : table[p] = IF p = Awaited THEN "none" ELSE child[p]
  BY <1>2, <1>3
<1>5. "none" \notin Running
  BY DEF Running
<1>6. CASE step \in RecorderSteps
  BY <1>1, <1>2, <1>4, <1>5, <1>6, GiveUpSafe
<1>7. CASE step \in ConversionSteps
  <2>1. recording_pid = NoPid /\ Awaited = ssh_conversion_pid /\ step \notin RecorderSteps
    BY <1>2, <1>7 DEF StopInv, MembersAgree, RecorderSteps, ConversionSteps
  <2>2. \A p \in Pids : table[p] \in Running => p \in killed' \cup orphans
    BY <1>1, <1>4, <1>5, <2>1, PidAssumption DEF StopInv, KernelAgrees, ForgottenIsDoomed
  <2>3. \A p \in orphans : table[p] \in Running
    BY <1>4, <2>1 DEF StopInv, MembersTyped, KernelAgrees
  <2> QED BY <1>1, <1>4, <2>1, <2>2, <2>3, FinishSafe
<1> QED BY <1>2, <1>6, <1>7

LEMMA SignalSafe ==
  ASSUME StopInv, SignalHarder
  PROVE  StopInv'
<1>1. /\ UNCHANGED <<memberVars, automatic_update_map, child, stuck, pid, allow_conversion,
                     lifeVars>>
      /\ \/ step = "int" /\ step' = "term"
         \/ step = "term" /\ step' = "kill"
         \/ step = "conv_term" /\ step' = "conv_kill"
      /\ killed' = IF step' \in {"kill", "conv_kill"} THEN killed \cup {Awaited} ELSE killed
  BY DEF SignalHarder, WaitFor, Kills
<1>2. Awaited \in Pids /\ Awaited' = Awaited
  BY <1>1, AwaitsChild DEF Awaited, memberVars
<1>3. MembersTyped'
  BY <1>1, <1>2 DEF memberVars, lifeVars, StopInv, MembersTyped, Steps, Running, Zombie
<1>4. MembersAgree'
  BY <1>1 DEF memberVars, StopInv, MembersAgree, RecorderSteps, ConversionSteps
<1> QED BY <1>1, <1>2, <1>3, <1>4, WaitSafe DEF memberVars, lifeVars

LEMMA ForgetSafe ==
  ASSUME StopInv, Forget
  PROVE  StopInv'
<1>1. /\ child \in [Pids -> {"none"} \cup Running \cup Zombie]
      /\ \A p \in orphans : child[p] \in Running
      /\ UNCHANGED <<automatic_update_map, killed, stuck, lifeVars>>
      /\ step \in {"kill", "conv_kill"} /\ Awaited \in killed
  BY DEF StopInv, MembersTyped, KernelAgrees, Forget
<1>2. CASE step = "kill"
  <2>1. step \in RecorderSteps /\ GiveUpRecorder(child) /\ Awaited = recording_pid
    BY <1>2 DEF Forget, RecorderSteps, Awaited
  <2> QED BY <1>1, <2>1, GiveUpSafe
<1>3. CASE step = "conv_kill"
  <2>1. Finish(child) /\ Awaited = ssh_conversion_pid /\ recording_pid = NoPid
    BY <1>3 DEF Forget, Awaited, StopInv, MembersAgree, ConversionSteps
  <2>2. \A p \in Pids : child[p] \in Running => p \in killed' \cup orphans
    BY <1>1, <2>1, PidAssumption DEF StopInv, KernelAgrees, ForgottenIsDoomed
  <2> QED BY <1>1, <1>3, <2>1, <2>2, FinishSafe
<1> QED BY <1>1, <1>2, <1>3

LEMMA DestroyConversionSafe ==
  ASSUME StopInv, DestroyConversion
  PROVE  StopInv'
<1>1. /\ step = "idle" /\ step' = "conv_term" /\ ~is_recording /\ ssh_conversion_pid # NoPid
      /\ UNCHANGED <<memberVars, automatic_update_map, kernelVars, pid, allow_conversion, lifeVars>>
  BY DEF DestroyConversion, WaitFor
<1>2. MembersTyped'
  BY <1>1 DEF memberVars, kernelVars, lifeVars, StopInv, MembersTyped, Steps, Running, Zombie
<1>3. MembersAgree'
  BY <1>1 DEF memberVars, StopInv, MembersAgree, RecorderSteps, ConversionSteps
<1> QED BY <1>1, <1>2, <1>3, WaitSafe DEF memberVars, kernelVars, lifeVars

LEMMA GoneSafe ==
  ASSUME StopInv, NodeGone
  PROVE  StopInv'
<1>1. /\ child' = [p \in Pids |-> IF p \in Left THEN child[p] ELSE "none"]
      /\ killed' = killed \cap Left /\ step' = "idle" /\ pid' = NoPid /\ life' = "dead"
      /\ signal' = "SIGINT" /\ orphans' = Left
      /\ allow_conversion' = FALSE /\ caught' = "idle" /\ UNCHANGED <<automatic_update_map, stuck>>
      /\ is_recording' = FALSE /\ recording_pid' = NoPid /\ current_bag_name' = ""
      /\ ssh_conversion_pid' = NoPid
  BY DEF NodeGone, MembersFresh, WaitFor
<1>2. Left \subseteq Pids /\ \A p \in Left : child[p] \in Running
  BY DEF Left
<1>3. MembersTyped'
  BY <1>1, <1>2 DEF StopInv, MembersTyped, Steps, Running, Zombie
<1>4. MembersAgree'
  BY <1>1 DEF MembersAgree, RecorderSteps, ConversionSteps
<1>5. KernelAgrees'
  BY <1>1, <1>2, PidAssumption DEF KernelAgrees, ForgottenIsDoomed, Running
<1> QED BY <1>3, <1>4, <1>5 DEF StopInv

LEMMA ExitsSafe ==
  ASSUME StopInv, NEW p \in Pids, ChildExits(p)
  PROVE  StopInv'
<1>1. /\ child[p] \in Running
      /\ child' = [child EXCEPT ![p] =
                     IF p \in orphans THEN "none"
                     ELSE IF child[p] = "recorder" THEN "recorder_exited"
                     ELSE "conversion_exited"]
      /\ orphans' = orphans \ {p}
      /\ killed' = IF p \in orphans THEN killed \ {p} ELSE killed
      /\ UNCHANGED <<memberVars, automatic_update_map, stuck, waitVars, life, dying, signal,
                     caught>>
  BY DEF ChildExits
<1>2. /\ child'[p] \notin Running
      /\ \A q \in Pids \ {p} : child'[q] = child[q]
      /\ p \notin orphans => child'[p] = IF child[p] = "recorder" THEN "recorder_exited"
                                         ELSE "conversion_exited"
  BY <1>1 DEF StopInv, MembersTyped, Running
<1>3. MembersTyped'
  <2>1. child' \in [Pids -> {"none"} \cup Running \cup Zombie]
    BY <1>1 DEF StopInv, MembersTyped, Zombie
  <2>2. killed' \subseteq Pids /\ orphans' \subseteq Pids
    BY <1>1 DEF StopInv, MembersTyped
  <2> QED BY <1>1, <2>1, <2>2 DEF memberVars, waitVars, StopInv, MembersTyped, Steps, Running, Zombie
<1>4. MembersAgree'
  BY <1>1 DEF memberVars, waitVars, StopInv, MembersAgree, RecorderSteps, ConversionSteps
<1>5. UNCHANGED <<step, recording_pid, ssh_conversion_pid>> /\ Awaited' = Awaited
  BY <1>1 DEF memberVars, waitVars, Awaited
<1>6. p \in orphans => p \notin {recording_pid, ssh_conversion_pid}
  BY DEF StopInv, KernelAgrees
<1>7. /\ recording_pid' # NoPid => child'[recording_pid'] \in {"recorder", "recorder_exited"}
      /\ ssh_conversion_pid' # NoPid =>
           child'[ssh_conversion_pid'] \in {"conversion", "conversion_exited"}
  BY <1>2, <1>5, <1>6, <1>1 DEF StopInv, MembersTyped, KernelAgrees, Running
<1>8. \A q \in orphans' : child'[q] \in Running' /\ q \notin {recording_pid, ssh_conversion_pid}'
  BY <1>1, <1>2, <1>5 DEF StopInv, MembersTyped, KernelAgrees, Running
<1>9. step' \in {"kill", "conv_kill"} => Awaited' \in killed'
  BY <1>1, <1>5, <1>6, AwaitsChild DEF StopInv, KernelAgrees
<1>10. ForgottenIsDoomed'
  BY <1>1, <1>2, <1>5 DEF StopInv, KernelAgrees, ForgottenIsDoomed, Running
<1> QED BY <1>3, <1>4, <1>7, <1>8, <1>9, <1>10 DEF StopInv, KernelAgrees

(* Nothing but a clock, a block or the node's life changes.                *)
LEMMA WorldSafe ==
  ASSUME StopInv,
         \/ \E p \in Pids : Blocks(p) \/ Unblocks(p)
         \/ Tick \/ Shutdown \/ SpinReturns \/ Restart
         \/ LaunchTerminates /\ life = "closing"
  PROVE  StopInv'
<1>1. /\ UNCHANGED <<memberVars, automatic_update_map, child, killed, orphans, step, pid,
                     allow_conversion>>
      /\ stuck' \subseteq Pids
  BY DEF Blocks, Unblocks, Tick, Shutdown, SpinReturns, Restart, LaunchTerminates, kernelVars,
     waitVars, lifeVars, StopInv, MembersTyped
<1>2. MembersTyped'
  BY <1>1 DEF memberVars, StopInv, MembersTyped, Steps, Running, Zombie
<1>3. MembersAgree'
  BY <1>1 DEF memberVars, StopInv, MembersAgree, RecorderSteps, ConversionSteps
<1>4. step' \in {"kill", "conv_kill"} => Awaited' \in killed'
  BY <1>1 DEF memberVars, Awaited, StopInv, KernelAgrees
<1> QED BY <1>1, <1>2, <1>3, <1>4, WaitSafe

LEMMA StopInvStep ==
  ASSUME StopInv, [StopNext]_stopVars
  PROVE  StopInv'
<1>1. CASE Serving /\ StartRecording
  BY <1>1, StartSafe
<1>2. CASE Serving /\ \E conversion \in BOOLEAN : BeginStop(conversion)
  BY <1>2, BeginSafe DEF Serving
<1>3. CASE ThreadStep
  BY <1>3, ReapSafe, SignalSafe, ForgetSafe, BeginSafe, DestroyConversionSafe, GoneSafe, WorldSafe
     DEF ThreadStep, DestroyRecorder, Exit
<1>4. CASE WorldStep
  BY <1>4, ExitsSafe, WorldSafe, GoneSafe DEF WorldStep, LaunchTerminates, LaunchKills
<1>5. CASE UNCHANGED stopVars
  BY <1>5, StutterSafe
<1> QED BY <1>1, <1>2, <1>3, <1>4, <1>5 DEF StopNext

LEMMA Inductive == StopSpec => []StopInv
<1>1. StopInv /\ [StopNext]_stopVars => StopInv'
  BY StopInvStep
<1> QED BY <1>1, StopInitial, PTL DEF StopSpec

(* A running child the node no longer knows of was sent SIGKILL, or the    *)
(* node was killed before it: for any pids and any number of stops.        *)
THEOREM Doomed == StopSpec => []ForgottenIsDoomed
<1>1. StopInv => ForgottenIsDoomed
  BY DEF StopInv, KernelAgrees
<1> QED BY <1>1, Inductive, PTL

(* A stop signals and waits for a child of the node of the right kind, not *)
(* for a pid that has been reaped and may be another process's by now.     *)
THEOREM OwnChildSignalled == StopSpec => []SignalsOwnChild
<1>1. StopInv => SignalsOwnChild
  BY DEF StopInv, MembersAgree, KernelAgrees, SignalsOwnChild, RecorderSteps, ConversionSteps
<1> QED BY <1>1, Inductive, PTL

-------------------------------------------------------------------------------
(* The clocks. *)

ClocksBounded ==
  /\ waited \in Nat /\ waited <= Patience(step)
  /\ dying \in Nat /\ dying <= sigterm_timeout + sigkill_timeout

LifeTyped ==
  /\ life \in {"running", "closing", "destroying", "dead"}
  /\ signal \in {"SIGINT", "SIGTERM"}
  /\ caught \in {"idle", "stop", "both"}

LEMMA LifeStep ==
  ASSUME LifeTyped, [StopNext]_stopVars
  PROVE  LifeTyped'
<1> USE DEF stopVars, lifeVars, LifeTyped
<1>1. CASE UNCHANGED lifeVars
  BY <1>1
<1>2. CASE Tick \/ Shutdown \/ SpinReturns \/ Restart
  BY <1>2 DEF Tick, Shutdown, SpinReturns, Restart
<1>3. CASE NodeGone
  BY <1>3 DEF NodeGone
<1>4. CASE LaunchTerminates
  BY <1>4, <1>3 DEF LaunchTerminates
<1>5. CASE \E p \in Pids : ChildExits(p) \/ Blocks(p) \/ Unblocks(p)
  BY <1>5 DEF ChildExits, Blocks, Unblocks
<1>6. CASE \/ Serving /\ (StartRecording \/ \E c \in BOOLEAN : BeginStop(c))
           \/ ChildReaped \/ SignalHarder \/ Forget \/ DestroyRecorder \/ DestroyConversion
  BY <1>1, <1>6 DEF StartRecording, BeginStop, ChildReaped, SignalHarder, Forget, DestroyRecorder,
     DestroyConversion
<1> QED BY <1>1, <1>2, <1>3, <1>4, <1>5, <1>6
        DEF StopNext, ThreadStep, WorldStep, Exit, LaunchKills

LEMMA Life == StopSpec => []LifeTyped
<1>1. StopInit => LifeTyped
  BY DEF StopInit, LifeTyped
<1> QED BY <1>1, LifeStep, PTL DEF StopSpec

LEMMA PatienceBounded == Patience(step) \in 1 .. 3
BY DEF Patience

(* A step starts a wait or ends it, lets a second pass, or touches no      *)
(* clock.                                                                  *)
LEMMA ClockStep ==
  ASSUME [StopNext]_stopVars
  PROVE  \/ waited' = 0 /\ dying' \in {dying, 0}
         \/ UNCHANGED <<step, waited, dying>>
         \/ Tick
<1> USE DEF stopVars, waitVars, lifeVars, WaitFor, Return
<1>1. CASE (Serving /\ StartRecording) \/ UNCHANGED stopVars
  BY <1>1 DEF StartRecording
<1>2. ASSUME NEW c \in BOOLEAN, BeginStop(c)
      PROVE  (waited' = 0 /\ dying' = dying) \/ UNCHANGED <<step, waited, dying>>
  BY <1>2 DEF BeginStop
<1>3. CASE ChildReaped
  BY <1>3 DEF ChildReaped, GiveUpRecorder, Finish
<1>4. CASE SignalHarder \/ DestroyConversion
  BY <1>4 DEF SignalHarder, DestroyConversion
<1>5. CASE Forget
  BY <1>5 DEF Forget, GiveUpRecorder, Finish
<1>6. CASE Exit \/ LaunchTerminates \/ LaunchKills
  BY <1>6 DEF Exit, LaunchTerminates, LaunchKills, NodeGone
<1>7. CASE Shutdown \/ SpinReturns \/ Restart
  BY <1>7 DEF Shutdown, SpinReturns, Restart
<1>8. CASE \E p \in Pids : ChildExits(p) \/ Blocks(p) \/ Unblocks(p)
  BY <1>8 DEF ChildExits, Blocks, Unblocks
<1> QED BY <1>1, <1>2, <1>3, <1>4, <1>5, <1>6, <1>7, <1>8
        DEF StopNext, ThreadStep, WorldStep, DestroyRecorder

LEMMA ClocksStep ==
  ASSUME ClocksBounded, [StopNext]_stopVars
  PROVE  ClocksBounded'
<1> DEFINE patience == Patience(step)
<1>1. patience \in Nat /\ patience' \in Nat
  BY PatienceBounded DEF Patience
<1>2. CASE waited' = 0 /\ dying' \in {dying, 0}
  BY <1>1, <1>2, GraceAssumption DEF ClocksBounded
<1>3. CASE UNCHANGED <<step, waited, dying>>
  BY <1>3 DEF ClocksBounded, Patience
<1>4. CASE Tick
  <2>0. Due \in Nat /\ Due <= sigterm_timeout + sigkill_timeout
    BY GraceAssumption DEF Due
  <2>1. /\ step' = step /\ waited < patience /\ dying < Due
        /\ waited' = waited + 1 /\ dying' \in {dying, dying + 1}
    BY <1>4 DEF Tick
  <2>2. patience' = patience
    BY <2>1 DEF Patience
  <2> HIDE DEF patience
  <2>3. waited' \in Nat /\ waited' <= patience'
    BY <1>1, <2>1, <2>2 DEF ClocksBounded, patience
  <2>4. dying' \in Nat /\ dying' <= sigterm_timeout + sigkill_timeout
    BY <2>0, <2>1, GraceAssumption DEF ClocksBounded
  <2> QED BY <2>1, <2>3, <2>4 DEF ClocksBounded, patience
<1> QED BY <1>2, <1>3, <1>4, ClockStep

LEMMA Clocks == StopSpec => []ClocksBounded
<1>1. StopInit => waited = 0 /\ dying = 0
  BY DEF StopInit
<1>2. waited = 0 /\ dying = 0 => ClocksBounded
  BY PatienceBounded, GraceAssumption DEF ClocksBounded
<1>3. ClocksBounded /\ [StopNext]_stopVars => ClocksBounded'
  BY ClocksStep
<1> QED BY <1>1, <1>2, <1>3, PTL DEF StopSpec

(* The members, the children and the clocks keep their types.              *)
THEOREM StopTypeCorrect == StopSpec => []StopTypeOK
<1>1. StopInv /\ LifeTyped /\ ClocksBounded => StopTypeOK
  <2> SUFFICES ASSUME StopInv, LifeTyped, ClocksBounded PROVE StopTypeOK
    OBVIOUS
  <2>1. waited \in 0 .. 3
    BY PatienceBounded DEF ClocksBounded
  <2>2. dying \in 0 .. sigterm_timeout + sigkill_timeout
    BY GraceAssumption DEF ClocksBounded
  <2> QED BY <2>1, <2>2 DEF StopInv, MembersTyped, LifeTyped, StopTypeOK
<1> QED BY <1>1, Inductive, Life, Clocks, PTL

-------------------------------------------------------------------------------
(* How long after SIGINT the destructor's one stop can be in each wait.    *)

SecondsBefore(s) == CASE s = "term" -> 3 [] s = "kill" -> 5 [] s = "conv_kill" -> 2
                      [] OTHER -> 0

OneChildLeft ==
  /\ ~allow_conversion
  /\ pid = NoPid
  /\ is_recording => ssh_conversion_pid = NoPid
  /\ step = "idle" => dying = 0 \/ {recording_pid, ssh_conversion_pid} = {NoPid}
  /\ step # "idle" => dying = SecondsBefore(step) + waited

InTime ==
  /\ ~Leaving => dying = 0 /\ signal = "SIGINT"
  /\ caught = "idle" => signal = "SIGINT"
  /\ life = "closing" /\ caught = "idle" => step = "idle" /\ dying = 0
  /\ Leaving /\ caught = "idle" => OneChildLeft

(* The stop of the only child ends: nothing is left to stop.               *)
LEMMA LastStopEnds ==
  ASSUME StopInv, OneChildLeft, ChildReaped \/ Forget
  PROVE  OneChildLeft'
<1>1. PICK table : IF step \in RecorderSteps THEN GiveUpRecorder(table) ELSE Finish(table)
  BY DEF ChildReaped, Forget, RecorderSteps
<1>2. step \in RecorderSteps => ssh_conversion_pid = NoPid
  BY DEF StopInv, MembersAgree, OneChildLeft
<1>3. Finish(table)
  BY <1>1, <1>2 DEF GiveUpRecorder
<1>4. /\ step' = "idle" /\ pid' = NoPid /\ allow_conversion' = FALSE /\ is_recording' = FALSE
      /\ recording_pid' = NoPid /\ ssh_conversion_pid' = NoPid
  BY <1>3 DEF Finish, Return, WaitFor, ForgetRecorder, OneChildLeft
<1> QED BY <1>4 DEF OneChildLeft

LEMMA InTimeStep ==
  ASSUME StopInv, ClocksBounded, InTime, [StopNext]_stopVars
  PROVE  InTime'
<1> USE DEF stopVars, memberVars, kernelVars, waitVars, lifeVars, Leaving
<1>1. CASE UNCHANGED <<memberVars, waitVars, life, dying, signal, caught>>
  BY <1>1 DEF InTime, OneChildLeft, SecondsBefore
<1>2. CASE life = "running" /\ UNCHANGED <<life, dying, signal, caught>>
  BY <1>2 DEF InTime
<1>3. CASE DestroyRecorder
  <2>1. /\ life = "destroying" /\ step = "idle" /\ recording_pid # NoPid
        /\ step' = "int" /\ waited' = 0 /\ allow_conversion' = FALSE
        /\ UNCHANGED <<memberVars, pid, lifeVars>>
    BY <1>3 DEF DestroyRecorder, BeginStop, WaitFor, StopInv, MembersAgree
  <2>2. OneChildLeft => OneChildLeft'
    BY <2>1 DEF OneChildLeft, SecondsBefore
  <2> QED BY <2>1, <2>2 DEF InTime
<1>4. CASE DestroyConversion
  <2>1. /\ life = "destroying" /\ step = "idle" /\ ssh_conversion_pid # NoPid
        /\ step' = "conv_term" /\ waited' = 0
        /\ UNCHANGED <<memberVars, pid, allow_conversion, lifeVars>>
    BY <1>4 DEF DestroyConversion, WaitFor
  <2>2. OneChildLeft => OneChildLeft'
    BY <2>1 DEF OneChildLeft, SecondsBefore
  <2> QED BY <2>1, <2>2 DEF InTime
<1>5. CASE ChildReaped \/ Forget
  <2>1. UNCHANGED lifeVars /\ step # "idle"
    BY <1>5 DEF ChildReaped, Forget
  <2> QED BY <1>5, <2>1, LastStopEnds DEF InTime
<1>6. CASE SignalHarder
  <2>1. /\ UNCHANGED <<memberVars, pid, allow_conversion, lifeVars>>
        /\ waited = Patience(step) /\ waited' = 0
        /\ \/ step = "int" /\ step' = "term"
           \/ step = "term" /\ step' = "kill"
           \/ step = "conv_term" /\ step' = "conv_kill"
    BY <1>6 DEF SignalHarder, WaitFor
  <2>2. OneChildLeft => OneChildLeft'
    BY <2>1 DEF OneChildLeft, SecondsBefore, Patience
  <2> QED BY <2>1, <2>2 DEF InTime
<1>7. CASE Tick
  <2>1. /\ UNCHANGED <<memberVars, step, pid, allow_conversion, life, caught>>
        /\ step # "idle" /\ waited' = waited + 1
        /\ dying' = IF Leaving THEN dying + 1 ELSE dying
        /\ signal' = signal
    BY <1>7 DEF Tick
  <2>2. SecondsBefore(step) \in Nat /\ waited \in Nat /\ SecondsBefore(step)' = SecondsBefore(step)
    BY <2>1 DEF SecondsBefore, ClocksBounded
  <2>3. Leaving /\ OneChildLeft => OneChildLeft'
    <3> SUFFICES ASSUME Leaving, OneChildLeft PROVE OneChildLeft'
      OBVIOUS
    <3>1. dying' = SecondsBefore(step)' + waited'
      BY <2>1, <2>2 DEF OneChildLeft
    <3> QED BY <2>1, <3>1 DEF OneChildLeft
  <2> QED BY <2>1, <2>3 DEF InTime
<1>8. CASE Shutdown
  <2>1. /\ life = "running" /\ UNCHANGED <<memberVars, waitVars, dying, signal>>
        /\ caught' = "idle" => step = "idle" /\ ~(is_recording /\ ssh_conversion_pid # NoPid)
    BY <1>8 DEF Shutdown
  <2>2. step = "idle" => ~allow_conversion /\ pid = NoPid
    BY DEF StopInv, MembersTyped, MembersAgree, RecorderSteps, ConversionSteps
  <2>3. caught' = "idle" => OneChildLeft'
    BY <2>1, <2>2 DEF InTime, OneChildLeft
  <2> QED BY <2>1, <2>3, <1>8 DEF InTime, Shutdown
<1>9. CASE NodeGone
  BY <1>9 DEF NodeGone, InTime
<1>13. CASE SpinReturns
  BY <1>13 DEF SpinReturns, InTime, OneChildLeft, SecondsBefore
<1>14. CASE LaunchTerminates /\ life = "closing"
  <2>1. /\ UNCHANGED <<memberVars, waitVars, life, dying, caught>>
        /\ dying = sigterm_timeout
    BY <1>14 DEF LaunchTerminates, Due, NodeGone
  <2>2. dying # 0
    BY <2>1, GraceAssumption
  <2> QED BY <1>14, <2>1, <2>2 DEF InTime
<1>10. CASE Restart
  BY <1>10 DEF Restart, InTime
<1>11. CASE Serving /\ (StartRecording \/ \E c \in BOOLEAN : BeginStop(c))
  BY <1>2, <1>11 DEF Serving, StartRecording, BeginStop
<1>12. CASE \E p \in Pids : ChildExits(p) \/ Blocks(p) \/ Unblocks(p)
  BY <1>1, <1>12 DEF ChildExits, Blocks, Unblocks
<1> QED BY <1>1, <1>3, <1>4, <1>5, <1>6, <1>7, <1>8, <1>9, <1>10, <1>11, <1>12,
          <1>13, <1>14
        DEF StopNext, ThreadStep, WorldStep, Exit, LaunchTerminates, LaunchKills

LEMMA Timing == StopSpec => []InTime
<1>1. StopInit => InTime
  BY DEF StopInit, InTime, Leaving
<1>2. StopInv /\ ClocksBounded /\ InTime /\ [StopNext]_stopVars => InTime'
  BY InTimeStep
<1> QED BY <1>1, <1>2, Inductive, Clocks, PTL DEF StopSpec

(* If launch waits five seconds or more with SIGTERM, a node that dies of  *)
(* it or of SIGKILL, met by SIGINT between two callbacks and with one      *)
(* child, leaves no child but a recorder that has sat out both signals.    *)
THEOREM FiveSecondsSuffice ==
  ASSUME sigterm_timeout >= 5
  PROVE  StopSpec => KilledOnlyIfDeaf
<1>1. ASSUME StopInv, ClocksBounded, InTime, StopNext,
             life # "dead", life' = "dead", {recording_pid, ssh_conversion_pid} # {NoPid},
             caught = "idle"
      PROVE  is_recording /\ Deaf
  <2>1. Exit \/ LaunchTerminates \/ LaunchKills
    BY <1>1 DEF StopNext, ThreadStep, WorldStep, StartRecording, BeginStop, ChildReaped,
       SignalHarder, Forget, SpinReturns, DestroyRecorder, DestroyConversion, ChildExits, Blocks,
       Unblocks, Tick, Shutdown, Restart, stopVars, lifeVars
  <2>2. ~Exit
    BY <1>1 DEF Exit, StopInv, MembersAgree
  <2>3. life = "destroying" /\ dying = sigterm_timeout
    BY <1>1, <2>1, <2>2 DEF LaunchTerminates, LaunchKills, Due, Leaving, InTime
  <2>4. dying >= 5 /\ OneChildLeft
    BY <1>1, <2>3, GraceAssumption DEF InTime, Leaving
  <2>5. step # "idle" /\ SecondsBefore(step) + waited >= 5
    BY <1>1, <2>3, <2>4, GraceAssumption DEF OneChildLeft
  <2>6. waited \in Nat /\ waited <= Patience(step)
    BY <1>1 DEF ClocksBounded
  <2>7. step \in {"int", "term", "kill", "conv_term", "conv_kill"}
    BY <1>1, <2>5 DEF StopInv, MembersTyped, Steps
  <2>8. Deaf
    BY <2>5, <2>6, <2>7 DEF SecondsBefore, Patience, Deaf
  <2> QED BY <1>1, <2>8 DEF Deaf, StopInv, MembersAgree, RecorderSteps
<1>2. StopInv /\ ClocksBounded /\ InTime /\ [StopNext]_stopVars =>
        [(/\ life # "dead" /\ life' = "dead"
          /\ {recording_pid, ssh_conversion_pid} # {NoPid}
          /\ caught = "idle") => is_recording /\ Deaf]_stopVars
  BY <1>1
<1> QED BY <1>2, Inductive, Clocks, Timing, PTL DEF StopSpec, KilledOnlyIfDeaf

-------------------------------------------------------------------------------
(* Every step is one of BagRecorder, or none.                              *)

RecordingSeen == is_recording \/ pid # NoPid
PidSeen  == IF pid # NoPid THEN pid ELSE recording_pid
ProcSeen == [p \in Pids |->
               IF p = pid THEN "recorder_exited"
               ELSE IF p \in {recording_pid, ssh_conversion_pid} THEN child[p]
               ELSE "none"]
Seen == <<RecordingSeen, PidSeen, current_bag_name, ssh_conversion_pid, ProcSeen>>

Forked(table, p, what) == [table EXCEPT ![p] = what]
Gone == [p \in Pids |-> "none"]

(* BagRecorder's actions in these terms. *)
LEMMA SeenStart ==
  ASSUME ~RecordingSeen, PidSeen = NoPid, current_bag_name' = "nav_bag",
         UNCHANGED ssh_conversion_pid,
         \/ UNCHANGED <<RecordingSeen, PidSeen, ProcSeen>>
         \/ \E p \in Pids : /\ ProcSeen[p] = "none"
                            /\ ProcSeen' = Forked(ProcSeen, p, "recorder")
                            /\ PidSeen' = p /\ RecordingSeen'
  PROVE  Recorder!BagNext
BY DEF Recorder!BagNext, Recorder!StartBagRecord, Recorder!FreePids, RecordingSeen, PidSeen,
   ProcSeen, Forked

LEMMA SeenStop ==
  ASSUME RecordingSeen, PidSeen # NoPid, current_bag_name = "nav_bag",
         \A p \in Pids \ {PidSeen, ssh_conversion_pid} : ProcSeen[p] = "none",
         ~RecordingSeen', PidSeen' = NoPid, current_bag_name' = "",
         \/ ProcSeen' = Gone /\ ssh_conversion_pid' = NoPid
         \/ /\ allow_conversion = TRUE
            /\ \E p \in Pids : /\ ProcSeen' = Forked(Gone, p, "conversion")
                               /\ ssh_conversion_pid' = p
  PROVE  Recorder!BagNext
<1> DEFINE reaped == Recorder!Reap(ProcSeen, Recorder!StoppedChildren)
<1>1. Recorder!StoppedChildren = {PidSeen, ssh_conversion_pid}
  BY DEF Recorder!StoppedChildren, PidSeen
<1>2. reaped = Gone
  BY <1>1 DEF Recorder!Reap, Gone
<1>3. \A p \in Pids : p \in Recorder!FreePids(Gone)
  BY DEF Recorder!FreePids, Gone
<1>4. \/ ProcSeen' = reaped /\ ssh_conversion_pid' = NoPid
      \/ /\ allow_conversion = TRUE
         /\ \E p \in Recorder!FreePids(reaped) : /\ ProcSeen' = [reaped EXCEPT ![p] = "conversion"]
                                                 /\ ssh_conversion_pid' = p
  BY <1>2, <1>3 DEF Forked
<1>5. \E convert \in BOOLEAN : Recorder!AfterStop(reaped, convert)
  <2>1. CASE ProcSeen' = reaped /\ ssh_conversion_pid' = NoPid
    BY <2>1 DEF Recorder!AfterStop, ProcSeen
  <2>2. CASE \E p \in Recorder!FreePids(reaped) : /\ ProcSeen' = [reaped EXCEPT ![p] = "conversion"]
                                                  /\ ssh_conversion_pid' = p
    <3>1. Recorder!AfterStop(reaped, TRUE)
      BY <2>2 DEF Recorder!AfterStop, ProcSeen
    <3> QED BY <3>1
  <2> QED BY <1>4, <2>1, <2>2
<1>6. reaped = Recorder!Reap([p \in Pids |->
               IF p = pid THEN "recorder_exited"
               ELSE IF p \in {recording_pid, ssh_conversion_pid} THEN child[p]
               ELSE "none"], Recorder!StoppedChildren)
  BY DEF ProcSeen
<1> QED BY <1>5, <1>6 DEF Recorder!BagNext, Recorder!StopBagRecord, RecordingSeen, PidSeen

LEMMA SeenDestroy ==
  ASSUME PidSeen # NoPid => RecordingSeen /\ current_bag_name = "nav_bag",
         \A p \in Pids \ {PidSeen, ssh_conversion_pid} : ProcSeen[p] = "none",
         ~RecordingSeen', PidSeen' = NoPid, current_bag_name' = "", ssh_conversion_pid' = NoPid,
         ProcSeen' = Gone
  PROVE  Recorder!BagNext
<1> DEFINE waitedFor == {ssh_conversion_pid} \cup
                        (IF RecordingSeen /\ PidSeen # NoPid /\ current_bag_name # ""
                         THEN {PidSeen} ELSE {})
<1>1. Recorder!Reap(ProcSeen, waitedFor) = Gone
  BY PidAssumption DEF Recorder!Reap, Gone
<1>2. Recorder!DestroyRecorder(TRUE)
  BY <1>1 DEF Recorder!DestroyRecorder, RecordingSeen, PidSeen, ProcSeen
<1> QED BY <1>2 DEF Recorder!BagNext

LEMMA SeenExits ==
  ASSUME NEW p \in Pids, ProcSeen[p] \in Running,
         ProcSeen' = Forked(ProcSeen, p, IF ProcSeen[p] = "recorder" THEN "recorder_exited"
                                         ELSE "conversion_exited"),
         UNCHANGED <<RecordingSeen, PidSeen, current_bag_name, ssh_conversion_pid>>
  PROVE  Recorder!BagNext
<1>1. Recorder!ChildExits(p)
  BY DEF Recorder!ChildExits, Running, Forked, RecordingSeen, PidSeen, ProcSeen
<1> QED BY <1>1 DEF Recorder!BagNext

LEMMA OnlyHeldSeen ==
  ASSUME StopInv
  PROVE  /\ \A p \in Pids \ {PidSeen, ssh_conversion_pid} : ProcSeen[p] = "none"
         /\ PidSeen # NoPid <=> RecordingSeen
         /\ RecordingSeen => current_bag_name = "nav_bag"
         /\ pid = NoPid => \A p \in {recording_pid, ssh_conversion_pid} \ {NoPid} :
                             ProcSeen[p] = child[p]
BY PidAssumption DEF StopInv, MembersTyped, MembersAgree, PidSeen, ProcSeen, RecordingSeen

LEMMA SeenUnchanged ==
  ASSUME UNCHANGED <<memberVars, child, pid>>
  PROVE  UNCHANGED Seen
BY DEF memberVars, Seen, RecordingSeen, PidSeen, ProcSeen

LEMMA StartSeen ==
  ASSUME StopInv, Serving, StartRecording
  PROVE  Recorder!BagNext \/ UNCHANGED Seen
<1> USE DEF memberVars
<1>0. pid = NoPid
  BY DEF Serving, StopInv, MembersAgree, ConversionSteps
<1>1. CASE UNCHANGED stopVars
  BY <1>1, SeenUnchanged DEF stopVars, kernelVars, waitVars
<1>2. CASE ~(is_recording \/ recording_pid # NoPid)
  <2>1. /\ current_bag_name' = "nav_bag" /\ UNCHANGED <<ssh_conversion_pid, pid>>
        /\ ~RecordingSeen /\ PidSeen = NoPid
    BY <1>0, <1>2 DEF StartRecording, waitVars, RecordingSeen, PidSeen
  <2>2. CASE UNCHANGED <<is_recording, recording_pid, child>>
    <3>1. UNCHANGED <<RecordingSeen, PidSeen, ProcSeen>>
      BY <2>1, <2>2 DEF RecordingSeen, PidSeen, ProcSeen
    <3> QED BY <2>1, <3>1, SeenStart
  <2>3. ASSUME NEW p \in FreePids(child), child' = [child EXCEPT ![p] = "recorder"],
               recording_pid' = p, is_recording' = TRUE
        PROVE  Recorder!BagNext
    <3>1. p \in Pids /\ child[p] = "none" /\ p # NoPid
      BY PidAssumption DEF FreePids
    <3>2. ssh_conversion_pid # p
      BY <3>1 DEF StopInv, KernelAgrees
    <3>3. ProcSeen[p] = "none"
      BY <1>0, <1>2, <3>1, <3>2, PidAssumption DEF ProcSeen
    <3>4. ProcSeen' = Forked(ProcSeen, p, "recorder")
      BY <1>0, <1>2, <2>1, <2>3, <3>1, <3>2, PidAssumption DEF ProcSeen, Forked, StopInv, MembersTyped
    <3>5. PidSeen' = p /\ RecordingSeen'
      BY <1>0, <2>1, <2>3 DEF PidSeen, RecordingSeen
    <3> QED BY <2>1, <3>1, <3>3, <3>4, <3>5, SeenStart
  <2> QED BY <1>2, <2>2, <2>3 DEF StartRecording
<1> QED BY <1>1, <1>2 DEF StartRecording

LEMMA FinishSeen ==
  ASSUME StopInv, step # "idle", NEW table, DOMAIN table = Pids, Finish(table)
  PROVE  Recorder!BagNext
<1>1. /\ pid' = NoPid /\ is_recording' = FALSE /\ recording_pid' = NoPid
      /\ current_bag_name' = "" /\ ~RecordingSeen' /\ PidSeen' = NoPid
  BY DEF Finish, Return, ForgetRecorder, RecordingSeen, PidSeen
<1>2. CASE ssh_conversion_pid' = NoPid
  <2>1. ProcSeen' = Gone
    BY <1>1, <1>2, PidAssumption DEF ProcSeen, Gone
  <2>2. CASE RecordingSeen
    BY <1>1, <1>2, <2>1, <2>2, OnlyHeldSeen, SeenStop
  <2>3. CASE ~RecordingSeen
    BY <1>1, <1>2, <2>1, <2>3, OnlyHeldSeen, SeenDestroy
  <2> QED BY <2>2, <2>3
<1>3. ASSUME allow_conversion, NEW p \in FreePids(table),
             child' = [table EXCEPT ![p] = "conversion"], ssh_conversion_pid' = p
      PROVE  Recorder!BagNext
  <2>1. p \in Pids /\ p # NoPid
    BY PidAssumption DEF FreePids
  <2>2. child'[p] = "conversion"
    BY <1>3, <2>1
  <2>3. ProcSeen' = Forked(Gone, p, "conversion")
    BY <1>1, <1>3, <2>1, <2>2, PidAssumption DEF ProcSeen, Gone, Forked
  <2>4. RecordingSeen /\ allow_conversion = TRUE
    BY <1>3 DEF StopInv, MembersTyped, MembersAgree, RecordingSeen
  <2> QED BY <1>1, <1>3, <2>1, <2>3, <2>4, OnlyHeldSeen, SeenStop
<1> QED BY <1>2, <1>3 DEF Finish

LEMMA GiveUpSeen ==
  ASSUME StopInv, step \in RecorderSteps, NEW table, DOMAIN table = Pids,
         \A p \in Pids \ {recording_pid} : table[p] = child[p],
         GiveUpRecorder(table)
  PROVE  Recorder!BagNext \/ UNCHANGED Seen
<1>0. step # "idle" /\ is_recording /\ recording_pid \in Pids /\ recording_pid # NoPid /\ pid = NoPid
  BY DEF StopInv, MembersTyped, MembersAgree, RecorderSteps, ConversionSteps
<1>1. CASE Finish(table)
  BY <1>0, <1>1, FinishSeen
<1>2. CASE ssh_conversion_pid # NoPid /\ ~Finish(table)
  <2>1. /\ child' = table /\ recording_pid' = NoPid /\ pid' = recording_pid
        /\ UNCHANGED <<current_bag_name, ssh_conversion_pid>>
    BY <1>2 DEF GiveUpRecorder, ForgetRecorder
  <2>2. UNCHANGED <<RecordingSeen, PidSeen>>
    BY <1>0, <2>1 DEF RecordingSeen, PidSeen, GiveUpRecorder, ForgetRecorder
  <2>3. /\ child[recording_pid] \in {"recorder", "recorder_exited"}
        /\ recording_pid # ssh_conversion_pid
    BY <1>0, <1>2 DEF StopInv, KernelAgrees
  <2>4. ProcSeen' = Forked(ProcSeen, recording_pid, "recorder_exited")
    BY <1>0, <1>2, <2>1, <2>3, PidAssumption DEF ProcSeen, Forked, StopInv, MembersTyped
  <2>5. ProcSeen[recording_pid] = child[recording_pid] /\ DOMAIN ProcSeen = Pids
    BY <1>0, PidAssumption DEF ProcSeen
  <2>6. CASE child[recording_pid] = "recorder"
    <3>1. ProcSeen[recording_pid] = "recorder" /\ "recorder" \in Running
      BY <2>5, <2>6 DEF Running
    <3> QED BY <1>0, <2>1, <2>2, <2>4, <3>1, SeenExits
  <2>7. CASE child[recording_pid] = "recorder_exited"
    <3>1. ProcSeen' = ProcSeen
      BY <1>0, <2>4, <2>5, <2>7 DEF Forked, ProcSeen
    <3> QED BY <2>1, <2>2, <3>1 DEF Seen
  <2> QED BY <2>3, <2>6, <2>7
<1> QED BY <1>1, <1>2 DEF GiveUpRecorder

LEMMA ExitsSeen ==
  ASSUME StopInv, NEW p \in Pids, ChildExits(p)
  PROVE  Recorder!BagNext \/ UNCHANGED Seen
<1>1. /\ child[p] \in Running
      /\ child' = [child EXCEPT ![p] =
                     IF p \in orphans THEN "none"
                     ELSE IF child[p] = "recorder" THEN "recorder_exited"
                     ELSE "conversion_exited"]
      /\ UNCHANGED <<is_recording, recording_pid, current_bag_name, ssh_conversion_pid, pid>>
  BY DEF ChildExits, memberVars, waitVars
<1>2. UNCHANGED <<RecordingSeen, PidSeen>>
  BY <1>1 DEF RecordingSeen, PidSeen
<1>3. CASE p # pid /\ p \in {recording_pid, ssh_conversion_pid}
  <2>1. p \notin orphans
    BY <1>3 DEF StopInv, KernelAgrees
  <2>2. ProcSeen[p] = child[p]
    BY <1>3 DEF ProcSeen
  <2>3. ProcSeen' = Forked(ProcSeen, p, IF ProcSeen[p] = "recorder" THEN "recorder_exited"
                                        ELSE "conversion_exited")
    BY <1>1, <1>3, <2>1, <2>2 DEF ProcSeen, Forked, StopInv, MembersTyped
  <2> QED BY <1>1, <1>2, <2>2, <2>3, SeenExits
<1>4. CASE ~(p # pid /\ p \in {recording_pid, ssh_conversion_pid})
  <2>1. ProcSeen' = ProcSeen
    BY <1>1, <1>4 DEF ProcSeen, StopInv, MembersTyped
  <2> QED BY <1>1, <1>2, <2>1 DEF Seen
<1> QED BY <1>3, <1>4

LEMMA GoneSeen ==
  ASSUME StopInv, NodeGone
  PROVE  Recorder!BagNext
<1>1. /\ pid' = NoPid /\ is_recording' = FALSE /\ recording_pid' = NoPid
      /\ current_bag_name' = "" /\ ssh_conversion_pid' = NoPid
  BY DEF NodeGone, MembersFresh
<1>2. ~RecordingSeen' /\ PidSeen' = NoPid /\ ProcSeen' = Gone
  BY <1>1, PidAssumption DEF RecordingSeen, PidSeen, ProcSeen, Gone
<1> QED BY <1>1, <1>2, OnlyHeldSeen, SeenDestroy

LEMMA StepSeen ==
  ASSUME StopInv, [StopNext]_stopVars
  PROVE  Recorder!BagNext \/ UNCHANGED Seen
<1> USE DEF stopVars, kernelVars, waitVars, lifeVars
<1>0. /\ DOMAIN child = Pids /\ DOMAIN Reaped = Pids
      /\ \A p \in Pids \ {Awaited} : Reaped[p] = child[p]
  BY DEF StopInv, MembersTyped, Reaped
<1>1. CASE Serving /\ StartRecording
  BY <1>1, StartSeen
<1>2. CASE ChildReaped
  <2>1. CASE step \in RecorderSteps
    BY <1>0, <1>2, <2>1, GiveUpSeen DEF ChildReaped, RecorderSteps, Awaited
  <2>2. CASE step \notin RecorderSteps
    BY <1>0, <1>2, <2>2, FinishSeen DEF ChildReaped, RecorderSteps
  <2> QED BY <2>1, <2>2
<1>3. CASE Forget
  <2>1. CASE step = "kill"
    BY <1>0, <1>3, <2>1, GiveUpSeen DEF Forget, RecorderSteps
  <2>2. CASE step = "conv_kill"
    BY <1>0, <1>3, <2>2, FinishSeen DEF Forget
  <2> QED BY <1>3, <2>1, <2>2 DEF Forget
<1>4. CASE NodeGone
  BY <1>4, GoneSeen
<1>5. CASE \E p \in Pids : ChildExits(p)
  BY <1>5, ExitsSeen
<1>6. CASE \/ Serving /\ \E c \in BOOLEAN : BeginStop(c)
           \/ DestroyRecorder \/ DestroyConversion \/ SignalHarder
           \/ \E p \in Pids : Blocks(p) \/ Unblocks(p)
           \/ Tick \/ Shutdown \/ SpinReturns \/ Restart
           \/ LaunchTerminates /\ life = "closing"
           \/ UNCHANGED stopVars
  <2>1. UNCHANGED <<memberVars, child, pid>>
    BY <1>6 DEF BeginStop, DestroyRecorder, DestroyConversion, SignalHarder, Blocks, Unblocks,
       Tick, Shutdown, SpinReturns, Restart, LaunchTerminates, NodeGone
  <2> QED BY <2>1, SeenUnchanged
<1> QED BY <1>1, <1>2, <1>3, <1>4, <1>5, <1>6
        DEF StopNext, ThreadStep, WorldStep, Exit, LaunchTerminates, LaunchKills

(* The stop that signals and waits second by second, that may fail to end  *)
(* a child and that may be cut short by the launch system, does to what    *)
(* the node can see what BagRecorder's one-step stop does.                 *)
THEOREM StopImplementsRecorder == StopSpec => RecorderSpec
<1>1. StopInit => Recorder!BagInit
  <2> SUFFICES ASSUME StopInit PROVE Recorder!BagInit
    OBVIOUS
  <2>1. /\ is_recording = FALSE /\ pid = NoPid /\ recording_pid = NoPid /\ current_bag_name = ""
        /\ ssh_conversion_pid = NoPid
    BY DEF StopInit
  <2> QED BY <2>1, PidAssumption DEF Recorder!BagInit
<1>2. StopInv /\ [StopNext]_stopVars => [Recorder!BagNext]_(Recorder!bagVars)
  <2> SUFFICES ASSUME StopInv, [StopNext]_stopVars
               PROVE  Recorder!BagNext \/ UNCHANGED Recorder!bagVars
    OBVIOUS
  <2>1. CASE UNCHANGED Seen
    BY <2>1 DEF Seen, RecordingSeen, PidSeen, ProcSeen, Recorder!bagVars
  <2> QED BY <2>1, StepSeen
<1> QED BY <1>1, <1>2, Inductive, PTL DEF StopSpec, RecorderSpec, Recorder!BagSpec
===============================================================================
