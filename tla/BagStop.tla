-------------------------------- MODULE BagStop --------------------------------
(***************************************************************************)
(* How robot_agent_node stops its child processes, second by second.       *)
(*                                                                         *)
(* BagRecorder takes a stop as one step; here it is what the only executor *)
(* thread does: it signals a child, polls waitpid every 50 ms until a      *)
(* deadline, and signals harder, while the children run, end, or sleep in  *)
(* the kernel where no signal reaches them, and while the launch system    *)
(* counts down to the SIGTERM and the SIGKILL of the node itself.          *)
(*                                                                         *)
(* Children may end at any time, so SIGINT and SIGTERM change nothing      *)
(* here; SIGKILL ends a child within a second unless it is stuck.          *)
(* Bag recording is enabled.                                               *)
(***************************************************************************)
EXTENDS Integers, FiniteSets

CONSTANTS
  Pids,            \* process ids the kernel hands out
  NoPid,           \* the value -1 of recording_pid_ and ssh_conversion_pid_
  sigterm_timeout, \* seconds from the launch system's SIGINT to its SIGTERM
  sigkill_timeout  \* and on to its SIGKILL

ASSUME PidAssumption == NoPid \notin Pids
ASSUME GraceAssumption == {sigterm_timeout, sigkill_timeout} \subseteq Nat \ {0}

VARIABLES
  is_recording,        \* is_recording_
  recording_pid,       \* recording_pid_
  current_bag_name,    \* current_bag_name_, "" or the name of a bag
  ssh_conversion_pid,  \* ssh_conversion_pid_
  automatic_update_map, \* automatic_update_map_
  child,       \* the kernel's table of the node's children, past and present
  killed,      \* children SIGKILL was sent to
  stuck,       \* children asleep in the kernel, a blocked disk for instance
  step,        \* what the executor thread waits for; "idle" outside a stop
  pid,         \* the recorder a stop has given up or reaped; NoPid otherwise
  allow_conversion,  \* the argument of the stop under way
  waited,      \* seconds of the current wait
  life,        \* of the node: "running", "closing" after SIGINT while a callback
               \* runs, "destroying" in the destructor, or "dead"
  dying,       \* seconds since that SIGINT
  signal,      \* of launch to the node, the last one: "SIGINT" or "SIGTERM"
  caught,      \* what the SIGINT interrupted: "idle", "stop" or "both" children
  orphans      \* children left running when the node was killed

memberVars == <<is_recording, recording_pid, current_bag_name, ssh_conversion_pid>>
kernelVars == <<child, killed, stuck>>
waitVars   == <<step, pid, allow_conversion, waited>>
lifeVars   == <<life, dying, signal, caught, orphans>>
stopVars   == <<memberVars, automatic_update_map, kernelVars, waitVars, lifeVars>>

Running  == {"recorder", "conversion"}
Zombie   == {"recorder_exited", "conversion_exited"}
Steps    == {"idle", "int", "term", "kill", "conv_term", "conv_kill"}

MembersFresh ==
  /\ is_recording' = FALSE
  /\ recording_pid' = NoPid
  /\ current_bag_name' = ""
  /\ ssh_conversion_pid' = NoPid

StopInit ==
  /\ is_recording = FALSE
  /\ recording_pid = NoPid
  /\ current_bag_name = ""
  /\ ssh_conversion_pid = NoPid
  /\ automatic_update_map \in BOOLEAN
  /\ child = [p \in Pids |-> "none"]
  /\ killed = {}
  /\ stuck = {}
  /\ step = "idle"
  /\ pid = NoPid
  /\ allow_conversion = FALSE
  /\ waited = 0
  /\ life = "running"
  /\ dying = 0
  /\ signal = "SIGINT"
  /\ caught = "idle"
  /\ orphans = {}

-------------------------------------------------------------------------------
(* start_ros2_bag_record *)

FreePids(table) == {p \in Pids : table[p] = "none"}

StartRecording ==
  IF is_recording \/ recording_pid # NoPid
  THEN UNCHANGED stopVars
  ELSE /\ current_bag_name' = "nav_bag"
       /\ \/ UNCHANGED <<is_recording, recording_pid, child>>   \* fork() failed
          \/ \E p \in FreePids(child) :
               /\ child' = [child EXCEPT ![p] = "recorder"]
               /\ recording_pid' = p
               /\ is_recording' = TRUE
       /\ UNCHANGED <<ssh_conversion_pid, automatic_update_map, killed, stuck,
                      waitVars, lifeVars>>

-------------------------------------------------------------------------------
(* stop_ros2_bag_record and cleanup_ssh_process *)

(* The thread waits longer after SIGINT. *)
LongPatience(s) == CASE s = "int" -> 5 [] s = "term" -> 2 [] s = "conv_term" -> 2
                     [] OTHER -> 1

Patience(s) == CASE s = "int" -> 3 [] s = "term" -> 2 [] s = "conv_term" -> 2
                 [] OTHER -> 1

WaitFor(s) ==
  /\ step' = s
  /\ waited' = 0

(* The bag's name stays. *)
ReturnWithName ==
  /\ WaitFor("idle")
  /\ pid' = NoPid
  /\ allow_conversion' = FALSE
  /\ UNCHANGED current_bag_name

(* The stop returns to its caller.  (The destructor leaves the bag's name  *)
(* to die with the node.)                                                  *)
Return ==
  /\ WaitFor("idle")
  /\ pid' = NoPid
  /\ allow_conversion' = FALSE
  /\ current_bag_name' = ""

ForgetRecorder ==
  /\ is_recording' = FALSE
  /\ recording_pid' = NoPid

(* Both children are off the books; a conversion is forked if it is wanted. *)
Finish(table) ==
  /\ Return
  /\ ForgetRecorder
  /\ \/ /\ child' = table                          \* not wanted, or fork() failed
        /\ ssh_conversion_pid' = NoPid
     \/ /\ allow_conversion /\ automatic_update_map
        /\ \E p \in FreePids(table) :
             /\ child' = [table EXCEPT ![p] = "conversion"]
             /\ ssh_conversion_pid' = p

(* The recorder is off the books; now the last conversion, if there is one. *)
GiveUpRecorder(table) ==
  \/ ssh_conversion_pid = NoPid /\ Finish(table)
  \/ /\ ssh_conversion_pid # NoPid
     /\ child' = table
     /\ ForgetRecorder
     /\ pid' = recording_pid
     /\ WaitFor("conv_term")
     /\ UNCHANGED <<current_bag_name, ssh_conversion_pid, allow_conversion>>

(* SIGINT is sent and the thread begins to wait.  (The stop's test for an  *)
(* empty bag name never holds: see FlagMatchesPid of BagRecorder.)         *)
BeginStop(conversion) ==
  IF ~is_recording \/ recording_pid = NoPid
  THEN UNCHANGED stopVars
  ELSE /\ WaitFor("int")
       /\ allow_conversion' = conversion
       /\ UNCHANGED <<memberVars, automatic_update_map, kernelVars, pid,
                      lifeVars>>

Awaited == IF step \in {"int", "term", "kill"} THEN recording_pid
           ELSE IF step = "idle" THEN NoPid ELSE ssh_conversion_pid

Reaped == [child EXCEPT ![Awaited] = "none"]

(* waitpid finds the child. *)
ChildReaped ==
  /\ step # "idle"
  /\ child[Awaited] \in Zombie
  /\ IF step \in {"int", "term", "kill"} THEN GiveUpRecorder(Reaped) ELSE Finish(Reaped)
  /\ killed' = killed \ {Awaited}
  /\ UNCHANGED <<automatic_update_map, stuck, lifeVars>>

(* The conversion is never sent SIGKILL. *)
KillsRecorder(s) == s = "kill"

Kills(s) == s \in {"kill", "conv_kill"}

(* The deadline passes; the child may have ended since the last poll. *)
SignalHarder ==
  /\ step \in {"int", "term", "conv_term"}
  /\ waited = Patience(step)
  /\ WaitFor(CASE step = "int" -> "term" [] step = "term" -> "kill"
               [] OTHER -> "conv_kill")
  /\ killed' = IF Kills(step') THEN killed \cup {Awaited} ELSE killed
  /\ UNCHANGED <<memberVars, automatic_update_map, child, stuck, pid, allow_conversion,
                 lifeVars>>

(* The wait after SIGKILL has no end. *)
NeverOver == FALSE

LastWaitOver == waited = Patience(step)

(* The last wait ends without the child; the node forgets it all the same. *)
Forget ==
  /\ step \in {"kill", "conv_kill"}
  /\ LastWaitOver
  /\ IF step = "kill" THEN GiveUpRecorder(child) ELSE Finish(child)
  /\ UNCHANGED <<automatic_update_map, killed, stuck, lifeVars>>

-------------------------------------------------------------------------------
(* The children, the clock and the launch system. *)

ChildExits(p) ==
  /\ child[p] \in Running
  /\ p \notin stuck
  /\ child' = [child EXCEPT ![p] =
                 IF p \in orphans THEN "none"
                 ELSE IF child[p] = "recorder" THEN "recorder_exited"
                 ELSE "conversion_exited"]
  /\ orphans' = orphans \ {p}
  /\ killed' = IF p \in orphans THEN killed \ {p} ELSE killed
  /\ UNCHANGED <<memberVars, automatic_update_map, stuck, waitVars, life, dying, signal,
                 caught>>

(* A block no wait meets would change nothing, and a killed child that has *)
(* woken up never runs again.                                              *)
Blocks(p) ==
  /\ child[p] \in Running
  /\ p = Awaited
  /\ p \notin killed
  /\ stuck' = stuck \cup {p}
  /\ UNCHANGED <<memberVars, automatic_update_map, child, killed, waitVars, lifeVars>>

Unblocks(p) ==
  /\ p \in stuck
  /\ stuck' = stuck \ {p}
  /\ UNCHANGED <<memberVars, automatic_update_map, child, killed, waitVars, lifeVars>>

Leaving == life \in {"closing", "destroying"}

(* When launch sends its next signal, in seconds since the SIGINT. *)
Due == IF signal = "SIGTERM" THEN sigterm_timeout + sigkill_timeout ELSE sigterm_timeout

(* No second passes before a killed child that is awake is gone, nor with  *)
(* a child to be reaped, nor past a deadline or a signal of launch's.      *)
Tick ==
  /\ step # "idle"
  /\ waited < Patience(step)
  /\ child[Awaited] \notin Zombie
  /\ \A p \in killed \ stuck : child[p] \notin Running
  /\ dying < Due
  /\ waited' = waited + 1
  /\ dying' = IF Leaving THEN dying + 1 ELSE dying
  /\ UNCHANGED <<memberVars, automatic_update_map, kernelVars, step, pid,
                 allow_conversion, life, signal, caught, orphans>>

(* SIGINT reaches the node: the callback under way is the last. *)
Shutdown ==
  /\ life = "running"
  /\ life' = "closing"
  /\ caught' = IF step # "idle" THEN "stop"
               ELSE IF is_recording /\ ssh_conversion_pid # NoPid THEN "both" ELSE "idle"
  /\ UNCHANGED <<memberVars, automatic_update_map, kernelVars, waitVars, dying, signal,
                 orphans>>

(* The callback is over; spin returns to main, which calls shutdown and    *)
(* leaves: from here on rclcpp handles no signal, and the node is          *)
(* destroyed.                                                              *)
SpinReturns ==
  /\ life = "closing" /\ step = "idle"
  /\ life' = "destroying"
  /\ UNCHANGED <<memberVars, automatic_update_map, kernelVars, waitVars, dying, signal,
                 caught, orphans>>

(* ~RobotAgentNode stops what runs, first the recorder and then the        *)
(* conversion, and the process ends.                                       *)
DestroyRecorder ==
  /\ life = "destroying" /\ step = "idle" /\ is_recording
  /\ BeginStop(FALSE)

DestroyConversion ==
  /\ life = "destroying" /\ step = "idle" /\ ~is_recording
  /\ ssh_conversion_pid # NoPid
  /\ WaitFor("conv_term")
  /\ UNCHANGED <<memberVars, automatic_update_map, kernelVars, pid, allow_conversion,
                 lifeVars>>

(* The process ends, by itself or by a signal wherever its thread is: the  *)
(* members are lost, and the init process reaps the zombies.               *)
Left == {p \in Pids : child[p] \in Running}
NodeGone ==
  /\ life' = "dead"
  /\ dying' = 0
  /\ signal' = "SIGINT"
  /\ child' = [p \in Pids |-> IF p \in Left THEN child[p] ELSE "none"]
  /\ killed' = killed \cap Left
  /\ WaitFor("idle")
  /\ pid' = NoPid
  /\ allow_conversion' = FALSE
  /\ caught' = "idle"
  /\ MembersFresh
  /\ orphans' = Left
  /\ UNCHANGED <<automatic_update_map, stuck>>

Exit ==
  /\ life = "destroying" /\ step = "idle" /\ ~is_recording
  /\ ssh_conversion_pid = NoPid
  /\ NodeGone

(* launch sends SIGTERM, which ends the destructor; in a callback rclcpp's *)
(* handler takes it, and has nothing left to shut down.                    *)
LaunchTerminates ==
  /\ Leaving /\ signal = "SIGINT" /\ dying = Due
  /\ \/ life = "destroying" /\ NodeGone
     \/ /\ life = "closing"
        /\ signal' = "SIGTERM"
        /\ UNCHANGED <<memberVars, automatic_update_map, kernelVars, waitVars, life,
                       dying, caught, orphans>>

LaunchKills ==
  /\ Leaving /\ signal = "SIGTERM" /\ dying = Due
  /\ NodeGone

(* The next node knows nothing of the children of the last one.            *)
Restart ==
  /\ life = "dead"
  /\ life' = "running"
  /\ UNCHANGED <<memberVars, automatic_update_map, kernelVars, waitVars, dying, signal,
                 caught, orphans>>

-------------------------------------------------------------------------------
(* The executor takes a callback only when it is not in a stop. *)
Serving == life = "running" /\ step = "idle"

ThreadStep ==
  \/ ChildReaped
  \/ SignalHarder
  \/ Forget
  \/ SpinReturns
  \/ DestroyRecorder
  \/ DestroyConversion
  \/ Exit

WorldStep ==
  \/ \E p \in Pids : ChildExits(p) \/ Blocks(p) \/ Unblocks(p)
  \/ Tick
  \/ Shutdown
  \/ LaunchTerminates
  \/ LaunchKills
  \/ Restart

StopNext ==
  \/ Serving /\ StartRecording
  \/ Serving /\ \E conversion \in BOOLEAN : BeginStop(conversion)
  \/ ThreadStep
  \/ WorldStep

StopSpec == StopInit /\ [][StopNext]_stopVars

(* The thread is scheduled, time passes, launch keeps its word, and a      *)
(* child that was killed and is awake ends.                                *)
StopFairness ==
  /\ WF_stopVars(ThreadStep)
  /\ WF_stopVars(LaunchTerminates \/ LaunchKills)
  /\ WF_stopVars(Tick)
  /\ \A p \in Pids : WF_stopVars(p \in killed /\ ChildExits(p))

StopFairSpec == StopSpec /\ StopFairness

-------------------------------------------------------------------------------
StopTypeOK ==
  /\ is_recording \in BOOLEAN
  /\ recording_pid \in Pids \cup {NoPid}
  /\ current_bag_name \in {"", "nav_bag"}
  /\ ssh_conversion_pid \in Pids \cup {NoPid}
  /\ automatic_update_map \in BOOLEAN
  /\ child \in [Pids -> {"none"} \cup Running \cup Zombie]
  /\ killed \subseteq Pids
  /\ stuck \subseteq Pids
  /\ step \in Steps
  /\ pid \in Pids \cup {NoPid}
  /\ allow_conversion \in BOOLEAN
  /\ waited \in 0 .. 3
  /\ life \in {"running", "closing", "destroying", "dead"}
  /\ dying \in 0 .. sigterm_timeout + sigkill_timeout
  /\ signal \in {"SIGINT", "SIGTERM"}
  /\ caught \in {"idle", "stop", "both"}
  /\ orphans \subseteq Pids

(* A running child the node no longer knows of is doomed or left over: it  *)
(* was sent SIGKILL and only a blocked disk keeps it, or the node itself   *)
(* was killed before it.  So a second recorder never runs for long next to *)
(* the one a stop gave up (the stop resets its members although its last   *)
(* wait may have failed).                                                  *)
ForgottenIsDoomed ==
  \A p \in Pids :
    (child[p] \in Running /\ p \notin {recording_pid, ssh_conversion_pid}) =>
      p \in killed \cup orphans

(* Only children are signalled: the pid a wait is about has not been       *)
(* reaped, so the kernel cannot have given it to anyone else.              *)
SignalsOwnChild ==
  /\ step \in {"int", "term", "kill"} => child[recording_pid] \in {"recorder", "recorder_exited"}
  /\ step \in {"conv_term", "conv_kill"} =>
       child[ssh_conversion_pid] \in {"conversion", "conversion_exited"}

(* The recorder has let the seconds after SIGINT and after SIGTERM pass.   *)
Deaf == step = "kill" \/ (step = "term" /\ waited = Patience("term"))

(* The node's waits fit the five seconds launch leaves the destructor: if  *)
(* the node dies of a signal while it has a child, and the SIGINT met it   *)
(* between two callbacks and with one child, then the child is a recorder  *)
(* that has sat out both the signals the node sent it.  A conversion, or a *)
(* recorder that heeds a signal, is stopped; only a node caught in a stop, *)
(* or with a recorder and a conversion, runs out of time without one.      *)
KilledOnlyIfDeaf ==
  [][(/\ life # "dead" /\ life' = "dead"
      /\ {recording_pid, ssh_conversion_pid} # {NoPid}
      /\ caught = "idle") => is_recording /\ Deaf]_stopVars

(* A stop always returns, even when no signal reaches the child: commands, *)
(* results and poses wait for it.                                          *)
StopReturns == (step # "idle") ~> (step = "idle")

(* What the nodes see of the children is what BagRecorder promises, with   *)
(* every stop taken as one step: during a stop the members are held back,  *)
(* and a child the node gave up counts as gone.                            *)
Recorder == INSTANCE BagRecorder WITH
  is_recording <- is_recording \/ pid # NoPid,
  recording_pid <- IF pid # NoPid THEN pid ELSE recording_pid,
  proc <- [p \in Pids |->
             IF p = pid THEN "recorder_exited"
             ELSE IF p \in {recording_pid, ssh_conversion_pid} THEN child[p]
             ELSE "none"]

RecorderSpec == Recorder!BagSpec
===============================================================================
