-------------------------- MODULE BagRecorderProofs --------------------------
(***************************************************************************)
(* What each operation on the children of the node preserves, for any set  *)
(* of pids.  RobotAgentProofs cites one lemma per operation.               *)
(***************************************************************************)
EXTENDS BagRecorder, TLAPS

BagInv == BagTypeOK /\ ChildrenTracked

\* The constructor starts with no child and no recording.
LEMMA BagInitial == BagInit => BagInv
BY NoPidAssumption DEF BagInit, BagInv, BagTypeOK, ChildrenTracked, FlagMatchesPid,
   PidsAreOurs, NoOrphanChild, ProcStates, RecorderStates, ConversionStates

\* A step that touches neither the members nor the process table.
LEMMA BagUnchanged ==
  ASSUME BagInv, UNCHANGED bagVars
  PROVE  BagInv'
<1>1. /\ is_recording' = is_recording
      /\ recording_pid' = recording_pid
      /\ current_bag_name' = current_bag_name
      /\ ssh_conversion_pid' = ssh_conversion_pid
      /\ proc' = proc
  BY DEF bagVars
<1>2. BagTypeOK'
  BY <1>1 DEF BagInv, BagTypeOK, ProcStates, RecorderStates, ConversionStates
<1>3. FlagMatchesPid'
  BY <1>1 DEF BagInv, ChildrenTracked, FlagMatchesPid
<1>4. PidsAreOurs' /\ NoOrphanChild'
  BY <1>1 DEF BagInv, ChildrenTracked, PidsAreOurs, NoOrphanChild, RecorderStates,
     ConversionStates
<1> QED BY <1>2, <1>3, <1>4 DEF BagInv, ChildrenTracked

\* start_ros2_bag_record.
LEMMA StartPreserves ==
  ASSUME BagInv, NEW enabled \in BOOLEAN, StartBagRecord(enabled)
  PROVE  BagInv'
<1>1. CASE UNCHANGED bagVars
  BY <1>1, BagUnchanged
<1>2. CASE ~(is_recording \/ recording_pid # NoPid \/ ~enabled)
  <2>1. /\ current_bag_name' = "nav_bag"
        /\ ssh_conversion_pid' = ssh_conversion_pid
        /\ ~is_recording /\ recording_pid = NoPid
    BY <1>2 DEF StartBagRecord
  <2>2. CASE UNCHANGED <<is_recording, recording_pid, proc>>
    BY <2>1, <2>2 DEF BagInv, BagTypeOK, ChildrenTracked, FlagMatchesPid,
       PidsAreOurs, NoOrphanChild, ProcStates, RecorderStates, ConversionStates
  <2>3. ASSUME NEW p \in FreePids(proc),
               proc' = [proc EXCEPT ![p] = "recorder"],
               recording_pid' = p, is_recording' = TRUE
        PROVE  BagInv'
    BY <2>1, <2>3, NoPidAssumption DEF FreePids, BagInv, BagTypeOK, ChildrenTracked,
       FlagMatchesPid, PidsAreOurs, NoOrphanChild, ProcStates, RecorderStates,
       ConversionStates
  <2> QED BY <1>2, <2>2, <2>3 DEF StartBagRecord
<1> QED BY <1>1, <1>2 DEF StartBagRecord

\* stop_ros2_bag_record with the cleanup_ssh_process and the conversion in it.
LEMMA StopPreserves ==
  ASSUME BagInv, NEW enabled \in BOOLEAN, NEW convert \in BOOLEAN,
         StopBagRecord(enabled, convert)
  PROVE  BagInv'
<1> DEFINE table == Reap(proc, StoppedChildren)
<1>1. CASE UNCHANGED bagVars
  BY <1>1, BagUnchanged
<1>2. CASE ~(~is_recording \/ recording_pid = NoPid \/ ~enabled)
  <2>1. /\ is_recording' = FALSE /\ recording_pid' = NoPid
        /\ current_bag_name' = ""
        /\ AfterStop(table, convert)
    BY <1>2 DEF StopBagRecord, BagInv, ChildrenTracked, FlagMatchesPid
  <2>2. table = [p \in Pids |-> "none"]
    BY DEF Reap, StoppedChildren, BagInv, BagTypeOK, ChildrenTracked, NoOrphanChild, ProcStates
  <2>3. CASE proc' = table /\ ssh_conversion_pid' = NoPid
    BY <2>1, <2>2, <2>3, NoPidAssumption DEF BagInv, BagTypeOK, ChildrenTracked,
       FlagMatchesPid, PidsAreOurs, NoOrphanChild, ProcStates, RecorderStates,
       ConversionStates
  <2>4. ASSUME NEW p \in FreePids(table),
               proc' = [table EXCEPT ![p] = "conversion"], ssh_conversion_pid' = p
        PROVE  BagInv'
    <3> HIDE DEF table
    <3> QED
      BY <2>1, <2>2, <2>4, NoPidAssumption DEF FreePids, BagInv, BagTypeOK,
         ChildrenTracked, FlagMatchesPid, PidsAreOurs, NoOrphanChild, ProcStates,
         RecorderStates, ConversionStates
  <2> QED BY <2>1, <2>3, <2>4 DEF AfterStop
<1> QED BY <1>1, <1>2 DEF StopBagRecord

\* The destructor leaves no child behind, so the node that is launched next
\* starts from the initial state of its children.
LEMMA DestroyPreserves ==
  ASSUME BagInv, NEW enabled \in BOOLEAN, DestroyRecorder(enabled),
         recording_pid # NoPid => enabled
  PROVE  BagInit'
<1>1. \A p \in Pids : proc'[p] = "none"
  BY NoPidAssumption DEF DestroyRecorder, Reap, BagInv, BagTypeOK, ChildrenTracked,
     FlagMatchesPid, NoOrphanChild, ProcStates
<1>2. proc' = [p \in Pids |-> proc'[p]]
  BY DEF DestroyRecorder, Reap
<1>3. proc' = [p \in Pids |-> "none"]
  BY <1>1, <1>2
<1> QED BY <1>3 DEF DestroyRecorder, BagInit

\* A child that exits keeps its pid until it is waited for.
LEMMA ExitPreserves ==
  ASSUME BagInv, NEW p \in Pids, ChildExits(p)
  PROVE  BagInv'
BY DEF ChildExits, BagInv, BagTypeOK, ChildrenTracked, FlagMatchesPid,
   PidsAreOurs, NoOrphanChild, ProcStates, RecorderStates, ConversionStates
==============================================================================
