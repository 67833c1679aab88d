--------------------------- MODULE ProcessProofs ---------------------------
(***************************************************************************)
(* Proofs about the parts in which a process may die at any moment and     *)
(* leave something behind: the lock file of withLockSync, the pid file and *)
(* the tracker of the daemon, and the row of a task.  Each is proved for   *)
(* itself, for any processes, files and bounds; only the daemon is a       *)
(* refinement, of PassiveCapture.                                          *)
(***************************************************************************)
EXTENDS StateLock, Daemon, RuntimeTask, SequenceTheorems, TLAPS

------------------------------------------------------------------------------
(* withLockSync, for any processes that wait, recover, die and are given    *)
(* each other's pids: until a recovery has removed a lock that was not      *)
(* stale, the lock excludes, and it implements the abstract lock.           *)

OwnsFile(p) == lockFile # Nobody /\ lockFile.pid = p

(* Who has created the lock file and has not left. *)
Inside(p) == pc[p] \in {"write", "critical"}

(* A process that created the lock file and has not left owns it. *)
CreatorsOwnFile ==
  \A p \in Proc :
    /\ Inside(p) => OwnsFile(p)
    /\ pc[p] = "critical" => lockFile.written

WellPlaced ==
  \A p \in Proc :
    /\ pc[p] = "probe" => seen[p] \in Proc
    /\ seen[p] # Nobody => pc[p] \in {"probe", "unlink"}
    /\ ~alive[p] => pc[p] = "idle"

(* What a recoverer has read stays true as long as the file is the one it  *)
(* read: the pid is the creator's, and once the creator was found dead     *)
(* nobody is inside, not even a process that has got the same pid since.   *)
VerdictsHold ==
  \A p \in readers :
    pc[p] \in {"probe", "unlink"} /\ seen[p] # Nobody =>
      OwnsFile(seen[p]) /\ (pc[p] = "unlink" => ~Inside(seen[p]))

Sound == CreatorsOwnFile /\ WellPlaced /\ VerdictsHold

IInv == LockTypeOK /\ (robbed \/ Sound)

LEMMA IInvInit == LockInit => IInv
  BY LockOK DEF LockInit, IInv, LockTypeOK, Sound, CreatorsOwnFile, WellPlaced,
     VerdictsHold, ControlPoints, Inside

LEMMA LockTyped == ASSUME LockTypeOK, [LockNext]_lockVars PROVE LockTypeOK'
  <1> USE LockOK DEF LockTypeOK, LockFile, ControlPoints, GoTo, EndCall, lockHistory
  <1>1. LockTypeOK
    OBVIOUS
  <1>2. CASE UNCHANGED lockVars
    BY <1>1, <1>2 DEF lockVars
  <1>3. ASSUME NEW p \in Proc, Call(p) \/ TimePasses(p) \/ FindExisting(p)
        PROVE LockTypeOK'
    <2>1. CASE Call(p)
      BY <1>1, <2>1 DEF Call
    <2>2. CASE TimePasses(p)
      BY <1>1, <2>2 DEF TimePasses
    <2>3. CASE FindExisting(p)
      BY <1>1, <2>3 DEF FindExisting
    <2>4. QED
      BY <1>3, <2>1, <2>2, <2>3
  <1>4. ASSUME NEW p \in Proc, CreateLock(p)
        PROVE LockTypeOK'
    <2>1. [pid |-> p, written |-> ~WriteGap] \in LockFile
      OBVIOUS
    <2>2. QED
      BY <1>1, <1>4, <2>1 DEF CreateLock
  <1>5. ASSUME NEW p \in Proc, WriteOwnPid(p)
        PROVE LockTypeOK'
    BY <1>1, <1>5 DEF WriteOwnPid
  <1>6. ASSUME NEW p \in Proc, ReadLock(p) \/ ProbeHolder(p)
        PROVE LockTypeOK'
    <2>1. UNCHANGED <<lockFile, alive, robbed>>
      BY <1>6 DEF ReadLock, ProbeHolder
    <2>2. readers' \subseteq Proc
      BY <1>1, <1>6 DEF ReadLock, ProbeHolder
    <2>3. late' \in [Proc -> BOOLEAN] /\ seen' \in [Proc -> Proc \cup {Nobody}]
      BY <1>1, <1>6 DEF ReadLock, ProbeHolder
    <2>4. pc' \in [Proc -> {"idle", "try", "write", "read", "probe", "unlink", "critical"}]
      BY <1>1, <1>6 DEF ReadLock, ProbeHolder
    <2>5. QED
      BY <1>1, <2>1, <2>2, <2>3, <2>4
  <1>7. ASSUME NEW p \in Proc, UnlinkStale(p)
        PROVE LockTypeOK'
    <2>1. robbed' \in BOOLEAN
      BY <1>1, <1>7 DEF UnlinkStale
    <2>2. QED
      BY <1>1, <1>7, <2>1 DEF UnlinkStale
  <1>8. ASSUME NEW p \in Proc, Release(p)
        PROVE LockTypeOK'
    BY <1>1, <1>8 DEF Release
  <1>9. ASSUME NEW p \in Proc, Perish(p)
        PROVE LockTypeOK'
    BY <1>1, <1>9 DEF Perish
  <1>10. ASSUME NEW p \in Proc, ReusePid(p)
        PROVE LockTypeOK'
    BY <1>1, <1>10 DEF ReusePid
  <1>11. QED
    BY <1>2, <1>3, <1>4, <1>5, <1>6, <1>7, <1>8, <1>9, <1>10 DEF LockNext, Step

(* A robbery is not forgotten. *)
LEMMA RobbedStays ==
  ASSUME LockTypeOK, [LockNext]_lockVars, ~robbed'
  PROVE  ~robbed
  BY DEF LockTypeOK, LockNext, Step, Call, TimePasses, CreateLock, WriteOwnPid, FindExisting,
     ReadLock, ProbeHolder, UnlinkStale, Release, Perish, ReusePid, lockVars, lockHistory

(* One step per operation. *)
LEMMA SoundNext ==
  ASSUME LockTypeOK, Sound, [LockNext]_lockVars, ~robbed'
  PROVE  Sound'
  <1> USE LockOK DEF LockTypeOK, LockFile, ControlPoints, GoTo, EndCall, Sound,
        CreatorsOwnFile, WellPlaced, VerdictsHold, OwnsFile, Inside, lockHistory
  <1>0. LockTypeOK'
    BY LockTyped
  <1>1. CASE UNCHANGED lockVars
    BY <1>0, <1>1 DEF lockVars
  <1>2. ASSUME NEW p \in Proc, Call(p) PROVE Sound'
    BY <1>0, <1>2 DEF Call
  <1>3. ASSUME NEW p \in Proc, TimePasses(p) PROVE Sound'
    BY <1>0, <1>3 DEF TimePasses
  <1>4. ASSUME NEW p \in Proc, CreateLock(p) PROVE Sound'
    <2>1. \A q \in Proc : ~Inside(q)
      BY <1>4 DEF CreateLock
    <2>2. lockFile' # Nobody /\ lockFile'.pid = p /\ lockFile'.written = ~WriteGap
      <3>1. lockFile' = [pid |-> p, written |-> ~WriteGap]
        BY <1>4 DEF CreateLock
      <3>2. lockFile' \in LockFile
        BY <3>1
      <3>. QED
        BY <3>1, <3>2
    <2>3. pc'[p] = (IF WriteGap THEN "write" ELSE "critical")
          /\ \A q \in Proc : q # p => pc'[q] = pc[q]
      BY <1>4 DEF CreateLock
    <2>4. CreatorsOwnFile'
      BY <2>1, <2>2, <2>3
    <2>5. WellPlaced'
      BY <1>4, <2>3 DEF CreateLock
    <2>6. VerdictsHold'
      BY <1>4 DEF CreateLock
    <2>. QED
      BY <2>4, <2>5, <2>6
  <1>5. ASSUME NEW p \in Proc, WriteOwnPid(p) PROVE Sound'
    <2>1. lockFile # Nobody /\ lockFile.pid = p /\ lockFile \in LockFile
      BY <1>5 DEF WriteOwnPid
    <2>2. lockFile' # Nobody /\ lockFile'.pid = p /\ lockFile'.written
      <3>1. lockFile' = [lockFile EXCEPT !.written = TRUE]
        BY <1>5, <2>1 DEF WriteOwnPid
      <3>2. lockFile' \in LockFile /\ lockFile'.pid = lockFile.pid /\ lockFile'.written
        BY <2>1, <3>1
      <3>. QED
        BY <2>1, <3>2
    <2>3. \A q \in Proc : Inside(q)' <=> Inside(q)
      BY <1>5 DEF WriteOwnPid
    <2>4. CreatorsOwnFile'
      BY <2>1, <2>2, <2>3
    <2>5. WellPlaced'
      BY <1>5 DEF WriteOwnPid
    <2>6. VerdictsHold'
      BY <1>5, <2>1, <2>2, <2>3 DEF WriteOwnPid
    <2>. QED
      BY <2>4, <2>5, <2>6
  <1>6. ASSUME NEW p \in Proc, FindExisting(p) PROVE Sound'
    BY <1>0, <1>6 DEF FindExisting
  <1>7. ASSUME NEW p \in Proc, ReadLock(p) PROVE Sound'
    <2>1. CASE lockFile = Nobody
      BY <1>7, <2>1 DEF ReadLock
    <2>2. CASE lockFile # Nobody /\ ~lockFile.written
      BY <1>7, <2>2 DEF ReadLock
    <2>3. CASE lockFile # Nobody /\ lockFile.written
      BY <1>7, <2>3 DEF ReadLock
    <2>. QED
      BY <2>1, <2>2, <2>3
  <1>8. ASSUME NEW p \in Proc, ProbeHolder(p) PROVE Sound'
    BY <1>0, <1>8 DEF ProbeHolder
  <1>9. ASSUME NEW p \in Proc, UnlinkStale(p) PROVE Sound'
    <2>1. CASE lockFile = Nobody
      BY <1>9, <2>1 DEF UnlinkStale
    <2>2. CASE lockFile # Nobody
      <3>1. IsStale(p)
        BY <1>9, <2>2 DEF UnlinkStale
      <3>2. lockFile.pid \in Proc /\ ~Inside(lockFile.pid)
        BY <1>9, <2>2, <3>1 DEF UnlinkStale, IsStale
      <3>3. \A q \in Proc : ~Inside(q)
        BY <3>2
      <3>. QED
        BY <1>9, <2>2, <3>3 DEF UnlinkStale
    <2>. QED
      BY <2>1, <2>2
  <1>10. ASSUME NEW p \in Proc, Release(p) PROVE Sound'
    <2>1. \A q \in Proc : q # p => ~Inside(q)
      BY <1>10 DEF Release
    <2>. QED
      BY <1>10, <2>1 DEF Release
  <1>11. ASSUME NEW p \in Proc, Perish(p) PROVE Sound'
    BY <1>0, <1>11 DEF Perish
  <1>12. ASSUME NEW p \in Proc, ReusePid(p) PROVE Sound'
    BY <1>0, <1>12 DEF ReusePid
  <1>. QED
    BY <1>1, <1>2, <1>3, <1>4, <1>5, <1>6, <1>7, <1>8, <1>9, <1>10, <1>11, <1>12
    DEF LockNext, Step

LEMMA IInvNext == IInv /\ [LockNext]_lockVars => IInv'
  <1>. SUFFICES ASSUME IInv, [LockNext]_lockVars PROVE IInv'
    OBVIOUS
  <1>1. LockTypeOK /\ LockTypeOK'
    BY LockTyped DEF IInv
  <1>2. ~robbed' => Sound'
    BY <1>1, RobbedStays, SoundNext DEF IInv
  <1>. QED
    BY <1>1, <1>2 DEF IInv

(* Type correctness: no step of withLockSync leaves the declared types,    *)
(* whether recovery is sound or not.                                        *)
THEOREM LockTypeCorrect == LockSpec => []LockTypeOK
  <1>1. LockInit => LockTypeOK
    BY LockOK DEF LockInit, LockTypeOK, ControlPoints
  <1>2. LockTypeOK /\ [LockNext]_lockVars => LockTypeOK'
    BY LockTyped
  <1>3. QED
    BY <1>1, <1>2, PTL DEF LockSpec

(* A process inside the protected function owns the lock file, until a     *)
(* recovery has removed a lock that it had not read, or had read while its *)
(* creator was about to write it.                                          *)
THEOREM HoldersOwnTheFile == LockSpec => [](robbed \/ HolderOwnsFile)
  <1>1. IInv => robbed \/ HolderOwnsFile
    BY DEF IInv, Sound, HolderOwnsFile, CreatorsOwnFile, Inside, OwnsFile, InCritical
  <1>. QED
    BY <1>1, IInvInit, IInvNext, PTL DEF LockSpec

(* Mutual exclusion of withLockSync, for every set of processes: nothing   *)
(* but such a recovery breaks it, whoever waits, dies or fails to unlink.  *)
THEOREM LockExcludes == LockSpec => [](robbed \/ MutualExclusion)
  <1>1. HolderOwnsFile => MutualExclusion
    BY DEF HolderOwnsFile, MutualExclusion
  <1>. QED
    BY <1>1, HoldersOwnTheFile, PTL

-----------------------------------------------------------------------------

(* A step moves one process only. *)
LEMMA OneMoves ==
  ASSUME IInv, LockNext
  PROVE  \E p \in Proc : \A q \in Proc : q # p => pc'[q] = pc[q]
  <1>1. pc \in [Proc -> ControlPoints]
    BY DEF IInv, LockTypeOK
  <1>2. PICK p \in Proc : Call(p) \/ Step(p) \/ Perish(p) \/ ReusePid(p)
    BY DEF LockNext
  <1>3. \A q \in Proc : q # p => pc'[q] = pc[q]
    BY <1>1, <1>2 DEF Step, Call, TimePasses, CreateLock, WriteOwnPid, FindExisting,
       ReadLock, ProbeHolder, UnlinkStale, Release, Perish, ReusePid, EndCall, GoTo
  <1>4. QED
    BY <1>3

(* The owner of the abstract lock is the one process in the critical section. *)
LEMMA OwnerIs ==
  ASSUME MutualExclusion
  PROVE  /\ InCritical = {} => Owner = Nobody
         /\ InCritical # {} => Owner \in Proc /\ InCritical = {Owner}
  BY DEF MutualExclusion, Owner, InCritical

LEMMA OwnerIsNext ==
  ASSUME MutualExclusion'
  PROVE  /\ InCritical' = {} => Owner' = Nobody
         /\ InCritical' # {} => Owner' \in Proc /\ InCritical' = {Owner'}
  BY DEF MutualExclusion, Owner, InCritical

LEMMA StepRefines ==
  ASSUME IInv, MutualExclusion, MutualExclusion', [LockNext]_lockVars
  PROVE  [Abstract!Next]_Owner
  <1>1. CASE UNCHANGED lockVars
    BY <1>1 DEF lockVars, Owner, InCritical
  <1>2. CASE LockNext
    <2>1. PICK p \in Proc : \A q \in Proc : q # p => pc'[q] = pc[q]
      BY <1>2, OneMoves
    <2>2. \A q \in Proc : q # p => (q \in InCritical' <=> q \in InCritical)
      BY <2>1 DEF InCritical
    <2>3. CASE InCritical = {} /\ InCritical' # {}
      BY <2>3, OwnerIs, OwnerIsNext DEF Abstract!Next, Abstract!Enter
    <2>4. CASE InCritical # {} /\ InCritical' = {}
      BY <2>4, OwnerIs, OwnerIsNext DEF Abstract!Next, Abstract!Leave
    <2>5. CASE InCritical = {} /\ InCritical' = {}
      BY <2>5, OwnerIs, OwnerIsNext
    <2>6. CASE InCritical # {} /\ InCritical' # {}
      <3>1. Owner = Owner'
        <4>1. InCritical = {Owner} /\ InCritical' = {Owner'} /\ Owner \in Proc /\ Owner' \in Proc
          BY <2>6, OwnerIs, OwnerIsNext
        <4>2. QED
          BY <2>2, <4>1
      <3>2. QED
        BY <3>1
    <2>7. QED
      BY <2>3, <2>4, <2>5, <2>6
  <1>3. QED
    BY <1>1, <1>2

(* Where no recovery does that, withLockSync implements the abstract lock. *)
THEOREM LockImplements == LockSpec /\ []~robbed => ImplementsLock
  <1>1. LockInit => Abstract!Init
    BY DEF LockInit, Abstract!Init, Owner, InCritical
  <1>2. IInv /\ MutualExclusion /\ MutualExclusion' /\ [LockNext]_lockVars
          => [Abstract!Next]_Owner
    BY StepRefines
  <1>. QED
    BY <1>1, <1>2, IInvInit, IInvNext, LockExcludes, PTL
    DEF LockSpec, ImplementsLock, Abstract!Spec

------------------------------------------------------------------------------
(* PassiveCapture and the daemons that run its ticks: no edit is forgotten  *)
(* but those that a save's own snapshot takes in; the daemon checkpoints    *)
(* once per cause; whatever daemons do, what becomes of the edits is a      *)
(* behaviour of PassiveCapture, so that this holds of them too; and a       *)
(* daemon is the sole owner of its repository.                              *)

LEMMA ZeroQuiet == 0 \in 0..(QuietTicks - 1)
  BY ConstantsOK

LEMMA TypeInit == Init => TypeOK
  BY ZeroQuiet DEF Init, TypeOK, Capture, Age

LEMMA CapturedType == TypeOK => Captured \in Capture
  BY ZeroQuiet DEF TypeOK, Captured, Capture, Age

LEMMA TypeStep == TypeOK /\ [Next]_vars => TypeOK'
<1> SUFFICES ASSUME TypeOK, [Next]_vars PROVE TypeOK'
  OBVIOUS
<1> USE DEF TypeOK
<1>1. ASSUME NEW f \in File, Edit(f) PROVE TypeOK'
  BY <1>1 DEF Edit
<1>2. ASSUME NEW b \in Branch, Switch(b) PROVE TypeOK'
  BY <1>2 DEF Switch
<1>3. CASE TwoHoursPass
  BY <1>3 DEF TwoHoursPass, Capture, Age
<1>4. CASE DaemonCheckpoint
  <2> PICK early \in Meanwhile, after \in Meanwhile :
        /\ changed' = IF changed = None THEN early ELSE dirty \cup early
        /\ LeftBy(after)
    BY <1>4 DEF DaemonCheckpoint
  <2>1. early \subseteq File /\ after \subseteq File
    BY ConstantsOK
  <2>2. changed' \in (SUBSET File) \cup {None}
    BY <2>1
  <2>3. capture' \in Capture
    BY <1>4, CapturedType DEF DaemonCheckpoint
  <2> QED
    BY <1>4, <2>1, <2>2, <2>3 DEF DaemonCheckpoint, LeftBy
<1>5. CASE Buffer
  BY <1>5, ZeroQuiet DEF Buffer, Buffered, Capture
<1>6. CASE ObserveBranch
  <2>1. Quiet => capture.quiet + 1 \in 0..(QuietTicks - 1)
    BY <1>6, ConstantsOK DEF ObserveBranch, QuietEnough, Capture
  <2> QED
    BY <1>6, <2>1 DEF ObserveBranch, Capture
<1>7. CASE Checkpoint
  BY <1>7, ConstantsOK DEF Checkpoint, LeftBy
<1>8. CASE StartNew
  BY <1>8, ConstantsOK DEF StartNew, LeftBy
<1>9. CASE FinishHandoff
  BY <1>9, ConstantsOK DEF FinishHandoff, LeftBy
<1>10. CASE MarkCommit
  BY <1>10, ConstantsOK DEF MarkCommit, LeftBy
<1>11. CASE UNCHANGED vars
  BY <1>11 DEF vars
<1> QED
  BY <1>1, <1>2, <1>3, <1>4, <1>5, <1>6, <1>7, <1>8, <1>9, <1>10, <1>11
     DEF Next, User, Tick, Command

(* The types hold for every set of files and every pair of thresholds. *)
THEOREM TypeCorrect == Spec => []TypeOK
<1>1. Init => TypeOK
  BY TypeInit
<1>2. TypeOK /\ [Next]_vars => TypeOK'
  BY TypeStep
<1> QED
  BY <1>1, <1>2, PTL DEF Spec

-----------------------------------------------------------------------------
(* Edits are never forgotten, but for those that fall between the          *)
(* comparison and the snapshot of a save: what no checkpoint has taken in  *)
(* is still to be seen, or buffered.                                       *)
THEOREM NoEditForgotten == Spec => []EditsTracked
<1>1. Init => EditsTracked
  BY DEF Init, EditsTracked
<1>2. TypeOK /\ EditsTracked /\ [Next]_vars => EditsTracked'
  <2> SUFFICES ASSUME TypeOK, EditsTracked, [Next]_vars PROVE EditsTracked'
    OBVIOUS
  <2> USE DEF EditsTracked
  <2>1. ASSUME NEW f \in File, Edit(f) PROVE EditsTracked'
    BY <2>1 DEF Edit
  <2>2. ASSUME NEW b \in Branch, Switch(b) PROVE EditsTracked'
    BY <2>2 DEF Switch
  <2>3. CASE TwoHoursPass
    BY <2>3 DEF TwoHoursPass, TypeOK, Capture
  <2>4. CASE DaemonCheckpoint
    BY <2>4 DEF DaemonCheckpoint, LeftBy
  <2>5. CASE Buffer
    BY <2>5 DEF Buffer, Buffered, TypeOK, Capture
  <2>6. CASE ObserveBranch
    BY <2>6 DEF ObserveBranch, TypeOK, Capture
  <2>7. CASE Command
    BY <2>7 DEF Command, Checkpoint, StartNew, FinishHandoff, MarkCommit, LeftBy
  <2>8. CASE UNCHANGED vars
    BY <2>8 DEF vars
  <2> QED
    BY <2>1, <2>2, <2>3, <2>4, <2>5, <2>6, <2>7, <2>8 DEF Next, User, Tick
<1> QED
  BY <1>1, <1>2, TypeInit, TypeStep, PTL DEF Spec

-----------------------------------------------------------------------------
(* Without news there is no cause for a checkpoint. *)
Settled ==
  ~news => /\ dirty = {} /\ capture.pending = {}
           /\ capture.observed = branch /\ capture.age = "recent"

LEMMA SettledStep ==
  ASSUME TypeOK, Settled, [Next]_vars
  PROVE  Settled' /\ (DaemonCheckpoint => news)
<1> USE DEF Settled
<1>1. DaemonCheckpoint => news
  <2> SUFFICES ASSUME DaemonCheckpoint, ~news PROVE FALSE
    OBVIOUS
  <2>1. BranchChanged \/ dirty # {} \/ capture.pending # {} \/ capture.age = "old"
    BY DEF DaemonCheckpoint, ManyFiles, QuietEnough, Quiet, Elapsed
  <2> QED
    BY <2>1 DEF BranchChanged
<1>2. ASSUME NEW f \in File, Edit(f) PROVE Settled'
  BY <1>2 DEF Edit
<1>3. ASSUME NEW b \in Branch, Switch(b) PROVE Settled'
  BY <1>3 DEF Switch
<1>4. CASE TwoHoursPass
  BY <1>1, <1>4 DEF TwoHoursPass
<1>5. CASE DaemonCheckpoint
  BY <1>1, <1>5 DEF DaemonCheckpoint, Captured, LeftBy
<1>6. CASE Buffer \/ ObserveBranch
  <2>1. news
    <3>1. CASE Buffer
      BY <3>1 DEF Buffer
    <3>2. CASE ObserveBranch
      BY <3>2, ConstantsOK DEF ObserveBranch, Quiet, TypeOK
    <3> QED
      BY <1>6, <3>1, <3>2
  <2> QED
    BY <1>1, <1>6, <2>1 DEF Buffer, ObserveBranch
<1>7. CASE Command
  BY <1>1, <1>7 DEF Command, Checkpoint, StartNew, FinishHandoff, MarkCommit, LeftBy
<1>8. CASE UNCHANGED vars
  BY <1>1, <1>8 DEF vars
<1> QED
  BY <1>1, <1>2, <1>3, <1>4, <1>5, <1>6, <1>7, <1>8 DEF Next, User, Tick

(* The daemon checkpoints once per cause, whatever the commands do. *)
THEOREM OncePerCause == Spec => NoRefire
<1>1. Init => TypeOK /\ Settled
  BY TypeInit DEF Init, Settled
<1>2. TypeOK /\ Settled /\ [Next]_vars => TypeOK' /\ Settled'
  BY TypeStep, SettledStep
<1>3. TypeOK /\ Settled /\ [Next]_vars => [DaemonCheckpoint => news]_vars
  BY SettledStep
<1> QED
  BY <1>1, <1>2, <1>3, PTL DEF Spec, NoRefire

------------------------------------------------------------------------------
(* The daemons. *)

LEMMA StepImplements == [DaemonNext]_allVars => [Next]_vars
<1> SUFFICES ASSUME [DaemonNext]_allVars PROVE [Next]_vars
  OBVIOUS
<1>1. ASSUME NEW p \in Pid, DaemonStep(p) PROVE [Next]_vars
  BY <1>1 DEF DaemonStep, Check, WritePid, StartAndonServices, DaemonTick, Die, StopDaemon,
             Next
<1>2. CASE Once
  BY <1>2 DEF Once, Next
<1>3. CASE ChildEnds
  BY <1>3 DEF ChildEnds
<1>4. CASE (User \/ Command) /\ UNCHANGED daemonVars
  BY <1>4 DEF Next
<1>5. CASE UNCHANGED allVars
  BY <1>5 DEF allVars
<1> QED
  BY <1>1, <1>2, <1>3, <1>4, <1>5 DEF DaemonNext

(* Daemons that start, find each other, die and stop, and one-shot ticks    *)
(* beside them, take only such steps as PassiveCapture allows.              *)
THEOREM ImplementsCapture == DaemonSpec => Spec
<1>1. DaemonInit => Init
  BY DEF DaemonInit
<1> QED
  BY <1>1, StepImplements, PTL DEF DaemonSpec, Spec

(* Daemons that take turns forget no edit either.                           *)
THEOREM NoEditForgottenByAny == DaemonSpec => []EditsTracked
  BY ImplementsCapture, NoEditForgotten, PTL

(* Several daemons and one-shot ticks checkpoint once per cause.            *)
THEOREM OncePerCauseByAny == DaemonSpec => NoRefire
  BY ImplementsCapture, OncePerCause, PTL

------------------------------------------------------------------------------
(* The daemon that is past its start is the one the file names, who writes  *)
(* it is alone, and children have a running parent.                         *)
OwnType ==
  /\ at \in [Pid -> {"off", "checked", "written", "running"}]
  /\ pidFile \in Pid \cup {NoPid} /\ raced \in BOOLEAN
  /\ children \subseteq Pid \X Services /\ strays \subseteq Services

Owned ==
  /\ \A p \in Pid : at[p] \in {"written", "running"} => pidFile = p
  /\ \A p, q \in Pid : at[p] = "checked" /\ at[q] # "off" => p = q

Parented == \A c \in children : at[c[1]] = "running"

OwnInv == OwnType /\ (~raced => Owned) /\ Parented

LEMMA OwnInit == DaemonInit => OwnInv
  BY DaemonOK DEF DaemonInit, OwnInv, OwnType, Owned, Parented

LEMMA OwnStep == OwnInv /\ [DaemonNext]_allVars => OwnInv'
<1> SUFFICES ASSUME OwnInv, [DaemonNext]_allVars PROVE OwnInv'
  OBVIOUS
<1> USE DEF OwnInv, OwnType
<1>1. ASSUME UNCHANGED daemonVars PROVE OwnInv'
  BY <1>1 DEF daemonVars, Owned, Parented
<1>2. ASSUME NEW p \in Pid, Check(p) PROVE OwnInv'
  <2>1. OwnType' /\ Parented'
    BY <1>2 DEF Check, Parented
  <2>2. ASSUME ~raced' PROVE Owned'
    <3>1. ~raced /\ Owned /\ \A q \in Pid : at[q] # "checked"
      BY <1>2, <2>2 DEF Check
    <3>2. ASSUME NEW q \in Pid, at[q] # "off" PROVE q = p
      <4>1. pidFile = q
        BY <3>1, <3>2 DEF Owned
      <4> QED
        BY <1>2, <3>2, <4>1, DaemonOK DEF Check, IsDaemonRunning
    <3> QED
      BY <1>2, <3>1, <3>2 DEF Check, Owned
  <2> QED
    BY <2>1, <2>2
<1>3. ASSUME NEW p \in Pid, WritePid(p) PROVE OwnInv'
  BY <1>3 DEF WritePid, Owned, Parented
<1>4. ASSUME NEW p \in Pid, StartAndonServices(p) PROVE OwnInv'
  <2>1. children' \subseteq children \cup {<<p, "writer">>, <<p, "api">>}
    BY <1>4 DEF StartAndonServices
  <2>2. OwnType'
    BY <1>4, <2>1 DEF StartAndonServices, Services
  <2>3. Parented'
    BY <1>4, <2>1 DEF StartAndonServices, Parented
  <2>4. ~raced' => Owned'
    BY <1>4 DEF StartAndonServices, Owned
  <2> QED
    BY <2>2, <2>3, <2>4
<1>5. ASSUME NEW p \in Pid, Die(p) \/ StopDaemon(p) PROVE OwnInv'
  <2>1. OwnType'
    <3>1. {c[2] : c \in ChildrenOf(p)} \subseteq Services
      BY DEF ChildrenOf
    <3> QED
      BY <1>5, <3>1 DEF Die, StopDaemon
  <2>2. Parented'
    BY <1>5 DEF Die, StopDaemon, Parented, ChildrenOf
  <2>3. ~raced' => Owned'
    BY <1>5 DEF Die, StopDaemon, Owned
  <2> QED
    BY <2>1, <2>2, <2>3
<1>6. CASE ChildEnds
  BY <1>6 DEF ChildEnds, Owned, Parented
<1> QED
  BY <1>1, <1>2, <1>3, <1>4, <1>5, <1>6
  DEF DaemonNext, DaemonStep, DaemonTick, Once, allVars

(* No start, death or stop of a daemon leaves the declared types, those of   *)
(* the tracker included.                                                     *)
THEOREM DaemonTypeCorrect == DaemonSpec => []DaemonTypeOK
<1>1. DaemonInit => OwnInv
  BY OwnInit
<1>2. OwnInv /\ [DaemonNext]_allVars => OwnInv'
  BY OwnStep
<1>3. TypeOK /\ OwnInv => DaemonTypeOK
  BY DEF OwnInv, OwnType, DaemonTypeOK
<1> QED
  BY <1>1, <1>2, <1>3, ImplementsCapture, TypeCorrect, PTL DEF DaemonSpec

(* A daemon that started alone owns the repository: the file names it, and  *)
(* no other daemon's writer runs.                                           *)
THEOREM DaemonIsSoleOwner == DaemonSpec => []SoleOwner
<1>1. OwnInv => SoleOwner
  <2> SUFFICES ASSUME OwnInv, ~raced PROVE SoleOwner
    BY DEF SoleOwner
  <2>1. ASSUME NEW p \in Pid, <<p, "writer">> \in children PROVE pidFile = p
    <3>1. at[p] = "running"
      BY <2>1 DEF OwnInv, Parented
    <3> QED
      BY <3>1 DEF OwnInv, Owned
  <2> QED
    BY <2>1 DEF OwnInv, Owned, SoleOwner
<1> QED
  BY <1>1, OwnInit, OwnStep, PTL DEF DaemonSpec

------------------------------------------------------------------------------
(* What holds of a task's row whatever its child writes and in whatever     *)
(* order requests, output, exit, timer and restart come.                    *)

(* The row alone does not say that it stays stamped: the requests write    *)
(* the adapter's session over it, so that has to be stamped too.           *)
Stamped ==
  /\ adapter.status \in Terminal => adapter.completed
  /\ row.status \in Terminal => row.completed

Started == Known => child # "none"

TaskInv == TaskTypeOK /\ Stamped /\ Started

(* An event leaves a session's status a status. *)
LEMMA StatusOfType ==
  ASSUME NEW event \in Events, NEW current \in Status
  PROVE  StatusOf(event, current) \in Status
  BY DEF StatusOf, Status, Terminal, Events, Output

(* A row of the table, or none, and stamped if it is terminal. *)
Kept(r) ==
  /\ r \in Row \cup {NoRow}
  /\ r.status \in Terminal => r.completed

LEMMA RowIsNotNoRow ==
  ASSUME NEW r \in Row
  PROVE  r # NoRow
  BY TaskOK DEF Row, NoRow

(* Consuming an event keeps a row typed and stamped. *)
LEMMA ConsumedType ==
  ASSUME NEW event \in Events, NEW from \in Row, Kept(from)
  PROVE  Consumed(from, event) \in Row /\ Kept(Consumed(from, event))
  <1>1. from.status \in Status /\ from.completed \in BOOLEAN
    BY DEF Row
  <1>2. StatusOf(event, from.status) \in Status
    BY <1>1, StatusOfType
  <1>. QED
    BY <1>1, <1>2 DEF Consumed, Row, Kept

(* So does pushing one, whether it is consumed, fails on the way, or is    *)
(* dropped or left unread; and a loop that is over does not start again.   *)
LEMMA PushType ==
  ASSUME NEW event \in Events, NEW from, Kept(from), listening => from # NoRow,
         listening \in BOOLEAN, Push(from, event)
  PROVE  /\ Kept(row')
         /\ listening' \in BOOLEAN
         /\ listening' => row' # NoRow
  <1>1. CASE listening /\ ~adapter.ended
    <2>1. from \in Row
      BY <1>1 DEF Kept
    <2>2. Consumed(from, event) \in Row /\ Kept(Consumed(from, event))
      BY <2>1, ConsumedType
    <2>. QED
      BY <1>1, <2>1, <2>2, RowIsNotNoRow DEF Push, Take
  <1>2. CASE ~(listening /\ ~adapter.ended)
    BY <1>2 DEF Push
  <1>. QED
    BY <1>1, <1>2

(* A known session is a session of a task that was started. *)
LEMMA KnownType ==
  ASSUME TaskInv, Known
  PROVE  adapter \in Session /\ adapter.status \in Status /\ child # "none"
  BY TaskOK DEF TaskInv, TaskTypeOK, Started, Known, Session, NoSession

(* What a step has to keep of the row and of who reads the stream. *)
RowInv == Kept(row) /\ listening \in BOOLEAN /\ (listening => row # NoRow)

LEMMA RowIsKept == TaskInv => RowInv
  BY DEF TaskInv, TaskTypeOK, Stamped, Kept, RowInv

LEMMA PushKeeps ==
  ASSUME TaskInv, NEW event \in Events, Push(row, event)
  PROVE  RowInv'
  BY RowIsKept, PushType DEF RowInv

LEMMA InitInv == TaskInit => TaskInv
  <1>. SUFFICES ASSUME TaskInit PROVE TaskInv
    OBVIOUS
  <1>1. output \in Seq(Output) /\ Len(output) <= MaxOutput
    BY TaskOK DEF TaskInit, TaskOK
  <1>2. TaskTypeOK
    BY <1>1 DEF TaskInit, TaskTypeOK, Child
  <1>3. Stamped
    BY TaskOK DEF TaskInit, Stamped, TaskOK, Status, NoSession, NoRow
  <1>. QED
    BY <1>2, <1>3 DEF TaskInit, TaskInv, Started, Known

LEMMA NextInv == TaskInv /\ [TaskNext]_taskVars => TaskInv'
  <1>. SUFFICES ASSUME TaskInv, [TaskNext]_taskVars PROVE TaskInv'
    OBVIOUS
  <1>. USE TaskOK DEF TaskInv
  <1>1. CASE Start
    <2>1. Written(adapter') \in Row /\ Kept(Written(adapter')) /\ adapter' \in Session
      BY <1>1 DEF Start, Written, Row, Session, Status, Terminal, Kept
    <2>2. Kept(NoRow)
      BY TaskOK DEF Kept, NoRow, TaskOK, Status
    <2>3. RowInv'
      BY <1>1, <2>1, <2>2, RowIsNotNoRow DEF Start, RowInv
    <2>. QED
      BY <1>1, <2>1, <2>3
      DEF Start, TaskTypeOK, Child, Started, RowInv, Kept, Stamped, Terminal
  <1>2. ASSUME NEW event \in Output, Write(event) PROVE TaskInv'
    <2>1. output' \in Seq(Output) /\ Len(output') <= MaxOutput
      BY <1>2 DEF Write, TaskTypeOK, TaskOK
    <2>. QED
      BY <1>2, <2>1 DEF Write, TaskTypeOK, Stamped, Started, Known
  <1>3. CASE Exit
    BY <1>3 DEF Exit, TaskTypeOK, Stamped, Started, Known, Child
  <1>4. CASE HandleChunk
    <2>. DEFINE event == Head(output)
    <2>1. event \in Output /\ event \in Events /\ output' \in Seq(Output)
          /\ Len(output') <= MaxOutput
      BY <1>4 DEF HandleChunk, TaskTypeOK, Events, TaskOK
    <2>2. RowInv'
      BY <1>4, <2>1, PushKeeps DEF HandleChunk
    <2>3. StatusOf(event, adapter.status) \in Status
      BY <1>4, <2>1, KnownType, StatusOfType DEF HandleChunk
    <2>4. adapter' \in Session /\ (adapter'.status \in Terminal => adapter'.completed)
      BY <1>4, <2>3, KnownType DEF HandleChunk, Session, Stamped
    <2>5. child' = child /\ child # "none"
      BY <1>4, KnownType DEF HandleChunk
    <2>. QED
      BY <2>1, <2>2, <2>4, <2>5 DEF TaskTypeOK, Stamped, Started, RowInv, Kept
  <1>5. CASE HandleExit
    <2>1. child' = "reaped" /\ output' = output /\ Known
      BY <1>5 DEF HandleExit
    <2>2. CASE adapter.ended /\ UNCHANGED <<adapter, row, listening>>
      BY <2>1, <2>2, KnownType DEF TaskTypeOK, Stamped, Started, Child
    <2>3. ASSUME NEW event \in {"session.completed", "session.failed"},
                 adapter' = [status |-> StatusOf(event, adapter.status),
                             completed |-> TRUE, ended |-> TRUE],
                 Push(row, event)
          PROVE  TaskInv'
      <3>1. event \in Events
        BY DEF Events, Output
      <3>2. RowInv'
        BY <2>3, <3>1, PushKeeps
      <3>3. adapter' \in Session
        BY <2>1, <2>3, <3>1, KnownType, StatusOfType DEF Session
      <3>. QED
        BY <2>1, <2>3, <3>2, <3>3 DEF TaskTypeOK, Stamped, Started, Child, RowInv, Kept
    <2>. QED
      BY <1>5, <2>2, <2>3 DEF HandleExit
  <1>6. CASE Heartbeat
    <2>1. RowInv'
      BY <1>6, PushKeeps DEF Heartbeat, Events
    <2>. QED
      BY <1>6, <2>1, KnownType
      DEF Heartbeat, TaskTypeOK, Stamped, Started, Known, RowInv, Kept
  <1>7. CASE Request
    <2>1. PICK event \in Events : /\ Known /\ row # NoRow
                                  /\ UNCHANGED <<child, output>> /\ Persist(event)
      BY <1>7 DEF Request, Pause, Resume, Stop, Events, Output
    <2>2. adapter' \in Session /\ (adapter'.status \in Terminal => adapter'.completed)
      <3>1. CASE Pause
        BY <3>1, <2>1, KnownType DEF Pause, Session, Status, Terminal
      <3>2. CASE Resume
        BY <3>2, <2>1, KnownType DEF Resume, Session, Status, Terminal
      <3>3. CASE Stop
        BY <3>3 DEF Stop, Session, Status, Terminal
      <3>. QED
        BY <1>7, <3>1, <3>2, <3>3 DEF Request
    <2>3. PICK from \in {row, Written(adapter')} : Push(from, event)
      BY <2>1 DEF Persist
    <2>4. Written(adapter') \in Row /\ Kept(Written(adapter'))
      BY <2>2 DEF Written, Row, Session, Kept
    <2>5. Kept(from) /\ from # NoRow /\ listening \in BOOLEAN
      BY <2>1, <2>4, RowIsKept, RowIsNotNoRow DEF RowInv
    <2>6. RowInv'
      BY <2>3, <2>5, PushType DEF RowInv
    <2>. QED
      BY <2>1, <2>2, <2>6, KnownType DEF TaskTypeOK, Stamped, Started, RowInv, Kept
  <1>8. CASE Restart
    <2>1. /\ adapter' = NoSession /\ output' = <<>> /\ listening' = FALSE
          /\ UNCHANGED <<child, row>>
      BY <1>8 DEF Restart
    <2>2. output' \in Seq(Output) /\ Len(output') <= MaxOutput
      BY <2>1 DEF TaskOK
    <2>3. Stamped'
      BY <2>1 DEF Stamped, NoSession, TaskOK, Status
    <2>. QED
      BY <2>1, <2>2, <2>3 DEF TaskTypeOK, Started, Known
  <1>9. CASE UNCHANGED taskVars
    BY <1>9 DEF taskVars, TaskTypeOK, Stamped, Started, Known
  <1>. QED
    BY <1>1, <1>2, <1>3, <1>4, <1>5, <1>6, <1>7, <1>8, <1>9 DEF TaskNext

LEMMA Invariance == TaskSpec => []TaskInv
  BY InitInv, NextInv, PTL DEF TaskSpec

------------------------------------------------------------------------------

(* The variables stay in their types, no row is there before its task, and *)
(* the stream is read only for a task that has its row.                    *)
THEOREM TaskTypeCorrect == TaskSpec => []TaskTypeOK
  <1>1. TaskInv => TaskTypeOK
    BY DEF TaskInv
  <1>. QED
    BY <1>1, Invariance, PTL

(* A terminal status always comes with completed_at, also when pause,      *)
(* resume or stop copies the adapter's session over the row.               *)
THEOREM StampedForever == TaskSpec => []TerminalIsStamped
  <1>1. TaskInv => TerminalIsStamped
    BY DEF TaskInv, Stamped, TerminalIsStamped
  <1>. QED
    BY <1>1, Invariance, PTL

(* After the end of its session only a request changes a row. *)
THEOREM EndedIsStable == TaskSpec => EndedRowIsStable
  <1>1. TaskInv /\ [TaskNext]_taskVars => [Known /\ adapter.ended /\ row' # row => Request]_taskVars
    <2>. SUFFICES ASSUME TaskInv, TaskNext, Known, adapter.ended, row' # row PROVE Request
      OBVIOUS
    <2>1. ~Start
      BY KnownType DEF Start
    <2>2. ~Exit /\ ~Restart /\ ~Heartbeat /\ ~(\E event \in Output : Write(event))
      BY DEF Exit, Restart, Heartbeat, Write
    <2>3. ~HandleChunk /\ ~HandleExit
      BY DEF HandleChunk, HandleExit, Push
    <2>. QED
      BY <2>1, <2>2, <2>3 DEF TaskNext
  <1>. QED
    BY <1>1, Invariance, PTL DEF TaskSpec, EndedRowIsStable

(* The step that ends a session leaves one terminal status, the same in    *)
(* the adapter and in the row, while the service goes on reading.          *)
THEOREM EndingAgrees == TaskSpec => EndAgrees
  <1>1. TaskInv /\ [TaskNext]_taskVars =>
          [Known /\ ~adapter.ended /\ adapter'.ended /\ listening' =>
             row'.status \in Terminal /\ row'.status = adapter'.status]_taskVars
    <2>. SUFFICES ASSUME TaskInv, TaskNext, Known, ~adapter.ended, adapter'.ended,
                         listening'
                  PROVE  row'.status \in Terminal /\ row'.status = adapter'.status
      OBVIOUS
    <2>1. adapter \in Session /\ child # "none"
      BY KnownType
    <2>2. ~Start /\ ~Restart /\ adapter' # adapter
      BY <2>1 DEF Start, Restart
    <2>3. ASSUME NEW from, NEW event, Push(from, event)
          PROVE  row' = Consumed(from, event)
      BY <2>3 DEF Push, Take
    <2>4. CASE HandleExit
      <3>1. PICK event \in {"session.completed", "session.failed"} :
              /\ adapter' = [status |-> StatusOf(event, adapter.status),
                             completed |-> TRUE, ended |-> TRUE]
              /\ Push(row, event)
        BY <2>4, Zenon DEF HandleExit
      <3>2. row' = Consumed(row, event)
        BY <2>3, <3>1
      <3>3. row'.status = StatusOf(event, row.status)
        BY <3>2 DEF Consumed
      <3>. QED
        BY <3>1, <3>3 DEF StatusOf, Terminal
    <2>5. CASE Stop
      <3>1. PICK from \in {row, Written(adapter')} : Push(from, "session.cancelled")
        BY <2>5 DEF Stop, Persist
      <3>2. row' = Consumed(from, "session.cancelled")
        BY <2>3, <3>1
      <3>. QED
        BY <2>5, <3>2 DEF Stop, Consumed, StatusOf, Terminal
    <2>6. ~HandleChunk /\ ~Pause /\ ~Resume
      BY <2>1 DEF HandleChunk, Pause, Resume, Session
    <2>7. ~Heartbeat /\ ~Exit /\ ~(\E event \in Output : Write(event))
      BY <2>2 DEF Heartbeat, Exit, Write
    <2>. QED
      BY <2>2, <2>4, <2>5, <2>6, <2>7 DEF TaskNext, Request
  <1>. QED
    BY <1>1, Invariance, PTL DEF TaskSpec, EndAgrees

==============================================================================
