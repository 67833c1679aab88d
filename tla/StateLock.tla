------------------------------ MODULE StateLock ------------------------------
(***************************************************************************)
(* src/core/lock.ts: withLockSync, the advisory lock around every          *)
(* read-modify-write of state.json.  The CLI, the MCP server and the       *)
(* daemon are separate processes that share nothing but the lock file.     *)
(*                                                                         *)
(* Time is abstracted to the one question the code asks of it: whether the *)
(* call has been waiting for LOCK_TIMEOUT_MS (late).  Each file operation  *)
(* is a step of its own, because the file can change between any two.      *)
(***************************************************************************)
EXTENDS Naturals, FiniteSets

CONSTANTS
  Proc,         \* process ids
  Nobody,
  Patient,      \* the processes whose wait can last LOCK_TIMEOUT_MS
  Periodic,     \* the processes that call again and again (the daemon's timer)
  Mortal,       \* the processes that may die
  DeathPoints,  \* the control points at which they may die
  PidReuse,     \* whether the pid of a dead process is given to a new one
  WriteGap,     \* whether the file can be read between its creation and its write
  UnlinkFails   \* whether the unlink of the finally block can fail

ControlPoints == {"idle", "try", "write", "read", "probe", "unlink", "critical"}

LockFile == [pid : Proc, written : BOOLEAN]

ASSUME LockOK ==
  /\ Nobody \notin Proc /\ Nobody \notin LockFile
  /\ Patient \subseteq Proc /\ Periodic \subseteq Proc /\ Mortal \subseteq Proc
  /\ DeathPoints \subseteq ControlPoints
  /\ PidReuse \in BOOLEAN /\ WriteGap \in BOOLEAN /\ UnlinkFails \in BOOLEAN

VARIABLES
  lockFile,  \* Nobody, or the creator of state.json.lock and whether its pid is written
  pc,        \* where each process is in withLockSync
  late,      \* Date.now() - startedAt >= LOCK_TIMEOUT_MS; startedAt is never reset
  seen,      \* the pid a process has read from the lock file
  alive,
  readers,   \* history: the processes that have read the file that is there now
  robbed     \* history: whether a recovery has removed a lock that was not stale

lockVars == <<lockFile, pc, late, seen, alive, readers, robbed>>
lockHistory == <<readers, robbed>>

LockTypeOK ==
  /\ lockFile \in LockFile \cup {Nobody}
  /\ pc \in [Proc -> ControlPoints]
  /\ late \in [Proc -> BOOLEAN]
  /\ seen \in [Proc -> Proc \cup {Nobody}]
  /\ alive \in [Proc -> BOOLEAN]
  /\ readers \subseteq Proc
  /\ robbed \in BOOLEAN

LockInit ==
  /\ lockFile = Nobody
  /\ pc = [p \in Proc |-> "idle"]
  /\ late = [p \in Proc |-> FALSE]
  /\ seen = [p \in Proc |-> Nobody]
  /\ alive = [p \in Proc |-> TRUE]
  /\ readers = {} /\ robbed = FALSE

GoTo(p, point) == pc' = [pc EXCEPT ![p] = point]

(* The call ends: it returns fn's result, or throws. *)
EndCall(p) ==
  /\ GoTo(p, "idle")
  /\ late' = [late EXCEPT ![p] = FALSE]
  /\ seen' = [seen EXCEPT ![p] = Nobody]

Call(p) ==
  /\ pc[p] = "idle" /\ alive[p]
  /\ GoTo(p, "try")
  /\ UNCHANGED <<lockFile, late, seen, alive, lockHistory>>

(* The sleeps of the retry loop add up to LOCK_TIMEOUT_MS. *)
TimePasses(p) ==
  /\ pc[p] = "try" /\ p \in Patient /\ ~late[p]
  /\ late' = [late EXCEPT ![p] = TRUE]
  /\ UNCHANGED <<lockFile, pc, seen, alive, lockHistory>>

(* Mutant: the create is not exclusive. *)
CreateAnyway(p) ==
  /\ pc[p] = "try"
  /\ lockFile' = [pid |-> p, written |-> ~WriteGap]
  /\ GoTo(p, IF WriteGap THEN "write" ELSE "critical")
  /\ readers' = {}
  /\ UNCHANGED <<late, seen, alive, robbed>>

(* writeFileSync with flag wx: an exclusive create, then the write. *)
CreateLock(p) ==
  /\ pc[p] = "try" /\ lockFile = Nobody
  /\ lockFile' = [pid |-> p, written |-> ~WriteGap]
  /\ GoTo(p, IF WriteGap THEN "write" ELSE "critical")
  /\ readers' = {}
  /\ UNCHANGED <<late, seen, alive, robbed>>

(* The write goes to the file p created, even if its name is gone by now. *)
WriteOwnPid(p) ==
  /\ pc[p] = "write"
  /\ lockFile' = IF lockFile # Nobody /\ lockFile.pid = p
                 THEN [lockFile EXCEPT !.written = TRUE] ELSE lockFile
  /\ GoTo(p, "critical")
  /\ UNCHANGED <<late, seen, alive, lockHistory>>

(* EEXIST after the timeout: see whether the holder crashed. *)
FindExisting(p) ==
  /\ pc[p] = "try" /\ lockFile # Nobody /\ late[p]
  /\ GoTo(p, "read")
  /\ UNCHANGED <<lockFile, late, seen, alive, lockHistory>>

(* readFileSync: a missing file makes recovery fail and the call throw; an *)
(* empty one parses to NaN and counts as corrupt.                          *)
ReadLock(p) ==
  /\ pc[p] = "read"
  /\ \/ /\ lockFile = Nobody
        /\ EndCall(p)
        /\ UNCHANGED readers
     \/ /\ lockFile # Nobody /\ ~lockFile.written
        /\ GoTo(p, "unlink")
        /\ readers' = readers \cup {p}
        /\ UNCHANGED <<late, seen>>
     \/ /\ lockFile # Nobody /\ lockFile.written
        /\ seen' = [seen EXCEPT ![p] = lockFile.pid]
        /\ GoTo(p, "probe")
        /\ readers' = readers \cup {p}
        /\ UNCHANGED late
  /\ UNCHANGED <<lockFile, alive, robbed>>

(* Mutant: the lock of a live process counts as stale. *)
ProbeNobody(p) ==
  /\ pc[p] = "probe"
  /\ GoTo(p, "unlink")
  /\ UNCHANGED <<lockFile, late, seen, alive, lockHistory>>

(* Mutant: a live holder is waited for again, without the timeout. *)
ProbeAndRetry(p) ==
  /\ pc[p] = "probe"
  /\ GoTo(p, IF alive[seen[p]] THEN "try" ELSE "unlink")
  /\ UNCHANGED <<lockFile, late, seen, alive, lockHistory>>

(* process.kill(pid, 0) *)
ProbeHolder(p) ==
  /\ pc[p] = "probe"
  /\ \/ /\ alive[seen[p]]
        /\ EndCall(p)
     \/ /\ ~alive[seen[p]]
        /\ GoTo(p, "unlink")
        /\ UNCHANGED <<late, seen>>
  /\ UNCHANGED <<lockFile, alive, lockHistory>>

(* Mutant: a stale lock is reported, not removed. *)
LeaveStale(p) ==
  /\ pc[p] = "unlink"
  /\ EndCall(p)
  /\ UNCHANGED <<lockFile, alive, lockHistory>>

(* The file is the one p has read, and if p found it empty its creator is   *)
(* not about to fill it, and has not filled it since.                      *)
IsStale(p) ==
  /\ p \in readers
  /\ seen[p] = Nobody => pc[lockFile.pid] \notin {"write", "critical"}

(* unlinkSync removes whatever has the lock file's name by now; when       *)
(* nothing has, it throws, recovery fails and so does the call.            *)
UnlinkStale(p) ==
  /\ pc[p] = "unlink"
  /\ \/ /\ lockFile # Nobody
        /\ lockFile' = Nobody /\ readers' = {}
        /\ robbed' = (robbed \/ ~IsStale(p))
        /\ GoTo(p, "try")
        /\ seen' = [seen EXCEPT ![p] = Nobody]
        /\ UNCHANGED late
     \/ /\ lockFile = Nobody
        /\ EndCall(p)
        /\ UNCHANGED <<lockFile, lockHistory>>
  /\ UNCHANGED alive

(* fn has returned or thrown; the finally block unlinks the name, whoever  *)
(* it belongs to, and ignores a failure.                                   *)
Release(p) ==
  /\ pc[p] = "critical"
  /\ \/ lockFile' = Nobody /\ readers' = {}
     \/ UnlinkFails /\ UNCHANGED <<lockFile, readers>>
  /\ EndCall(p)
  /\ UNCHANGED <<alive, robbed>>

Perish(p) ==
  /\ p \in Mortal /\ alive[p] /\ pc[p] \in DeathPoints
  /\ alive' = [alive EXCEPT ![p] = FALSE]
  /\ EndCall(p)
  /\ UNCHANGED <<lockFile, lockHistory>>

(* The operating system gives a dead process's pid to a new process. *)
ReusePid(p) ==
  /\ PidReuse /\ ~alive[p]
  /\ alive' = [alive EXCEPT ![p] = TRUE]
  /\ UNCHANGED <<lockFile, pc, late, seen, lockHistory>>

Step(p) ==
  \/ TimePasses(p) \/ CreateLock(p) \/ WriteOwnPid(p) \/ FindExisting(p)
  \/ ReadLock(p) \/ ProbeHolder(p) \/ UnlinkStale(p) \/ Release(p)

LockNext == \E p \in Proc : Call(p) \/ Step(p) \/ Perish(p) \/ ReusePid(p)

LockSpec == LockInit /\ [][LockNext]_lockVars

(***************************************************************************)
(* Fairness: a live process runs, so each step it can take it takes; a     *)
(* periodic process keeps calling.  Nobody is obliged to die.              *)
(***************************************************************************)
Fairness ==
  /\ \A p \in Proc : WF_lockVars(Step(p))
  /\ \A p \in Periodic : WF_lockVars(Call(p))

FairLockSpec == LockSpec /\ Fairness

-----------------------------------------------------------------------------

InCritical == {p \in Proc : pc[p] = "critical"}

(* Two processes are never inside the protected function together.  This   *)
(* is what makes each load-change-save of state.json atomic; the code      *)
(* keeps it only as long as no recovery removes a lock that is not stale.  *)
MutualExclusion == \A p, q \in InCritical : p = q

(* The lock file of a process in its critical section is there, is its own *)
(* and holds its pid: whoever reads it finds the process it must not rob.  *)
HolderOwnsFile ==
  \A p \in InCritical :
    lockFile # Nobody /\ lockFile.pid = p /\ lockFile.written

(* What each caller relies on, as an abstract lock. *)
Owner == IF InCritical = {} THEN Nobody ELSE CHOOSE p \in InCritical : TRUE

Abstract == INSTANCE AbstractLock WITH owner <- Owner

(* withLockSync implements the abstract lock: ownership never passes from  *)
(* one live holder to the next without being given up first.               *)
ImplementsLock == Abstract!Spec

(* A lock file left behind by a process that is no longer in withLockSync  *)
(* does not stay, as long as one live process keeps asking for the lock: a *)
(* crashed daemon or command does not block every state operation for good.*)
StaleLockRemoved ==
  \A p \in Proc :
    (lockFile # Nobody /\ lockFile.pid = p /\ pc[p] = "idle")
      ~> ~(lockFile # Nobody /\ lockFile.pid = p /\ pc[p] = "idle")

(* A call that can time out gets the lock or throws.  It hangs only if it   *)
(* finds a stale lock after every one that it removes: a recovery starts    *)
(* the loop of withLockSync again without a limit.                          *)
CallReturns ==
  \A p \in Patient :
    <>[][~UnlinkStale(p)]_lockVars => (pc[p] = "try" ~> pc[p] \in {"idle", "critical"})

=============================================================================
