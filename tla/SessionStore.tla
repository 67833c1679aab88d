----------------------------- MODULE SessionStore -----------------------------
(***************************************************************************)
(* src/core/state.ts: the session records in sessions/ and in its archive, *)
(* file by file.  Hygiene moves an old session to the archive,             *)
(* reactivation moves it back, and both copy before they unlink.           *)
(*                                                                         *)
(* Hygiene and the reactivation of a handoff's related sessions run under  *)
(* the state lock; holistic diff and search reactivate and look up without *)
(* it.  A write is two steps, because writeFileSync truncates first.       *)
(***************************************************************************)
EXTENDS Integers, FiniteSets

CONSTANTS
  OldSession,  \* sessions ended more than 30 days ago
  Keeper,      \* processes that hold the lock: daemon, start-new, resume, handoff
  Command,     \* holistic diff and holistic search
  Nil,
  MaxFaults    \* bound: crashes between two steps and failed writes

Proc == Keeper \cup Command
File == {"absent", "partial", "whole"}
Points == {"idle", "pick", "fillArchive", "unlinkActive", "load", "openActive",
           "fillActive", "unlinkArchive", "lookActive", "lookArchive", "crashed"}

ASSUME StoreOK ==
  /\ Keeper \cap Command = {}
  /\ Nil \notin Proc \cup OldSession
  /\ MaxFaults \in Nat

VARIABLES
  active,   \* sessions/<id>.json
  archived, \* the archive's <id>.json
  pinned,   \* the sessions that referencedSessionIds names
  lock,     \* the holder of the state lock
  pc,
  at,       \* the session a process is moving or looking for
  todo,     \* the candidates a hygiene run has read and not yet moved
  faults,
  met       \* history: the sessions that two processes had to do with at once

stepVars == <<active, archived, pinned, lock, pc, at, todo, faults>>
storeVars == <<stepVars, met>>

StoreTypeOK ==
  /\ active \in [OldSession -> File]
  /\ archived \in [OldSession -> File]
  /\ pinned \subseteq OldSession
  /\ lock \in Keeper \cup {Nil}
  /\ pc \in [Proc -> Points]
  /\ at \in [Proc -> OldSession \cup {Nil}]
  /\ todo \in [Proc -> SUBSET OldSession]
  /\ faults \in 0..MaxFaults
  /\ met \subseteq OldSession

(* Every session starts in one of the two directories. *)
StoreInit ==
  /\ active \in [OldSession -> {"absent", "whole"}]
  /\ archived = [s \in OldSession |-> IF active[s] = "whole" THEN "absent" ELSE "whole"]
  /\ pinned \in SUBSET OldSession
  /\ lock = Nil
  /\ pc = [p \in Proc |-> "idle"]
  /\ at = [p \in Proc |-> Nil]
  /\ todo = [p \in Proc |-> {}]
  /\ faults = 0
  /\ met = {}

GoTo(p, point) == pc' = [pc EXCEPT ![p] = point]

Truncated(dir, s) == [dir EXCEPT ![s] = "partial"]
(* The write goes to the file that was opened, which may be unlinked by now. *)
Filled(dir, s) == [dir EXCEPT ![s] = IF @ = "absent" THEN "absent" ELSE "whole"]
Unlinked(dir, s) == [dir EXCEPT ![s] = "absent"]

------------------------------------------------------------------------------
(* runSessionHygiene *)

SkipDuplicates(p) ==
  /\ p \in Keeper /\ pc[p] = "idle" /\ lock = Nil
  /\ lock' = p
  /\ todo' = [todo EXCEPT ![p] =
                {s \in OldSession \ pinned : active[s] = "whole" /\ archived[s] = "absent"}]
  /\ GoTo(p, "pick")
  /\ UNCHANGED <<active, archived, pinned, at, faults>>

(* findArchiveCandidates reads every record before any is moved. *)
StartHygiene(p) ==
  /\ p \in Keeper /\ pc[p] = "idle" /\ lock = Nil
  /\ lock' = p
  /\ todo' = [todo EXCEPT ![p] = {s \in OldSession \ pinned : active[s] = "whole"}]
  /\ GoTo(p, "pick")
  /\ UNCHANGED <<active, archived, pinned, at, faults>>

OpenArchiveByRenaming(p, s) ==
  /\ pc[p] = "pick" /\ s \in todo[p]
  /\ archived' = Truncated(archived, s)
  /\ active' = Unlinked(active, s)
  /\ at' = [at EXCEPT ![p] = s]
  /\ todo' = [todo EXCEPT ![p] = @ \ {s}]
  /\ GoTo(p, "fillArchive")
  /\ UNCHANGED <<pinned, lock, faults>>

OpenArchive(p, s) ==
  /\ pc[p] = "pick" /\ s \in todo[p]
  /\ archived' = Truncated(archived, s)
  /\ at' = [at EXCEPT ![p] = s]
  /\ todo' = [todo EXCEPT ![p] = @ \ {s}]
  /\ GoTo(p, "fillArchive")
  /\ UNCHANGED <<active, pinned, lock, faults>>

FillArchive(p) ==
  /\ pc[p] = "fillArchive"
  /\ archived' = Filled(archived, at[p])
  /\ GoTo(p, "unlinkActive")
  /\ UNCHANGED <<active, pinned, lock, at, todo, faults>>

(* An unlink of a missing file throws, and the loop goes on. *)
UnlinkActive(p) ==
  /\ pc[p] = "unlinkActive"
  /\ active' = Unlinked(active, at[p])
  /\ GoTo(p, "pick")
  /\ UNCHANGED <<archived, pinned, lock, at, todo, faults>>

EndHygiene(p) ==
  /\ pc[p] = "pick" /\ todo[p] = {}
  /\ lock' = Nil
  /\ GoTo(p, "idle")
  /\ UNCHANGED <<active, archived, pinned, at, todo, faults>>

------------------------------------------------------------------------------
(* reactivateArchivedSession *)

(* A handoff has just written the record that names s as a related session *)
(* and holds the lock; diff and search do neither.                         *)
StartReactivation(p, s) ==
  /\ pc[p] = "idle"
  /\ \/ p \in Keeper /\ lock = Nil /\ lock' = p /\ pinned' = pinned \cup {s}
     \/ p \in Command /\ UNCHANGED <<lock, pinned>>
  /\ at' = [at EXCEPT ![p] = s]
  /\ GoTo(p, "load")
  /\ UNCHANGED <<active, archived, todo, faults>>

(* It returns: a command goes on to look the session up. *)
Return(p) ==
  IF p \in Keeper THEN lock' = Nil /\ GoTo(p, "idle")
  ELSE UNCHANGED lock /\ GoTo(p, "lookActive")

(* Nothing to move: no file, or one that does not parse. *)
LoadNothing(p) ==
  /\ pc[p] = "load" /\ archived[at[p]] # "whole"
  /\ Return(p)
  /\ UNCHANGED <<active, archived, pinned, at, todo, faults>>

LoadArchived(p) ==
  /\ pc[p] = "load" /\ archived[at[p]] = "whole"
  /\ GoTo(p, "openActive")
  /\ UNCHANGED <<active, archived, pinned, lock, at, todo, faults>>

OpenActiveByRenaming(p) ==
  /\ pc[p] = "openActive"
  /\ active' = Truncated(active, at[p])
  /\ archived' = Unlinked(archived, at[p])
  /\ GoTo(p, "fillActive")
  /\ UNCHANGED <<pinned, lock, at, todo, faults>>

OpenActive(p) ==
  /\ pc[p] = "openActive"
  /\ active' = Truncated(active, at[p])
  /\ GoTo(p, "fillActive")
  /\ UNCHANGED <<archived, pinned, lock, at, todo, faults>>

FillActive(p) ==
  /\ pc[p] = "fillActive"
  /\ active' = Filled(active, at[p])
  /\ GoTo(p, "unlinkArchive")
  /\ UNCHANGED <<archived, pinned, lock, at, todo, faults>>

UnlinkArchive(p) ==
  /\ pc[p] = "unlinkArchive"
  /\ archived' = Unlinked(archived, at[p])
  /\ Return(p)
  /\ UNCHANGED <<active, pinned, at, todo, faults>>

(* loadSessionById reads one directory, then the other, and skips files    *)
(* that do not parse.                                                      *)
LookActive(p) ==
  /\ pc[p] = "lookActive"
  /\ GoTo(p, IF active[at[p]] = "whole" THEN "idle" ELSE "lookArchive")
  /\ UNCHANGED <<active, archived, pinned, lock, at, todo, faults>>

LookArchive(p) ==
  /\ pc[p] = "lookArchive"
  /\ GoTo(p, "idle")
  /\ UNCHANGED <<active, archived, pinned, lock, at, todo, faults>>

------------------------------------------------------------------------------

(* Pending work is consumed or pruned, a handoff superseded, or the record *)
(* that named s as related archived.                                       *)
Unpin(s) ==
  /\ lock = Nil /\ s \in pinned
  /\ pinned' = pinned \ {s}
  /\ UNCHANGED <<active, archived, lock, pc, at, todo, faults>>

(* A failed write is caught: hygiene goes on to the next session, and      *)
(* reactivation returns null.  The truncated file stays.                   *)
FailWrite(p) ==
  /\ faults < MaxFaults
  /\ faults' = faults + 1
  /\ \/ pc[p] = "fillArchive" /\ GoTo(p, "pick") /\ UNCHANGED lock
     \/ pc[p] = "fillActive" /\ Return(p)
  /\ UNCHANGED <<active, archived, pinned, at, todo>>

Crash(p) ==
  /\ pc[p] \notin {"idle", "crashed"} /\ faults < MaxFaults
  /\ faults' = faults + 1
  /\ GoTo(p, "crashed")
  /\ UNCHANGED <<active, archived, pinned, lock, at, todo>>

(* The next process to want the lock recovers it: see StateLock. *)
Restart(p) ==
  /\ pc[p] = "crashed"
  /\ lock' = IF lock = p THEN Nil ELSE lock
  /\ todo' = [todo EXCEPT ![p] = {}]
  /\ GoTo(p, "idle")
  /\ UNCHANGED <<active, archived, pinned, at, faults>>

HygieneStep(p) ==
  \/ \E s \in OldSession : OpenArchive(p, s)
  \/ FillArchive(p) \/ UnlinkActive(p) \/ EndHygiene(p)

ReactivationStep(p) ==
  \/ LoadNothing(p) \/ LoadArchived(p) \/ OpenActive(p) \/ FillActive(p)
  \/ UnlinkArchive(p) \/ LookActive(p) \/ LookArchive(p)

StoreStep ==
  \/ \E p \in Proc :
       \/ StartHygiene(p) \/ HygieneStep(p)
       \/ \E s \in OldSession : StartReactivation(p, s)
       \/ ReactivationStep(p)
       \/ FailWrite(p) \/ Crash(p) \/ Restart(p)
  \/ \E s \in OldSession : Unpin(s)

(***************************************************************************)
(* History: a process moves a session from the read that makes it a        *)
(* candidate to the unlink, and uses one that it moves or has missed in    *)
(* sessions/ and not yet looked up in the archive.  The lock keeps the     *)
(* moves of two keepers apart; nothing keeps a diff or a search from a     *)
(* session that another process is moving.                                 *)
(***************************************************************************)
Moves(p) ==
  {s \in OldSession :
     \/ pc[p] \in {"pick", "fillArchive", "unlinkActive"} /\ s \in todo[p]
     \/ pc[p] \in {"fillArchive", "unlinkActive", "openActive", "fillActive",
                   "unlinkArchive"} /\ s = at[p]}

Uses(p) == Moves(p) \cup {s \in OldSession : pc[p] = "lookArchive" /\ s = at[p]}

Meeting ==
  {s \in OldSession : \E p, q \in Proc : p # q /\ s \in Moves(p) \cap Uses(q)}

StoreNext == StoreStep /\ met' = met \cup Meeting'

StoreSpec == StoreInit /\ [][StoreNext]_storeVars

(***************************************************************************)
(* Fairness: the daemon ticks every minute and each tick runs hygiene once *)
(* it gets the lock; whoever runs goes on; crashed processes are replaced. *)
(***************************************************************************)
Fairness ==
  \A p \in Proc :
    /\ SF_stepVars(StartHygiene(p))
    /\ WF_stepVars(HygieneStep(p))
    /\ WF_stepVars(ReactivationStep(p))
    /\ WF_stepVars(Restart(p))

FairStoreSpec == StoreSpec /\ Fairness

------------------------------------------------------------------------------

(* The crash-safe ordering: whoever crashes where and whichever write       *)
(* fails, a session that two processes never met over has at least one copy *)
(* that can be read.                                                        *)
NoSessionLost ==
  \A s \in OldSession \ met : active[s] = "whole" \/ archived[s] = "whole"

(* A session that was moved is still in one of the two directories, whoever *)
(* met over it.                                                             *)
NoSessionErased ==
  \A s \in OldSession : active[s] # "absent" \/ archived[s] # "absent"

(* A crash between copy and unlink leaves a duplicate, and one between     *)
(* truncation and write half a file.  Hygiene still gets every session     *)
(* that nothing refers to, and that nobody else is moving, into the        *)
(* archive and out of sessions/.                                           *)
StaleSettles ==
  \A s \in OldSession :
    (active[s] = "whole" /\ s \notin pinned)
      ~> (s \in pinned \cup met \/ (archived[s] = "whole" /\ active[s] # "whole"))

(* A lookup that has missed in sessions/ finds the session in the archive, *)
(* whatever earlier diffs and searches left half done, unless somebody was *)
(* moving it meanwhile.                                                    *)
LookupFinds ==
  [][\A c \in Command :
       pc[c] = "lookArchive" /\ pc'[c] = "idle" =>
         archived[at[c]] = "whole" \/ at[c] \in met]_storeVars

(* diff and search do not write. *)
CommandsOnlyRead ==
  [][\A c \in Command : pc'[c] # pc[c] => UNCHANGED <<active, archived>>]_storeVars

==============================================================================
