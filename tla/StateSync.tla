------------------------------- MODULE StateSync -------------------------------
(***************************************************************************)
(* The portable state: the scripts sync-state.sh and restore-state.sh that *)
(* setup.ts generates, run by requestAutoSync (sync.ts), by the pre-push   *)
(* hook and by run-daemon.sh on several machines with one remote.          *)
(*                                                                         *)
(* A sync is a process of its own that takes no lock: it may overlap with  *)
(* the saving of the state, with a restore and with another sync, on the   *)
(* same machine and on others.  A commit is the sequence of the commits    *)
(* it stands on and of itself; of the tracked files there are two, the     *)
(* documents, which are written and copied first, and the state.  All      *)
(* tracked files exist, and the PowerShell twins are not modelled.         *)
(***************************************************************************)
EXTENDS Naturals, SequencesExt

CONSTANTS
  Machine,
  Process,       \* sync processes there can be at once, each of a machine
  MachineOf,
  Config,        \* a machine's: [autoSync, portableState, onCheckpoint, onHandoff]
  Legacy,        \* what the branch holistic/state holds; <<>> if it is not there
  MaxSaves, MaxRestores, MaxRuns   \* bounds

Project == [by |-> "project", run |-> 0, temp |-> FALSE, docs |-> 0, state |-> 0,
            docsAt |-> 0, stateAt |-> 0]

ASSUME SyncOK ==
  /\ Process \subseteq Nat /\ MachineOf \in [Process -> Machine] /\ "project" \notin Machine
  /\ Config \in [Machine -> [autoSync : BOOLEAN, portableState : BOOLEAN,
                             onCheckpoint : BOOLEAN, onHandoff : BOOLEAN]]
  /\ {MaxSaves, MaxRestores, MaxRuns} \subseteq Nat
  /\ Legacy = <<>> \/ Legacy = <<[Project EXCEPT !.by = "legacy"]>>

VARIABLES
  ref,       \* refs/holistic/state on the remote; <<>> if it is not there
  files,     \* the tracked files: which save they are of, and when written
  saving,    \* the save whose documents are written and whose state is not yet
  index,     \* what git knows of them, if anything
  tip,       \* the local branch holistic-sync-tmp; <<>> if it is not there
  sync,      \* the processes of sync-state.sh
  restore,   \* the machine's run of restore-state.sh
  writes,    \* writes to the files of a machine
  saves, restores, runs

vars == <<ref, files, saving, index, tip, sync, restore, writes, saves, restores, runs>>

Commit == [by : Machine \cup {"project", "legacy"}, run : 0..MaxRuns, temp : BOOLEAN,
           docs : 0..MaxSaves, state : 0..MaxSaves, docsAt : Nat, stateAt : Nat]
Steps == {"idle", "probe", "probeLegacy", "fetch", "fetchLegacy", "orphan", "docs",
          "state", "commit", "push"}
NotTracked == <<>>

TypeOK ==
  /\ ref \in Seq(Commit)
  /\ files \in [Machine -> [docs : 0..MaxSaves, state : 0..MaxSaves,
                            docsAt : Nat, stateAt : Nat]]
  /\ saving \in [Machine -> 0..MaxSaves]
  /\ index \in [Machine -> {NotTracked} \cup ((0..MaxSaves) \X (0..MaxSaves))]
  /\ tip \in [Machine -> Seq(Commit)]
  /\ sync \in [Process -> [at : Steps, run : 0..MaxRuns, base : Seq(Commit),
                           onTemp : BOOLEAN, copy : Commit]]
  /\ restore \in [Machine -> [at : {"idle", "fetch", "legacy", "checkout"},
                              head : Seq(Commit)]]
  /\ writes \in [Machine -> Nat]
  /\ saves \in 0..MaxSaves /\ restores \in 0..MaxRestores /\ runs \in 0..MaxRuns

Idle == [at |-> "idle", run |-> 0, base |-> <<>>, onTemp |-> FALSE, copy |-> Project]

Init ==
  /\ ref = <<>>
  /\ files = [m \in Machine |-> [docs |-> 0, state |-> 0, docsAt |-> 0, stateAt |-> 0]]
  /\ saving = [m \in Machine |-> 0]
  /\ index \in [Machine -> {NotTracked, <<0, 0>>}]
  /\ tip = [m \in Machine |-> <<>>]
  /\ sync = [p \in Process |-> Idle]
  /\ restore = [m \in Machine |-> [at |-> "idle", head |-> <<>>]]
  /\ writes = [m \in Machine |-> 0]
  /\ saves = 0 /\ restores = 0 /\ runs = 0

------------------------------------------------------------------------------
(* The files, as the commands of Holistic write them. *)

WriteDocs(m) ==
  /\ saving[m] = 0 /\ saves < MaxSaves /\ saves' = saves + 1
  /\ saving' = [saving EXCEPT ![m] = saves']
  /\ writes' = [writes EXCEPT ![m] = @ + 1]
  /\ files' = [files EXCEPT ![m].docs = saves', ![m].docsAt = writes'[m]]
  /\ UNCHANGED <<ref, index, tip, sync, restore, restores, runs>>

WriteState(m) ==
  /\ saving[m] # 0 /\ saving' = [saving EXCEPT ![m] = 0]
  /\ writes' = [writes EXCEPT ![m] = @ + 1]
  /\ files' = [files EXCEPT ![m].state = saving[m], ![m].stateAt = writes'[m]]
  /\ UNCHANGED <<ref, index, tip, sync, restore, saves, restores, runs>>

------------------------------------------------------------------------------
(* sync-state.sh.  Every command may fail or find the remote out of reach,  *)
(* and the process may be killed: Quit.                                     *)

GoTo(p, at) == sync' = [sync EXCEPT ![p].at = at]
Ends(p) == sync' = [sync EXCEPT ![p] = Idle]
LocalUnchanged ==
  UNCHANGED <<files, saving, index, restore, writes, saves, restores>>

(* requestAutoSync asks after a checkpoint and after a handoff, the pre-push *)
(* hook by itself.                                                          *)
Wanted(config, trigger) ==
  /\ config.portableState
  /\ trigger # "push" => config.autoSync
  /\ trigger = "checkpoint" => config.onCheckpoint
  /\ trigger = "handoff" => config.onHandoff

(* The worktree starts at the commit of the project that is checked out. *)
Start(p, trigger) ==
  /\ Wanted(Config[MachineOf[p]], trigger)
  /\ sync[p].at = "idle" /\ runs < MaxRuns /\ runs' = runs + 1
  /\ \A q \in Process : q < p /\ MachineOf[q] = MachineOf[p] => sync[q].at # "idle"
  /\ sync' = [sync EXCEPT ![p] = [Idle EXCEPT !.at = "probe", !.run = runs',
                                              !.base = <<Project>>]]
  /\ UNCHANGED <<ref, tip>> /\ LocalUnchanged

Quit(p) ==
  /\ sync[p].at # "idle" /\ Ends(p)
  /\ UNCHANGED <<ref, tip, runs>> /\ LocalUnchanged

(* A remote that cannot be reached looks like one without the ref. *)
Probe(p) ==
  /\ sync[p].at = "probe"
  /\ \/ ref # <<>> /\ GoTo(p, "fetch")
     \/ GoTo(p, IF Legacy # <<>> THEN "probeLegacy" ELSE "orphan")
  /\ UNCHANGED <<ref, tip, runs>> /\ LocalUnchanged

ProbeLegacy(p) ==
  /\ sync[p].at = "probeLegacy"
  /\ GoTo(p, "fetchLegacy") \/ GoTo(p, "orphan")
  /\ UNCHANGED <<ref, tip, runs>> /\ LocalUnchanged

SwitchTo(p, commit) ==
  sync' = [sync EXCEPT ![p].at = "docs", ![p].base = commit]

Fetch(p) ==
  /\ \/ sync[p].at = "fetch" /\ SwitchTo(p, ref)
     \/ sync[p].at = "fetchLegacy" /\ SwitchTo(p, Legacy)
  /\ UNCHANGED <<ref, tip, runs>> /\ LocalUnchanged

(* Mutant: the script goes on where it is. *)
StayAnyway(p) == GoTo(p, "docs")

(* git refuses to make a branch that exists. *)
RefuseOrphan(p) == Ends(p)

Orphan(p) ==
  /\ sync[p].at = "orphan"
  /\ IF tip[MachineOf[p]] = <<>>
     THEN sync' = [sync EXCEPT ![p].at = "docs", ![p].onTemp = TRUE]
     ELSE RefuseOrphan(p)
  /\ UNCHANGED <<ref, tip, runs>> /\ LocalUnchanged

CopyDocs(p) ==
  /\ sync[p].at = "docs"
  /\ sync' = [sync EXCEPT ![p].at = "state",
                          ![p].copy.docs = files[MachineOf[p]].docs,
                          ![p].copy.docsAt = files[MachineOf[p]].docsAt]
  /\ UNCHANGED <<ref, tip, runs>> /\ LocalUnchanged

CopyState(p) ==
  /\ sync[p].at = "state"
  /\ sync' = [sync EXCEPT ![p].at = "commit",
                          ![p].copy.state = files[MachineOf[p]].state,
                          ![p].copy.stateAt = files[MachineOf[p]].stateAt]
  /\ UNCHANGED <<ref, tip, runs>> /\ LocalUnchanged

(* Mutant: the ref is fetched once more before the commit. *)
HeadAsOfNow(p) ==
  IF sync[p].onTemp THEN tip[MachineOf[p]]
  ELSE IF sync[p].at = "commit" THEN ref ELSE sync[p].base

(* On the temporary branch HEAD is what the branch is by now: another sync  *)
(* of the machine may be on it too.                                         *)
Head_(p) == IF sync[p].onTemp THEN tip[MachineOf[p]] ELSE sync[p].base

SameTree(c, d) == c.docs = d.docs /\ c.state = d.state

(* Nothing to commit, and a commit that fails, are no reason to stop. *)
MakeCommit(p) ==
  LET m == MachineOf[p]
      new == [sync[p].copy EXCEPT !.by = m, !.run = sync[p].run, !.temp = sync[p].onTemp]
      head == Head_(p)
      Leaves(base) == sync' = [sync EXCEPT ![p].at = "push", ![p].base = base,
                                           ![p].copy = Project]
  IN /\ sync[p].at = "commit"
     /\ \/ /\ head # <<>> => ~SameTree(head[Len(head)], new)
           /\ IF sync[p].onTemp
              THEN tip' = [tip EXCEPT ![m] = Append(head, new)] /\ Leaves(sync[p].base)
              ELSE UNCHANGED tip /\ Leaves(Append(head, new))
        \/ UNCHANGED tip /\ Leaves(sync[p].base)
     /\ UNCHANGED <<ref, runs>> /\ LocalUnchanged

(* Mutant: git push --force. *)
Forced(commit) == commit # <<>>

Accepted(commit) == commit # <<>> /\ IsPrefix(ref, commit)

(* The remote takes what the ref can be forwarded to; a push that it does   *)
(* not take, or that does not reach it, is Quit.                            *)
Push(p) ==
  /\ sync[p].at = "push" /\ Accepted(Head_(p))
  /\ ref' = Head_(p) /\ Ends(p)
  /\ UNCHANGED <<tip, runs>> /\ LocalUnchanged

------------------------------------------------------------------------------
(* restore-state.sh, before the daemon starts. *)

Dirty(m) == index[m] # NotTracked /\ index[m] # <<files[m].docs, files[m].state>>

RestoreTo(m, at, head) == restore' = [restore EXCEPT ![m] = [at |-> at, head |-> head]]

(* Files git does not know of are not different from what it knows. *)
RestoreStart(m) ==
  /\ restore[m].at = "idle" /\ restores < MaxRestores /\ restores' = restores + 1
  /\ Config[m].portableState /\ ~Dirty(m) /\ RestoreTo(m, "fetch", <<>>)
  /\ UNCHANGED <<ref, files, saving, index, tip, sync, writes, saves, runs>>

(* Whatever keeps the ref from being fetched, the old branch is tried. *)
RestoreFetch(m) ==
  /\ \/ restore[m].at = "fetch" /\ ref # <<>> /\ RestoreTo(m, "checkout", ref)
     \/ restore[m].at = "fetch" /\ Legacy # <<>> /\ RestoreTo(m, "legacy", <<>>)
     \/ restore[m].at = "legacy" /\ RestoreTo(m, "checkout", Legacy)
     \/ restore[m].at \in {"fetch", "legacy"} /\ RestoreTo(m, "idle", <<>>)
  /\ UNCHANGED <<ref, files, saving, index, tip, sync, writes, saves, restores, runs>>

RestoreCheckout(m) ==
  LET tree == restore[m].head[Len(restore[m].head)]
  IN /\ restore[m].at = "checkout" /\ RestoreTo(m, "idle", <<>>)
     /\ writes' = [writes EXCEPT ![m] = @ + 1]
     /\ files' = [files EXCEPT ![m] = [docs |-> tree.docs, state |-> tree.state,
                                       docsAt |-> writes'[m], stateAt |-> writes'[m]]]
     /\ index' = [index EXCEPT ![m] = <<tree.docs, tree.state>>]
     /\ UNCHANGED <<ref, saving, tip, sync, saves, restores, runs>>

------------------------------------------------------------------------------
SyncStep(p) ==
  \/ (\E trigger \in {"checkpoint", "handoff", "push"} : Start(p, trigger))
  \/ Quit(p) \/ Probe(p) \/ ProbeLegacy(p) \/ Fetch(p) \/ Orphan(p)
  \/ CopyDocs(p) \/ CopyState(p) \/ MakeCommit(p) \/ Push(p)

LocalStep(m) ==
  \/ WriteDocs(m) \/ WriteState(m)
  \/ RestoreStart(m) \/ RestoreFetch(m) \/ RestoreCheckout(m)

Next == (\E p \in Process : SyncStep(p)) \/ (\E m \in Machine : LocalStep(m))

Spec == Init /\ [][Next]_vars

------------------------------------------------------------------------------
(* What was pushed once stays in the history of the ref, whichever machines *)
(* sync at the same time and whatever they saw of the remote.               *)
HistoryGrows == [][IsPrefix(ref, ref')]_ref

(* Only portable state is mirrored: the project's own commits are never     *)
(* under the ref, whatever fails on the way from the project's checkout to  *)
(* the push.                                                                *)
WorkingBranchStaysHome == \A i \in DOMAIN ref : ref[i].by # "project"

(* A sync that is overtaken by another sync of its machine does not take    *)
(* newer files back: later commits hold what was written later, for both    *)
(* parts of the files.  It copies after it has fetched.  (Two first syncs   *)
(* at once share the temporary branch, and do take them back.)              *)
NewestFilesWin ==
  \A i, j \in DOMAIN ref :
    i < j /\ ref[i].by = ref[j].by /\ ~ref[j].temp =>
      ref[i].docsAt <= ref[j].docsAt /\ ref[i].stateAt <= ref[j].stateAt

=============================================================================
