---------------------------- MODULE StateSyncProofs ----------------------------
(***************************************************************************)
(* Proofs about StateSync, for any machines and any sync processes: types, *)
(* that the history under the ref only grows, that the project's commits   *)
(* never get there, and that a sync does not take back newer files.        *)
(***************************************************************************)
EXTENDS StateSync, SequenceTheorems, TLAPS

SyncType == [at : Steps, run : 0..MaxRuns, base : Seq(Commit), onTemp : BOOLEAN,
             copy : Commit]
FilesType == [docs : 0..MaxSaves, state : 0..MaxSaves, docsAt : Nat, stateAt : Nat]

LEMMA ProjectType == Project \in Commit
  BY SyncOK DEF Project, Commit

LEMMA LegacyType == Legacy \in Seq(Commit)
<1>1. CASE Legacy = <<>>
  BY <1>1
<1>2. CASE Legacy = <<[Project EXCEPT !.by = "legacy"]>>
  <2>1. [Project EXCEPT !.by = "legacy"] \in Commit
    BY ProjectType DEF Commit
  <2> QED
    BY <1>2, <2>1
<1> QED
  BY <1>1, <1>2, SyncOK

LEMMA IdleType == Idle \in SyncType
<1>1. <<>> \in Seq(Commit)
  OBVIOUS
<1>2. "idle" \in Steps /\ 0 \in 0..MaxRuns
  BY SyncOK DEF Steps
<1> QED
  BY <1>1, <1>2, ProjectType DEF Idle, SyncType

(* What a restore is about to check out is there. *)
RestoreInv ==
  \A m \in Machine : /\ restore[m].at = "checkout" => restore[m].head # <<>>
                     /\ restore[m].at = "legacy" => Legacy # <<>>

LEMMA TypeInit == Init => TypeOK /\ RestoreInv
<1> SUFFICES ASSUME Init PROVE TypeOK /\ RestoreInv
  OBVIOUS
<1>1. <<>> \in Seq(Commit)
  OBVIOUS
<1>2. sync \in [Process -> SyncType]
  BY IdleType DEF Init
<1>3. index \in [Machine -> {NotTracked} \cup ((0..MaxSaves) \X (0..MaxSaves))]
  BY SyncOK DEF Init
<1> QED
  BY <1>1, <1>2, <1>3, SyncOK DEF Init, TypeOK, SyncType, RestoreInv

LEMMA HeadType ==
  ASSUME TypeOK, NEW p \in Process
  PROVE  Head_(p) \in Seq(Commit)
  BY SyncOK DEF TypeOK, Head_

(* The commit MakeCommit makes. *)
NewCommit(p) ==
  [sync[p].copy EXCEPT !.by = MachineOf[p], !.run = sync[p].run, !.temp = sync[p].onTemp]

LEMMA NewType ==
  ASSUME TypeOK, NEW p \in Process
  PROVE  /\ NewCommit(p) \in Commit
         /\ NewCommit(p).by = MachineOf[p] /\ NewCommit(p).temp = sync[p].onTemp
         /\ NewCommit(p).docsAt = sync[p].copy.docsAt
         /\ NewCommit(p).stateAt = sync[p].copy.stateAt
<1>1. sync[p].copy \in Commit /\ sync[p].run \in 0..MaxRuns /\ sync[p].onTemp \in BOOLEAN
  BY DEF TypeOK
<1>2. MachineOf[p] \in Machine
  BY SyncOK
<1> QED
  BY <1>1, <1>2 DEF NewCommit, Commit

(* A commit is made on the temporary branch, on the fetched history, or not *)
(* at all.                                                                  *)
LEMMA CommitCases ==
  ASSUME TypeOK, NEW p \in Process, MakeCommit(p)
  PROVE  /\ sync[p].at = "commit"
         /\ \/ /\ sync[p].onTemp
               /\ tip' = [tip EXCEPT ![MachineOf[p]] = Append(@, NewCommit(p))]
               /\ sync' = [sync EXCEPT ![p].at = "push", ![p].copy = Project]
            \/ /\ ~sync[p].onTemp /\ UNCHANGED tip
               /\ sync' = [sync EXCEPT ![p].at = "push", ![p].copy = Project,
                                       ![p].base = Append(@, NewCommit(p))]
            \/ /\ UNCHANGED tip
               /\ sync' = [sync EXCEPT ![p].at = "push", ![p].copy = Project]
<1> DEFINE Leaves(base) == [sync EXCEPT ![p].at = "push", ![p].base = base,
                                        ![p].copy = Project]
<1>1. /\ sync[p].at = "commit"
      /\ \/ /\ sync[p].onTemp
            /\ tip' = [tip EXCEPT ![MachineOf[p]] = Append(Head_(p), NewCommit(p))]
            /\ sync' = Leaves(sync[p].base)
         \/ /\ ~sync[p].onTemp /\ UNCHANGED tip
            /\ sync' = Leaves(Append(Head_(p), NewCommit(p)))
         \/ UNCHANGED tip /\ sync' = Leaves(sync[p].base)
  BY Zenon DEF MakeCommit, NewCommit
<1>2. Leaves(sync[p].base) = [sync EXCEPT ![p].at = "push", ![p].copy = Project]
  BY DEF TypeOK
<1>3. sync[p].onTemp => Head_(p) = tip[MachineOf[p]]
  BY DEF Head_
<1>4. ~sync[p].onTemp => Head_(p) = sync[p].base
  BY DEF Head_
<1>5. ASSUME NEW base
      PROVE  Leaves(base) = [sync EXCEPT ![p].at = "push", ![p].copy = Project,
                                         ![p].base = base]
  BY DEF TypeOK
<1> HIDE DEF Leaves
<1>6. CASE /\ sync[p].onTemp
           /\ tip' = [tip EXCEPT ![MachineOf[p]] = Append(Head_(p), NewCommit(p))]
           /\ sync' = Leaves(sync[p].base)
  BY <1>1, <1>2, <1>3, <1>6
<1>7. CASE /\ ~sync[p].onTemp /\ UNCHANGED tip
           /\ sync' = Leaves(Append(Head_(p), NewCommit(p)))
  BY <1>1, <1>4, <1>5, <1>7
<1> QED
  BY <1>1, <1>2, <1>6, <1>7

(* The other half of the type: what the sync scripts only read. *)
LocalTypes ==
  /\ files \in [Machine -> FilesType] /\ saving \in [Machine -> 0..MaxSaves]
  /\ index \in [Machine -> {NotTracked} \cup ((0..MaxSaves) \X (0..MaxSaves))]
  /\ restore \in [Machine -> [at : {"idle", "fetch", "legacy", "checkout"},
                              head : Seq(Commit)]]
  /\ writes \in [Machine -> Nat]
  /\ saves \in 0..MaxSaves /\ restores \in 0..MaxRestores

LEMMA Halves ==
  /\ TypeOK => LocalTypes
  /\ TypeOK /\ LocalTypes' /\ UNCHANGED <<ref, tip, sync, runs>> => TypeOK'
  BY DEF TypeOK, LocalTypes, FilesType

LEMMA FilesUpdate ==
  ASSUME TypeOK, NEW m \in Machine, NEW x \in FilesType, files' = [files EXCEPT ![m] = x]
  PROVE  files' \in [Machine -> FilesType]
  BY DEF TypeOK, FilesType

LEMMA StartType ==
  ASSUME NEW r \in 0..MaxRuns
  PROVE  [Idle EXCEPT !.at = "probe", !.run = r, !.base = <<Project>>] \in SyncType
<1>1. <<Project>> \in Seq(Commit)
  BY ProjectType
<1>2. PICK b \in Seq(Commit) : b = <<Project>>
  BY <1>1
<1>3. [Idle EXCEPT !.at = "probe", !.run = r, !.base = b] \in SyncType
  BY IdleType DEF SyncType, Steps
<1> QED
  BY <1>2, <1>3

LEMMA SyncUpdate ==
  ASSUME TypeOK, NEW p \in Process, NEW x \in SyncType, sync' = [sync EXCEPT ![p] = x]
  PROVE  sync' \in [Process -> SyncType]
  BY DEF TypeOK, SyncType

LEMMA LocalType ==
  ASSUME TypeOK, RestoreInv, LocalUnchanged, ref' \in Seq(Commit), runs' \in 0..MaxRuns,
         tip' \in [Machine -> Seq(Commit)], sync' \in [Process -> SyncType]
  PROVE  TypeOK' /\ RestoreInv'
  BY DEF TypeOK, RestoreInv, LocalUnchanged, SyncType

LEMMA Typed ==
  TypeOK => /\ ref \in Seq(Commit) /\ runs \in 0..MaxRuns
            /\ tip \in [Machine -> Seq(Commit)] /\ sync \in [Process -> SyncType]
  BY DEF TypeOK, SyncType

LEMMA TypeStep == TypeOK /\ RestoreInv /\ [Next]_vars => TypeOK' /\ RestoreInv'
<1> SUFFICES ASSUME TypeOK, RestoreInv, [Next]_vars PROVE TypeOK' /\ RestoreInv'
  OBVIOUS
<1> USE Typed
<1>1. ASSUME NEW p \in Process, NEW t, Start(p, t) PROVE TypeOK' /\ RestoreInv'
  <2>1. runs' \in 0..MaxRuns
    BY <1>1, SyncOK DEF Start
  <2>2. [Idle EXCEPT !.at = "probe", !.run = runs', !.base = <<Project>>] \in SyncType
    BY <2>1, StartType
  <2>3. sync' \in [Process -> SyncType]
    BY <1>1, <2>2, SyncUpdate DEF Start
  <2> QED
    BY <1>1, <2>1, <2>3, LocalType DEF Start
<1>2. ASSUME NEW p \in Process, NEW s \in Steps, GoTo(p, s) PROVE sync' \in [Process -> SyncType]
  BY <1>2 DEF GoTo, SyncType
<1>3. ASSUME NEW p \in Process, Ends(p) PROVE sync' \in [Process -> SyncType]
  BY <1>3, IdleType, SyncUpdate DEF Ends
<1>4. ASSUME NEW p \in Process, Quit(p) PROVE TypeOK' /\ RestoreInv'
  BY <1>4, <1>3, LocalType DEF Quit
<1>5. ASSUME NEW p \in Process, Probe(p) \/ ProbeLegacy(p) PROVE TypeOK' /\ RestoreInv'
  <2>1. sync' \in [Process -> SyncType]
    BY <1>5, <1>2 DEF Probe, ProbeLegacy, Steps
  <2> QED
    BY <1>5, <2>1, LocalType DEF Probe, ProbeLegacy
<1>6. ASSUME NEW p \in Process, Fetch(p) PROVE TypeOK' /\ RestoreInv'
  <2>1. ASSUME NEW s \in Seq(Commit), SwitchTo(p, s) PROVE sync' \in [Process -> SyncType]
    <3> DEFINE x == [sync[p] EXCEPT !.at = "docs", !.base = s]
    <3>0. sync[p] \in SyncType
      OBVIOUS
    <3>1. x \in SyncType
      BY <2>1, <3>0 DEF SyncType, Steps
    <3>2. sync' = [sync EXCEPT ![p] = x]
      BY <2>1 DEF SwitchTo
    <3> QED
      BY <3>1, <3>2, SyncUpdate
  <2>2. SwitchTo(p, ref) \/ SwitchTo(p, Legacy)
    BY <1>6 DEF Fetch
  <2>3. sync' \in [Process -> SyncType]
    BY <2>1, <2>2, LegacyType
  <2> QED
    BY <1>6, <2>3, LocalType DEF Fetch
<1>7. ASSUME NEW p \in Process, Orphan(p) PROVE TypeOK' /\ RestoreInv'
  <2>1. sync' \in [Process -> SyncType]
    <3>1. [sync[p] EXCEPT !.at = "docs", !.onTemp = TRUE] \in SyncType
      BY DEF SyncType, Steps
    <3>2. CASE sync' = [sync EXCEPT ![p].at = "docs", ![p].onTemp = TRUE]
      <4>1. sync' = [sync EXCEPT ![p] = [sync[p] EXCEPT !.at = "docs", !.onTemp = TRUE]]
        BY <3>2
      <4> QED
        BY <3>1, <4>1, SyncUpdate
    <3>3. CASE Ends(p)
      BY <3>3, <1>3
    <3> QED
      BY <1>7, <3>2, <3>3 DEF Orphan, RefuseOrphan
  <2> QED
    BY <1>7, <2>1, LocalType DEF Orphan
<1>8. ASSUME NEW p \in Process, CopyDocs(p) \/ CopyState(p) PROVE TypeOK' /\ RestoreInv'
  <2>1. MachineOf[p] \in Machine
    BY SyncOK
  <2>2. sync' \in [Process -> SyncType]
    <3> DEFINE f == files[MachineOf[p]]
               d == [sync[p].copy EXCEPT !.docs = f.docs, !.docsAt = f.docsAt]
               s == [sync[p].copy EXCEPT !.state = f.state, !.stateAt = f.stateAt]
               x == [sync[p] EXCEPT !.at = "state", !.copy = d]
               y == [sync[p] EXCEPT !.at = "commit", !.copy = s]
    <3>1. f \in FilesType
      BY <2>1 DEF TypeOK, FilesType
    <3>2. sync[p].copy \in Commit
      BY DEF SyncType
    <3>3. d \in Commit /\ s \in Commit
      BY <3>1, <3>2 DEF Commit, FilesType
    <3>4. x \in SyncType /\ y \in SyncType
      <4> HIDE DEF d, s
      <4> QED
        BY <3>3 DEF SyncType, Steps
    <3>5. CASE CopyDocs(p)
      <4>1. sync' = [sync EXCEPT ![p] = x]
        BY <3>5, <3>2 DEF CopyDocs, SyncType, Commit
      <4> QED
        BY <3>4, <4>1, SyncUpdate
    <3>6. CASE CopyState(p)
      <4>1. sync' = [sync EXCEPT ![p] = y]
        BY <3>6, <3>2 DEF CopyState, SyncType, Commit
      <4> QED
        BY <3>4, <4>1, SyncUpdate
    <3> QED
      BY <1>8, <3>5, <3>6
  <2> QED
    BY <1>8, <2>2, LocalType DEF CopyDocs, CopyState
<1>9. ASSUME NEW p \in Process, MakeCommit(p) PROVE TypeOK' /\ RestoreInv'
  <2>1. MachineOf[p] \in Machine /\ NewCommit(p) \in Commit /\ sync[p].base \in Seq(Commit)
    BY SyncOK, NewType DEF SyncType
  <2>2. Append(sync[p].base, NewCommit(p)) \in Seq(Commit)
    BY <2>1
  <2>3. Append(tip[MachineOf[p]], NewCommit(p)) \in Seq(Commit)
    BY <2>1
  <2>4. tip' \in [Machine -> Seq(Commit)]
    <3>1. \/ UNCHANGED tip
          \/ tip' = [tip EXCEPT ![MachineOf[p]] = Append(@, NewCommit(p))]
      BY <1>9, CommitCases
    <3>2. CASE UNCHANGED tip
      BY <3>2
    <3>3. CASE tip' = [tip EXCEPT ![MachineOf[p]] = Append(tip[MachineOf[p]], NewCommit(p))]
      BY <2>3, <3>3
    <3> QED
      BY <3>1, <3>2, <3>3
  <2>5. "push" \in Steps
    BY DEF Steps
  <2>6. sync' \in [Process -> SyncType]
    <3> DEFINE b == Append(sync[p].base, NewCommit(p))
               x == [sync[p] EXCEPT !.at = "push", !.copy = Project]
               y == [sync[p] EXCEPT !.at = "push", !.copy = Project, !.base = b]
    <3>1. x \in SyncType /\ y \in SyncType
      <4> HIDE DEF b
      <4>1. b \in Seq(Commit)
        BY <2>2 DEF b
      <4> QED
        BY <4>1, <2>5, ProjectType DEF SyncType
    <3>2. sync' = [sync EXCEPT ![p] = x] \/ sync' = [sync EXCEPT ![p] = y]
      BY <1>9, CommitCases
    <3> QED
      BY <3>1, <3>2, SyncUpdate
  <2> QED
    BY <1>9, <2>4, <2>6, LocalType DEF MakeCommit
<1>10. ASSUME NEW p \in Process, Push(p) PROVE TypeOK' /\ RestoreInv'
  <2>1. sync' \in [Process -> SyncType] /\ ref' \in Seq(Commit)
    BY <1>10, <1>3, HeadType DEF Push
  <2> QED
    BY <1>10, <2>1, LocalType DEF Push
<1>11. ASSUME NEW m \in Machine, WriteDocs(m) \/ WriteState(m)
       PROVE  TypeOK' /\ RestoreInv'
  <2> DEFINE d == [files[m] EXCEPT !.docs = saves', !.docsAt = writes'[m]]
             t == [files[m] EXCEPT !.state = saving[m], !.stateAt = writes'[m]]
  <2>0. LocalTypes
    BY Halves
  <2>1. saves' \in 0..MaxSaves /\ writes' \in [Machine -> Nat]
    <3>1. MaxSaves \in Nat /\ saves \in 0..MaxSaves /\ writes \in [Machine -> Nat]
      BY <2>0, SyncOK DEF LocalTypes
    <3>2. saves' = saves \/ (saves < MaxSaves /\ saves' = saves + 1)
      BY <1>11 DEF WriteDocs, WriteState
    <3>3. writes' = [writes EXCEPT ![m] = @ + 1]
      BY <1>11 DEF WriteDocs, WriteState
    <3> QED
      BY <3>1, <3>2, <3>3
  <2>2. d \in FilesType /\ t \in FilesType
    BY <2>0, <2>1 DEF LocalTypes, FilesType
  <2>3. files' = [files EXCEPT ![m] = d] \/ files' = [files EXCEPT ![m] = t]
    BY <1>11 DEF WriteDocs, WriteState
  <2>4. files' \in [Machine -> FilesType]
    BY <2>2, <2>3, FilesUpdate
  <2>5. saving' \in [Machine -> 0..MaxSaves]
    <3>1. MaxSaves \in Nat /\ saving \in [Machine -> 0..MaxSaves]
      BY <2>0, SyncOK DEF LocalTypes
    <3>2. PICK n \in 0..MaxSaves : saving' = [saving EXCEPT ![m] = n]
      BY <1>11, <2>1, <3>1 DEF WriteDocs, WriteState
    <3> QED
      BY <3>1, <3>2
  <2>6. UNCHANGED <<ref, index, tip, sync, restore, restores, runs>>
    BY <1>11 DEF WriteDocs, WriteState
  <2>7. LocalTypes'
    BY <2>0, <2>1, <2>4, <2>5, <2>6 DEF LocalTypes
  <2> QED
    BY <2>6, <2>7, Halves DEF RestoreInv
<1>12. ASSUME NEW m \in Machine, RestoreStart(m) \/ RestoreFetch(m)
       PROVE  TypeOK' /\ RestoreInv'
  <2>0. LocalTypes /\ <<>> \in Seq(Commit)
    BY Halves
  <2>1. \/ RestoreTo(m, "fetch", <<>>) \/ RestoreTo(m, "idle", <<>>)
        \/ RestoreTo(m, "legacy", <<>>) /\ Legacy # <<>>
        \/ RestoreTo(m, "checkout", ref) /\ ref # <<>>
        \/ RestoreTo(m, "checkout", Legacy) /\ Legacy # <<>>
    BY <1>12 DEF RestoreStart, RestoreFetch, RestoreInv
  <2>2. PICK at \in {"idle", "fetch", "legacy", "checkout"}, head \in Seq(Commit) :
          /\ RestoreTo(m, at, head)
          /\ at = "checkout" => head # <<>>
          /\ at = "legacy" => Legacy # <<>>
    BY <2>0, <2>1, LegacyType
  <2>3. restore' = [restore EXCEPT ![m] = [at |-> at, head |-> head]]
    BY <2>2 DEF RestoreTo
  <2>4. restore' \in [Machine -> [at : {"idle", "fetch", "legacy", "checkout"},
                                  head : Seq(Commit)]]
    BY <2>0, <2>3 DEF LocalTypes
  <2>5. RestoreInv'
    BY <2>0, <2>2, <2>3 DEF RestoreInv, LocalTypes
  <2>6. restores' \in 0..MaxRestores
    BY <1>12, <2>0, SyncOK DEF RestoreStart, RestoreFetch, LocalTypes
  <2>7. UNCHANGED <<ref, files, saving, index, tip, sync, writes, saves, runs>>
    BY <1>12 DEF RestoreStart, RestoreFetch
  <2>8. LocalTypes'
    BY <2>0, <2>4, <2>6, <2>7 DEF LocalTypes
  <2> QED
    BY <2>5, <2>7, <2>8, Halves
<1>13. ASSUME NEW m \in Machine, RestoreCheckout(m) PROVE TypeOK' /\ RestoreInv'
  <2> DEFINE tree == restore[m].head[Len(restore[m].head)]
             x == [docs |-> tree.docs, state |-> tree.state,
                   docsAt |-> writes'[m], stateAt |-> writes'[m]]
  <2>0. LocalTypes
    BY Halves
  <2>1. tree \in Commit
    BY <1>13 DEF RestoreCheckout, TypeOK, RestoreInv
  <2>2. tree.docs \in 0..MaxSaves /\ tree.state \in 0..MaxSaves
    BY <2>1 DEF Commit
  <2>3. writes' \in [Machine -> Nat]
    BY <1>13, <2>0 DEF RestoreCheckout, LocalTypes
  <2> HIDE DEF tree
  <2>4. x \in FilesType
    BY <2>2, <2>3 DEF FilesType
  <2>5. files' = [files EXCEPT ![m] = x]
    BY <1>13 DEF RestoreCheckout, tree
  <2>6. files' \in [Machine -> FilesType]
    BY <2>4, <2>5, FilesUpdate
  <2>7. index' = [index EXCEPT ![m] = <<tree.docs, tree.state>>]
    BY <1>13 DEF RestoreCheckout, tree
  <2>8. index' \in [Machine -> {NotTracked} \cup ((0..MaxSaves) \X (0..MaxSaves))]
    BY <2>0, <2>2, <2>7 DEF LocalTypes
  <2>9. restore' = [restore EXCEPT ![m] = [at |-> "idle", head |-> <<>>]]
    BY <1>13 DEF RestoreCheckout, RestoreTo
  <2>10. UNCHANGED <<ref, saving, tip, sync, saves, restores, runs>>
    BY <1>13 DEF RestoreCheckout
  <2>11. LocalTypes'
    BY <2>0, <2>3, <2>6, <2>8, <2>9, <2>10 DEF LocalTypes
  <2>12. RestoreInv'
    BY <2>0, <2>9 DEF RestoreInv, LocalTypes
  <2> QED
    BY <2>10, <2>11, <2>12, Halves
<1>14. CASE UNCHANGED vars
  BY <1>14 DEF vars, TypeOK, RestoreInv
<1> QED
  BY <1>1, <1>4, <1>5, <1>6, <1>7, <1>8, <1>9, <1>10, <1>11, <1>12, <1>13, <1>14
  DEF Next, SyncStep, LocalStep

(* The variables of the sync scripts stay in their types. *)
THEOREM TypeCorrect == Spec => []TypeOK
<1>1. TypeOK /\ RestoreInv /\ [Next]_vars => (TypeOK /\ RestoreInv)'
  BY TypeStep
<1> QED
  BY <1>1, TypeInit, PTL DEF Spec

(* What was pushed once stays under the ref: the remote only forwards it. *)
THEOREM HistoryIsKept == Spec => HistoryGrows
<1>1. TypeOK /\ [Next]_vars => [IsPrefix(ref, ref')]_ref
  <2> SUFFICES ASSUME TypeOK, Next, ref' # ref PROVE IsPrefix(ref, ref')
    BY DEF vars
  <2>1. ASSUME NEW m \in Machine PROVE ~LocalStep(m)
    BY DEF LocalStep, WriteDocs, WriteState, RestoreStart, RestoreFetch, RestoreCheckout
  <2>2. PICK p \in Process : Push(p)
    BY <2>1 DEF Next, SyncStep, Start, Quit, Probe, ProbeLegacy, Fetch, Orphan, CopyDocs,
                CopyState, MakeCommit
  <2> QED
    BY <2>2 DEF Push, Accepted
<1> QED
  BY <1>1, TypeCorrect, PTL DEF Spec, HistoryGrows

------------------------------------------------------------------------------
(* No commit of the project gets under the ref.  A sync begins on one, so   *)
(* what must be kept is where it has left it: once it copies, it is on the  *)
(* temporary branch or on a history that was fetched, and all of these are  *)
(* made of other commits only.                                              *)
Mirrored == {c \in Commit : c.by # "project"}
Left(p) == sync[p].at \in {"docs", "state", "commit", "push"} /\ ~sync[p].onTemp

HomeInv ==
  /\ ref \in Seq(Mirrored)
  /\ tip \in [Machine -> Seq(Mirrored)]
  /\ \A p \in Process : Left(p) => sync[p].base \in Seq(Mirrored)

LEMMA LegacyMirrored == Legacy \in Seq(Mirrored)
<1>1. CASE Legacy = <<>>
  BY <1>1
<1>2. CASE Legacy = <<[Project EXCEPT !.by = "legacy"]>>
  <2>1. [Project EXCEPT !.by = "legacy"] \in Mirrored
    BY ProjectType DEF Commit, Mirrored
  <2> QED
    BY <1>2, <2>1
<1> QED
  BY <1>1, <1>2, SyncOK

LEMMA NewMirrored ==
  ASSUME TypeOK, NEW p \in Process
  PROVE  NewCommit(p) \in Mirrored
  BY NewType, SyncOK DEF Mirrored

(* A step of one sync that leaves the others, the ref and the temporary     *)
(* branches alone.                                                          *)
LEMMA HomeLocal ==
  ASSUME TypeOK, HomeInv, NEW p \in Process, NEW x \in SyncType, UNCHANGED <<ref, tip>>,
         sync' = [sync EXCEPT ![p] = x],
         x.at \in {"docs", "state", "commit", "push"} /\ ~x.onTemp =>
           x.base \in Seq(Mirrored)
  PROVE  HomeInv'
<1>1. sync' \in [Process -> SyncType] /\ sync \in [Process -> SyncType]
  BY SyncUpdate, Typed
<1>2. ASSUME NEW q \in Process, Left(q)' PROVE sync'[q].base \in Seq(Mirrored)
  <2>1. CASE q = p
    <3>1. sync'[q] = x
      BY <1>1, <2>1
    <3> QED
      BY <1>2, <3>1 DEF Left
  <2>2. CASE q # p
    <3>1. sync'[q] = sync[q]
      BY <1>1, <2>2
    <3> QED
      BY <1>2, <3>1 DEF Left, HomeInv
  <2> QED
    BY <2>1, <2>2
<1> QED
  BY <1>2 DEF HomeInv

LEMMA HomeInit == Init => HomeInv
<1>1. <<>> \in Seq(Mirrored)
  OBVIOUS
<1> QED
  BY <1>1 DEF Init, HomeInv, Left, Idle

LEMMA HomeStep == TypeOK /\ TypeOK' /\ HomeInv /\ [Next]_vars => HomeInv'
<1> SUFFICES ASSUME TypeOK, TypeOK', HomeInv, [Next]_vars PROVE HomeInv'
  OBVIOUS
<1> USE Typed
<1>0. ASSUME UNCHANGED <<ref, tip, sync>> PROVE HomeInv'
  BY <1>0 DEF HomeInv, Left
<1>1. ASSUME NEW p \in Process, NEW t, Start(p, t) PROVE HomeInv'
  <2> DEFINE x == [Idle EXCEPT !.at = "probe", !.run = runs', !.base = <<Project>>]
  <2>1. x \in SyncType
    <3>1. runs' \in 0..MaxRuns
      BY <1>1, SyncOK DEF Start
    <3> QED
      BY <3>1, StartType
  <2>2. x.at = "probe"
    BY DEF Idle
  <2>3. sync' = [sync EXCEPT ![p] = x] /\ UNCHANGED <<ref, tip>>
    BY <1>1 DEF Start
  <2> HIDE DEF x
  <2> QED
    BY <2>1, <2>2, <2>3, HomeLocal
<1>2. ASSUME NEW p \in Process, Ends(p), UNCHANGED <<ref, tip>> PROVE HomeInv'
  <2>1. sync' = [sync EXCEPT ![p] = Idle] /\ Idle.at = "idle"
    BY <1>2 DEF Ends, Idle
  <2> QED
    BY <1>2, <2>1, IdleType, HomeLocal
<1>3. ASSUME NEW p \in Process, NEW s \in {"probeLegacy", "fetch", "fetchLegacy", "orphan"},
             GoTo(p, s), UNCHANGED <<ref, tip>>
      PROVE  HomeInv'
  <2> DEFINE x == [sync[p] EXCEPT !.at = s]
  <2>1. x \in SyncType /\ x.at = s
    BY DEF SyncType, Steps
  <2>2. sync' = [sync EXCEPT ![p] = x]
    BY <1>3 DEF GoTo
  <2> QED
    BY <1>3, <2>1, <2>2, HomeLocal
<1>4. ASSUME NEW p \in Process, Quit(p) PROVE HomeInv'
  BY <1>4, <1>2 DEF Quit
<1>5. ASSUME NEW p \in Process, Probe(p) \/ ProbeLegacy(p) PROVE HomeInv'
  BY <1>5, <1>3 DEF Probe, ProbeLegacy
<1>6. ASSUME NEW p \in Process, Fetch(p) PROVE HomeInv'
  <2>1. PICK s \in Seq(Mirrored) : SwitchTo(p, s)
    BY <1>6, LegacyMirrored DEF Fetch, HomeInv
  <2> DEFINE x == [sync[p] EXCEPT !.at = "docs", !.base = s]
  <2>2. s \in Seq(Commit)
    BY DEF Mirrored
  <2>3. x \in SyncType /\ x.base = s
    BY <2>2 DEF SyncType, Steps
  <2>4. sync' = [sync EXCEPT ![p] = x]
    BY <2>1 DEF SwitchTo
  <2> QED
    BY <1>6, <2>3, <2>4, HomeLocal DEF Fetch
<1>7. ASSUME NEW p \in Process, Orphan(p) PROVE HomeInv'
  <2> DEFINE x == [sync[p] EXCEPT !.at = "docs", !.onTemp = TRUE]
  <2>1. CASE sync' = [sync EXCEPT ![p].at = "docs", ![p].onTemp = TRUE]
    <3>1. x \in SyncType /\ x.onTemp
      BY DEF SyncType, Steps
    <3>2. sync' = [sync EXCEPT ![p] = x]
      BY <2>1
    <3> QED
      BY <1>7, <3>1, <3>2, HomeLocal DEF Orphan
  <2>2. CASE Ends(p)
    BY <1>7, <2>2, <1>2 DEF Orphan
  <2> QED
    BY <1>7, <2>1, <2>2 DEF Orphan, RefuseOrphan
<1>8. ASSUME NEW p \in Process, CopyDocs(p) \/ CopyState(p) PROVE HomeInv'
  <2>1. /\ sync[p].at \in {"docs", "state"} /\ sync'[p].at \in {"state", "commit"}
        /\ sync'[p].onTemp = sync[p].onTemp /\ sync'[p].base = sync[p].base
        /\ sync' = [sync EXCEPT ![p] = sync'[p]] /\ UNCHANGED <<ref, tip>>
    BY <1>8 DEF CopyDocs, CopyState, SyncType
  <2>2. sync'[p] \in SyncType
    BY DEF TypeOK, SyncType
  <2>3. ~sync[p].onTemp => sync[p].base \in Seq(Mirrored)
    BY <2>1 DEF HomeInv, Left
  <2> QED
    BY <2>1, <2>2, <2>3, HomeLocal
<1>9. ASSUME NEW p \in Process, MakeCommit(p) PROVE HomeInv'
  <2> DEFINE x == [sync[p] EXCEPT !.at = "push", !.copy = Project]
             y == [sync[p] EXCEPT !.at = "push", !.copy = Project,
                                  !.base = Append(sync[p].base, NewCommit(p))]
             m == MachineOf[p]
  <2>1. /\ sync[p].at = "commit" /\ UNCHANGED ref /\ m \in Machine
        /\ NewCommit(p) \in Mirrored
    BY <1>9, NewMirrored, SyncOK DEF MakeCommit
  <2>2. ~sync[p].onTemp => sync[p].base \in Seq(Mirrored)
    BY <2>1 DEF HomeInv, Left
  <2>3. sync'[p] \in SyncType /\ DOMAIN sync = Process
    BY DEF TypeOK, SyncType
  <2>4. CASE UNCHANGED tip /\ sync' = [sync EXCEPT ![p].at = "push", ![p].copy = Project]
    <3>1. sync' = [sync EXCEPT ![p] = x] /\ sync'[p] = x
      BY <2>3, <2>4
    <3>2. x.base = sync[p].base /\ x.onTemp = sync[p].onTemp
      BY DEF SyncType
    <3> HIDE DEF x
    <3>3. x \in SyncType /\ (~x.onTemp => x.base \in Seq(Mirrored))
      BY <2>2, <2>3, <3>1, <3>2
    <3> QED
      BY <2>1, <2>4, <3>1, <3>3, HomeLocal
  <2>5. CASE /\ ~sync[p].onTemp /\ UNCHANGED tip
             /\ sync' = [sync EXCEPT ![p].at = "push", ![p].copy = Project,
                                     ![p].base = Append(@, NewCommit(p))]
    <3>1. sync' = [sync EXCEPT ![p] = y] /\ sync'[p] = y
      BY <2>3, <2>5
    <3>2. y.base = Append(sync[p].base, NewCommit(p))
      BY DEF SyncType
    <3>3. y.base \in Seq(Mirrored)
      BY <2>1, <2>2, <2>5, <3>2
    <3> HIDE DEF y
    <3>4. y \in SyncType
      BY <2>3, <3>1
    <3> QED
      BY <2>1, <2>5, <3>1, <3>3, <3>4, HomeLocal
  <2>6. CASE /\ sync[p].onTemp
             /\ tip' = [tip EXCEPT ![m] = Append(@, NewCommit(p))]
             /\ sync' = [sync EXCEPT ![p].at = "push", ![p].copy = Project]
    <3>1. tip' \in [Machine -> Seq(Mirrored)]
      <4>1. tip \in [Machine -> Seq(Mirrored)] /\ tip[m] \in Seq(Mirrored)
        BY <2>1 DEF HomeInv
      <4>2. Append(tip[m], NewCommit(p)) \in Seq(Mirrored)
        BY <2>1, <4>1
      <4> QED
        BY <2>6, <4>1, <4>2
    <3>2. sync' = [sync EXCEPT ![p] = x]
      BY <2>3, <2>6
    <3>3. x.onTemp = TRUE
      BY <2>6 DEF SyncType
    <3>4. ASSUME NEW q \in Process, Left(q)' PROVE Left(q) /\ sync'[q] = sync[q]
      BY <2>3, <3>2, <3>3, <3>4 DEF Left
    <3> QED
      BY <2>1, <3>1, <3>4 DEF HomeInv
  <2> QED
    BY <1>9, <2>4, <2>5, <2>6, CommitCases
<1>10. ASSUME NEW p \in Process, Push(p) PROVE HomeInv'
  <2>1. sync[p].at = "push" /\ ref' = Head_(p) /\ UNCHANGED tip /\ Ends(p)
    BY <1>10 DEF Push
  <2>2. Head_(p) \in Seq(Mirrored)
    BY <2>1, SyncOK DEF HomeInv, Head_, Left
  <2>3. ASSUME NEW q \in Process, Left(q)' PROVE Left(q) /\ sync'[q] = sync[q]
    BY <2>1, <2>3 DEF Left, Ends, Idle
  <2> QED
    BY <2>1, <2>2, <2>3 DEF HomeInv
<1>11. ASSUME NEW m \in Machine, LocalStep(m) PROVE HomeInv'
  BY <1>11, <1>0
  DEF LocalStep, WriteDocs, WriteState, RestoreStart, RestoreFetch, RestoreCheckout
<1>12. CASE UNCHANGED vars
  BY <1>12, <1>0 DEF vars
<1> QED
  BY <1>1, <1>4, <1>5, <1>6, <1>7, <1>8, <1>9, <1>10, <1>11, <1>12 DEF Next, SyncStep

(* Whatever fails between the checkout of the project and the push, no     *)
(* commit of the project is pushed.                                         *)
THEOREM ProjectStaysHome == Spec => []WorkingBranchStaysHome
<1>1. HomeInv => WorkingBranchStaysHome
  <2> SUFFICES ASSUME HomeInv, NEW i \in DOMAIN ref PROVE ref[i].by # "project"
    BY DEF WorkingBranchStaysHome
  <2>1. ref[i] \in Mirrored
    BY DEF HomeInv
  <2> QED
    BY <2>1 DEF Mirrored
<1> QED
  BY <1>1, HomeInit, HomeStep, TypeCorrect, PTL DEF Spec

------------------------------------------------------------------------------
(* A history is sound for the files when later commits of a machine hold    *)
(* what it wrote later, and none holds what it has not written yet.  A sync *)
(* copies after it has fetched, so its copy is at least as new as what it   *)
(* stands on; on the temporary branch it promises nothing.                  *)
Within(c, f) ==
  c.by \in Machine => c.docsAt <= f[c.by].docsAt /\ c.stateAt <= f[c.by].stateAt

Ordered(h) ==
  \A i, j \in DOMAIN h :
    i < j /\ h[i].by = h[j].by /\ ~h[j].temp =>
      h[i].docsAt <= h[j].docsAt /\ h[i].stateAt <= h[j].stateAt

Sound(h, f) == Ordered(h) /\ \A i \in DOMAIN h : Within(h[i], f)

CopyIsNew(p, x, f) ==
  /\ x.at \in {"state", "commit"} =>
       /\ x.copy.docsAt <= f[MachineOf[p]].docsAt
       /\ \A i \in DOMAIN x.base :
            x.base[i].by = MachineOf[p] => x.base[i].docsAt <= x.copy.docsAt
  /\ x.at = "commit" =>
       /\ x.copy.stateAt <= f[MachineOf[p]].stateAt
       /\ \A i \in DOMAIN x.base :
            x.base[i].by = MachineOf[p] => x.base[i].stateAt <= x.copy.stateAt

SyncSound(p, x, f) == Sound(x.base, f) /\ CopyIsNew(p, x, f)

Written == \A m \in Machine : files[m].docsAt <= writes[m] /\ files[m].stateAt <= writes[m]

OrderInv ==
  /\ Written
  /\ Sound(ref, files)
  /\ \A m \in Machine : Sound(tip[m], files)
  /\ \A p \in Process : SyncSound(p, sync[p], files)

LEMMA CommitFacts ==
  ASSUME NEW c \in Commit
  PROVE  c.docsAt \in Nat /\ c.stateAt \in Nat /\ c.temp \in BOOLEAN
  BY DEF Commit

LEMMA HistoryFacts ==
  ASSUME NEW h \in Seq(Commit)
  PROVE  /\ DOMAIN h = 1..Len(h) /\ Len(h) \in Nat
         /\ \A i \in DOMAIN h : h[i] \in Commit /\ h[i].docsAt \in Nat /\ h[i].stateAt \in Nat
<1>1. DOMAIN h = 1..Len(h) /\ Len(h) \in Nat /\ \A i \in DOMAIN h : h[i] \in Commit
  OBVIOUS
<1> QED
  BY <1>1, CommitFacts

(* What a machine writes later leaves histories sound. *)
Later(f, g) ==
  \A m \in Machine : f[m].docsAt <= g[m].docsAt /\ f[m].stateAt <= g[m].stateAt

LEMMA SoundLater ==
  ASSUME NEW h \in Seq(Commit), NEW f \in [Machine -> FilesType],
         NEW g \in [Machine -> FilesType], Later(f, g), Sound(h, f)
  PROVE  Sound(h, g)
<1> SUFFICES ASSUME NEW i \in DOMAIN h, h[i].by \in Machine
             PROVE  h[i].docsAt <= g[h[i].by].docsAt /\ h[i].stateAt <= g[h[i].by].stateAt
  BY DEF Sound, Within
<1>1. h[i].docsAt \in Nat /\ h[i].stateAt \in Nat
  BY HistoryFacts
<1>2. f[h[i].by] \in FilesType /\ g[h[i].by] \in FilesType
  OBVIOUS
<1>3. /\ h[i].docsAt <= f[h[i].by].docsAt /\ h[i].stateAt <= f[h[i].by].stateAt
      /\ f[h[i].by].docsAt <= g[h[i].by].docsAt
      /\ f[h[i].by].stateAt <= g[h[i].by].stateAt
  BY DEF Sound, Within, Later
<1> QED
  BY <1>1, <1>2, <1>3 DEF FilesType

LEMMA SoundAppend ==
  ASSUME NEW h \in Seq(Commit), NEW f, Sound(h, f), NEW c \in Commit, Within(c, f),
         c.temp \/ \A i \in DOMAIN h : h[i].by = c.by =>
                     h[i].docsAt <= c.docsAt /\ h[i].stateAt <= c.stateAt
  PROVE  Sound(Append(h, c), f)
<1> DEFINE k == Append(h, c)
<1>1. /\ DOMAIN k = 1 .. Len(h) + 1 /\ DOMAIN h = 1..Len(h) /\ Len(h) \in Nat
      /\ \A i \in 1..Len(h) : k[i] = h[i]
      /\ k[Len(h) + 1] = c
  <2>1. k \in Seq(Commit) /\ Len(k) = Len(h) + 1
    OBVIOUS
  <2> QED
    BY <2>1
<1> HIDE DEF k
<1>2. \A i \in DOMAIN k : i \in DOMAIN h \/ i = Len(h) + 1
  BY <1>1
<1>3. \A i \in DOMAIN k : Within(k[i], f)
  BY <1>1, <1>2 DEF Sound
<1>4. ASSUME NEW i \in DOMAIN k, NEW j \in DOMAIN k, i < j, k[i].by = k[j].by, ~k[j].temp
      PROVE  k[i].docsAt <= k[j].docsAt /\ k[i].stateAt <= k[j].stateAt
  <2>1. i \in DOMAIN h /\ k[i] = h[i]
    BY <1>1, <1>4
  <2>2. CASE j \in DOMAIN h
    BY <1>1, <1>4, <2>1, <2>2 DEF Sound, Ordered
  <2>3. CASE j = Len(h) + 1
    BY <1>1, <1>4, <2>1, <2>3
  <2> QED
    BY <1>2, <2>2, <2>3
<1>5. Ordered(k)
  BY <1>4 DEF Ordered
<1> QED
  BY <1>3, <1>5 DEF Sound, k

LEMMA SoundSingle ==
  ASSUME NEW f \in [Machine -> FilesType], NEW c \in Commit, c.docsAt = 0, c.stateAt = 0
  PROVE  Sound(<<c>>, f)
<1>1. DOMAIN <<c>> = {1} /\ <<c>>[1] = c
  OBVIOUS
<1>2. Within(c, f)
  BY DEF Within, FilesType
<1> QED
  BY <1>1, <1>2 DEF Sound, Ordered

LEMMA LegacySound ==
  ASSUME NEW f \in [Machine -> FilesType] PROVE Sound(Legacy, f)
<1>1. CASE Legacy = <<>>
  BY <1>1 DEF Sound, Ordered
<1>2. CASE Legacy = <<[Project EXCEPT !.by = "legacy"]>>
  <2> DEFINE c == [Project EXCEPT !.by = "legacy"]
  <2>1. c \in Commit /\ c.docsAt = 0 /\ c.stateAt = 0
    BY ProjectType DEF Commit, Project
  <2> QED
    BY <1>2, <2>1, SoundSingle
<1> QED
  BY <1>1, <1>2, SyncOK

LEMMA ProjectSound ==
  ASSUME NEW f \in [Machine -> FilesType] PROVE Sound(<<Project>>, f)
  BY ProjectType, SoundSingle DEF Project

LEMMA FileTypes ==
  TypeOK => /\ files \in [Machine -> FilesType] /\ writes \in [Machine -> Nat]
            /\ \A m \in Machine : /\ files[m].docsAt \in Nat /\ files[m].stateAt \in Nat
                                  /\ writes[m] \in Nat
  BY DEF TypeOK, FilesType

(* A step of one sync that leaves everything else alone. *)
LEMMA OrderLocal ==
  ASSUME TypeOK, OrderInv, NEW p \in Process, NEW x, SyncSound(p, x, files),
         UNCHANGED <<ref, tip, files, writes>>, sync' = [sync EXCEPT ![p] = x]
  PROVE  OrderInv'
<1>1. ASSUME NEW q \in Process PROVE SyncSound(q, sync'[q], files)
  <2>1. CASE q = p
    BY <2>1, Typed
  <2>2. CASE q # p
    BY <2>2, Typed DEF OrderInv
  <2> QED
    BY <2>1, <2>2
<1> QED
  BY <1>1 DEF OrderInv, Written

LEMMA OrderInit == Init => OrderInv
<1> SUFFICES ASSUME Init PROVE OrderInv
  OBVIOUS
<1>1. TypeOK /\ files \in [Machine -> FilesType]
  BY TypeInit, FileTypes
<1>2. Sound(<<>>, files)
  BY DEF Sound, Ordered
<1>3. \A p \in Process : SyncSound(p, sync[p], files)
  BY <1>2 DEF Init, SyncSound, CopyIsNew, Idle
<1>4. Written
  BY DEF Init, Written
<1> QED
  BY <1>2, <1>3, <1>4 DEF Init, OrderInv

(* Files are only written later than before. *)
LEMMA OrderFiles ==
  ASSUME TypeOK, TypeOK', OrderInv, UNCHANGED <<ref, tip, sync>>, Written',
         Later(files, files')
  PROVE  OrderInv'
<1>0. files \in [Machine -> FilesType] /\ files' \in [Machine -> FilesType]
  BY DEF TypeOK, FilesType
<1>1. \A h \in Seq(Commit) : Sound(h, files) => Sound(h, files')
  BY <1>0, SoundLater
<1>2. Sound(ref, files') /\ \A m \in Machine : Sound(tip[m], files')
  BY <1>1, Typed DEF OrderInv
<1>3. ASSUME NEW p \in Process PROVE SyncSound(p, sync[p], files')
  <2>1. sync[p].base \in Seq(Commit) /\ sync[p].copy \in Commit /\ MachineOf[p] \in Machine
    BY Typed, SyncOK DEF SyncType
  <2>2. Sound(sync[p].base, files')
    BY <1>1, <2>1 DEF OrderInv, SyncSound
  <2>3. /\ sync[p].copy.docsAt \in Nat /\ sync[p].copy.stateAt \in Nat
        /\ files[MachineOf[p]] \in FilesType /\ files'[MachineOf[p]] \in FilesType
        /\ files[MachineOf[p]].docsAt <= files'[MachineOf[p]].docsAt
        /\ files[MachineOf[p]].stateAt <= files'[MachineOf[p]].stateAt
    BY <1>0, <2>1, CommitFacts DEF Later
  <2>4. CopyIsNew(p, sync[p], files)
    BY DEF OrderInv, SyncSound
  <2>5. CopyIsNew(p, sync[p], files')
    BY <2>3, <2>4 DEF CopyIsNew, FilesType
  <2> QED
    BY <2>2, <2>5 DEF SyncSound
<1> QED
  BY <1>2, <1>3 DEF OrderInv

LEMMA OrderStep == TypeOK /\ TypeOK' /\ OrderInv /\ [Next]_vars => OrderInv'
<1> SUFFICES ASSUME TypeOK, TypeOK', OrderInv, [Next]_vars PROVE OrderInv'
  OBVIOUS
<1> USE Typed
<1>a. files \in [Machine -> FilesType]
  BY FileTypes
<1>0. ASSUME UNCHANGED <<ref, tip, sync, files, writes>> PROVE OrderInv'
  BY <1>0 DEF OrderInv, Written
<1>b. ASSUME NEW p \in Process
      PROVE  /\ sync[p] \in SyncType /\ sync[p].base \in Seq(Commit)
             /\ sync[p].copy \in Commit /\ MachineOf[p] \in Machine
             /\ Sound(sync[p].base, files) /\ CopyIsNew(p, sync[p], files)
  BY SyncOK DEF SyncType, OrderInv, SyncSound
<1>c. ASSUME NEW p \in Process, NEW x, x.at \notin {"state", "commit"},
             Sound(x.base, files)
      PROVE  SyncSound(p, x, files)
  BY <1>c DEF SyncSound, CopyIsNew
<1>1. ASSUME NEW p \in Process, NEW t, Start(p, t) PROVE OrderInv'
  <2> DEFINE x == [Idle EXCEPT !.at = "probe", !.run = runs', !.base = <<Project>>]
  <2>1. x.at = "probe" /\ x.base = <<Project>>
    BY DEF Idle
  <2>2. sync' = [sync EXCEPT ![p] = x] /\ UNCHANGED <<ref, tip, files, writes>>
    BY <1>1 DEF Start, LocalUnchanged
  <2> HIDE DEF x
  <2> QED
    BY <1>a, <1>c, <2>1, <2>2, ProjectSound, OrderLocal
<1>2. ASSUME NEW p \in Process, Ends(p), UNCHANGED <<ref, tip, files, writes>>
      PROVE  OrderInv'
  <2>1. sync' = [sync EXCEPT ![p] = Idle] /\ Idle.at = "idle" /\ Idle.base = <<>>
    BY <1>2 DEF Ends, Idle
  <2>2. Sound(<<>>, files)
    BY DEF Sound, Ordered
  <2> QED
    BY <1>2, <1>c, <2>1, <2>2, OrderLocal
<1>3. ASSUME NEW p \in Process, NEW s \in {"probeLegacy", "fetch", "fetchLegacy", "orphan"},
             GoTo(p, s), UNCHANGED <<ref, tip, files, writes>>
      PROVE  OrderInv'
  <2> DEFINE x == [sync[p] EXCEPT !.at = s]
  <2>1. x.at = s /\ x.base = sync[p].base
    BY <1>b DEF SyncType
  <2>2. sync' = [sync EXCEPT ![p] = x]
    BY <1>3 DEF GoTo
  <2> HIDE DEF x
  <2> QED
    BY <1>3, <1>b, <1>c, <2>1, <2>2, OrderLocal
<1>4. ASSUME NEW p \in Process, Quit(p) PROVE OrderInv'
  BY <1>4, <1>2 DEF Quit, LocalUnchanged
<1>5. ASSUME NEW p \in Process, Probe(p) \/ ProbeLegacy(p) PROVE OrderInv'
  BY <1>5, <1>3 DEF Probe, ProbeLegacy, LocalUnchanged
<1>6. ASSUME NEW p \in Process, Fetch(p) PROVE OrderInv'
  <2>1. PICK s \in {ref, Legacy} : SwitchTo(p, s)
    BY <1>6 DEF Fetch
  <2>2. Sound(s, files)
    BY <1>a, LegacySound DEF OrderInv
  <2> DEFINE x == [sync[p] EXCEPT !.at = "docs", !.base = s]
  <2>3. x.at = "docs" /\ x.base = s
    BY <1>b DEF SyncType
  <2>4. sync' = [sync EXCEPT ![p] = x] /\ UNCHANGED <<ref, tip, files, writes>>
    BY <1>6, <2>1 DEF Fetch, SwitchTo, LocalUnchanged
  <2> HIDE DEF x
  <2> QED
    BY <1>c, <2>2, <2>3, <2>4, OrderLocal
<1>7. ASSUME NEW p \in Process, Orphan(p) PROVE OrderInv'
  <2> DEFINE x == [sync[p] EXCEPT !.at = "docs", !.onTemp = TRUE]
  <2>1. UNCHANGED <<ref, tip, files, writes>>
    BY <1>7 DEF Orphan, LocalUnchanged
  <2>2. CASE sync' = [sync EXCEPT ![p].at = "docs", ![p].onTemp = TRUE]
    <3>1. x.at = "docs" /\ x.base = sync[p].base
      BY <1>b DEF SyncType
    <3>2. sync' = [sync EXCEPT ![p] = x]
      BY <2>2
    <3> HIDE DEF x
    <3> QED
      BY <1>b, <1>c, <2>1, <3>1, <3>2, OrderLocal
  <2>3. CASE Ends(p)
    BY <2>1, <2>3, <1>2
  <2> QED
    BY <1>7, <2>2, <2>3 DEF Orphan, RefuseOrphan
<1>8. ASSUME NEW p \in Process, CopyDocs(p) PROVE OrderInv'
  <2> DEFINE f == files[MachineOf[p]]
             d == [sync[p].copy EXCEPT !.docs = f.docs, !.docsAt = f.docsAt]
             x == [sync[p] EXCEPT !.at = "state", !.copy = d]
  <2>1. sync' = [sync EXCEPT ![p] = x] /\ UNCHANGED <<ref, tip, files, writes>>
    BY <1>8, <1>b DEF CopyDocs, LocalUnchanged, SyncType, Commit
  <2>2. x.at = "state" /\ x.base = sync[p].base /\ x.copy = d /\ d.docsAt = f.docsAt
    BY <1>b DEF SyncType, Commit
  <2>3. f.docsAt <= f.docsAt
    BY <1>b, FileTypes
  <2>4. \A i \in DOMAIN sync[p].base :
          sync[p].base[i].by = MachineOf[p] => sync[p].base[i].docsAt <= f.docsAt
    BY <1>b DEF Sound, Within
  <2> HIDE DEF x, d, f
  <2>5. SyncSound(p, x, files)
    BY <1>b, <2>2, <2>3, <2>4 DEF SyncSound, CopyIsNew, f
  <2> QED
    BY <2>1, <2>5, OrderLocal
<1>9. ASSUME NEW p \in Process, CopyState(p) PROVE OrderInv'
  <2> DEFINE f == files[MachineOf[p]]
             d == [sync[p].copy EXCEPT !.state = f.state, !.stateAt = f.stateAt]
             x == [sync[p] EXCEPT !.at = "commit", !.copy = d]
  <2>1. sync' = [sync EXCEPT ![p] = x] /\ UNCHANGED <<ref, tip, files, writes>>
    BY <1>9, <1>b DEF CopyState, LocalUnchanged, SyncType, Commit
  <2>2. /\ x.at = "commit" /\ x.base = sync[p].base /\ x.copy = d
        /\ d.docsAt = sync[p].copy.docsAt /\ d.stateAt = f.stateAt
    BY <1>b DEF SyncType, Commit
  <2>3. f.stateAt <= f.stateAt
    BY <1>b, FileTypes
  <2>4. \A i \in DOMAIN sync[p].base :
          sync[p].base[i].by = MachineOf[p] => sync[p].base[i].stateAt <= f.stateAt
    BY <1>b DEF Sound, Within
  <2>5. /\ sync[p].copy.docsAt <= f.docsAt
        /\ \A i \in DOMAIN sync[p].base :
             sync[p].base[i].by = MachineOf[p] =>
               sync[p].base[i].docsAt <= sync[p].copy.docsAt
    BY <1>9, <1>b DEF CopyState, CopyIsNew
  <2> HIDE DEF x, d, f
  <2>6. SyncSound(p, x, files)
    BY <1>b, <2>2, <2>3, <2>4, <2>5 DEF SyncSound, CopyIsNew, f
  <2> QED
    BY <2>1, <2>6, OrderLocal
<1>10. ASSUME NEW p \in Process, MakeCommit(p) PROVE OrderInv'
  <2> DEFINE c == NewCommit(p)
             m == MachineOf[p]
             x == [sync[p] EXCEPT !.at = "push", !.copy = Project]
             y == [sync[p] EXCEPT !.at = "push", !.copy = Project,
                                  !.base = Append(sync[p].base, c)]
  <2>1. UNCHANGED <<ref, files, writes>>
    BY <1>10 DEF MakeCommit, LocalUnchanged
  <2>2. /\ sync[p].at = "commit" /\ c \in Commit /\ c.by = m /\ m \in Machine
        /\ c.temp = sync[p].onTemp /\ c.docsAt = sync[p].copy.docsAt
        /\ c.stateAt = sync[p].copy.stateAt
    BY <1>10, <1>b, NewType, CommitCases
  <2> HIDE DEF c
  <2>3. /\ Within(c, files)
        /\ \A i \in DOMAIN sync[p].base : sync[p].base[i].by = c.by =>
             /\ sync[p].base[i].docsAt <= c.docsAt
             /\ sync[p].base[i].stateAt <= c.stateAt
    BY <1>b, <2>2 DEF CopyIsNew, Within
  <2>4. x.at = "push" /\ x.base = sync[p].base
    BY <1>b DEF SyncType
  <2>5. SyncSound(p, x, files)
    <3> HIDE DEF x
    <3> QED
      BY <1>b, <1>c, <2>4
  <2>6. CASE UNCHANGED tip /\ sync' = [sync EXCEPT ![p].at = "push", ![p].copy = Project]
    <3>1. sync' = [sync EXCEPT ![p] = x]
      BY <2>6
    <3> HIDE DEF x
    <3> QED
      BY <2>1, <2>5, <2>6, <3>1, OrderLocal
  <2>7. CASE /\ ~sync[p].onTemp /\ UNCHANGED tip
             /\ sync' = [sync EXCEPT ![p].at = "push", ![p].copy = Project,
                                     ![p].base = Append(@, c)]
    <3>1. sync' = [sync EXCEPT ![p] = y]
      BY <2>7
    <3>2. y.at = "push" /\ y.base = Append(sync[p].base, c)
      BY <1>b DEF SyncType
    <3>3. Sound(Append(sync[p].base, c), files)
      BY <1>b, <2>2, <2>3, SoundAppend
    <3> HIDE DEF y
    <3>4. SyncSound(p, y, files)
      BY <1>c, <3>2, <3>3
    <3> QED
      BY <2>1, <2>7, <3>1, <3>4, OrderLocal
  <2>8. CASE /\ sync[p].onTemp
             /\ tip' = [tip EXCEPT ![m] = Append(@, c)]
             /\ sync' = [sync EXCEPT ![p].at = "push", ![p].copy = Project]
    <3>1. tip[m] \in Seq(Commit) /\ Sound(tip[m], files)
      BY <2>2 DEF OrderInv
    <3>2. Sound(Append(tip[m], c), files)
      BY <2>2, <2>3, <2>8, <3>1, SoundAppend
    <3>3. \A n \in Machine : Sound(tip'[n], files)
      BY <2>2, <2>8, <3>2 DEF OrderInv
    <3>4. sync' = [sync EXCEPT ![p] = x]
      BY <2>8
    <3> HIDE DEF x
    <3>5. \A q \in Process : SyncSound(q, sync'[q], files)
      BY <2>5, <3>4 DEF OrderInv
    <3> QED
      BY <2>1, <3>3, <3>5 DEF OrderInv, Written
  <2> QED
    BY <1>10, <2>6, <2>7, <2>8, CommitCases DEF c
<1>11. ASSUME NEW p \in Process, Push(p) PROVE OrderInv'
  <2>1. /\ ref' = Head_(p) /\ Ends(p) /\ UNCHANGED <<tip, files, writes>>
    BY <1>11 DEF Push, LocalUnchanged
  <2>2. Sound(Head_(p), files)
    BY <1>b DEF OrderInv, Head_
  <2>3. SyncSound(p, Idle, files)
    BY DEF SyncSound, CopyIsNew, Sound, Ordered, Idle
  <2>4. \A q \in Process : SyncSound(q, sync'[q], files)
    BY <2>1, <2>3 DEF Ends, OrderInv
  <2> QED
    BY <2>1, <2>2, <2>4 DEF OrderInv, Written
<1>12. ASSUME NEW m \in Machine, LocalStep(m) PROVE OrderInv'
  <2>1. CASE RestoreStart(m) \/ RestoreFetch(m)
    BY <2>1, <1>0 DEF RestoreStart, RestoreFetch
  <2>2. CASE WriteDocs(m) \/ WriteState(m) \/ RestoreCheckout(m)
    <3>1. writes' = [writes EXCEPT ![m] = @ + 1] /\ UNCHANGED <<ref, tip, sync>>
      BY <2>2 DEF WriteDocs, WriteState, RestoreCheckout
    <3>2. /\ \A n \in Machine : n # m => files'[n] = files[n]
          /\ files'[m].docsAt \in {files[m].docsAt, writes'[m]}
          /\ files'[m].stateAt \in {files[m].stateAt, writes'[m]}
      BY <2>2, <1>a DEF WriteDocs, WriteState, RestoreCheckout, FilesType
    <3>3. /\ writes'[m] = writes[m] + 1 /\ \A n \in Machine : n # m => writes'[n] = writes[n]
      BY <3>1, FileTypes
    <3>4. ASSUME NEW n \in Machine
          PROVE  /\ files'[n].docsAt <= writes'[n] /\ files'[n].stateAt <= writes'[n]
                 /\ files[n].docsAt <= files'[n].docsAt
                 /\ files[n].stateAt <= files'[n].stateAt
      <4>1. /\ files[n].docsAt \in Nat /\ files[n].stateAt \in Nat /\ writes[n] \in Nat
            /\ files[n].docsAt <= writes[n] /\ files[n].stateAt <= writes[n]
        BY FileTypes DEF OrderInv, Written
      <4>2. CASE n = m
        BY <3>2, <3>3, <4>1, <4>2
      <4>3. CASE n # m
        <5>1. files'[n] = files[n] /\ writes'[n] = writes[n]
          BY <3>2, <3>3, <4>3
        <5> QED
          BY <4>1, <5>1
      <4> QED
        BY <4>2, <4>3
    <3>5. Written' /\ Later(files, files')
      BY <3>4 DEF Written, Later
    <3> QED
      BY <3>1, <3>5, OrderFiles
  <2> QED
    BY <1>12, <2>1, <2>2 DEF LocalStep
<1>13. CASE UNCHANGED vars
  BY <1>13, <1>0 DEF vars
<1> QED
  BY <1>1, <1>4, <1>5, <1>6, <1>7, <1>8, <1>9, <1>10, <1>11, <1>12, <1>13
  DEF Next, SyncStep

(* However syncs overlap, restores come between and pushes fail, the ref    *)
(* never holds older files of a machine above newer ones, except where two  *)
(* first syncs shared the temporary branch.                                 *)
THEOREM NewestWins == Spec => []NewestFilesWin
<1>1. OrderInv => NewestFilesWin
  BY DEF OrderInv, Sound, Ordered, NewestFilesWin
<1> QED
  BY <1>1, OrderInit, OrderStep, TypeCorrect, PTL DEF Spec

=============================================================================
