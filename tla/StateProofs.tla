---------------------------- MODULE StateProofs ----------------------------
(***************************************************************************)
(* Proofs about what src/core/state.ts keeps: the contents of state.json   *)
(* and of the draft under the commands that write them, and the session    *)
(* records in sessions/ and its archive, file by file.                     *)
(***************************************************************************)
EXTENDS HolisticState, SessionStore, SequenceTheorems, TLAPS

------------------------------------------------------------------------------
(* The contents of state.json and of the draft file, for any number of      *)
(* processes, sessions and texts: what pending work, the last handoff and a *)
(* draft say of their sessions is true, and neither open steps nor the      *)
(* answers given to a handoff are lost.                                     *)
(*                                                                          *)
(* The invariant is stated of a value of state.json, so that each pure      *)
(* operation has a lemma of its own and an action only composes them.       *)

(* A stack of ended sessions, all below top, with their archived notes. *)
Stack(q, arch, top) ==
  /\ q \in Seq(PendingWork)
  /\ \A i \in 1..Len(q) : q[i].session < top /\ arch[q[i].session] = NotesOf(q[i])
  /\ \A i, j \in 1..Len(q) : i < j => q[i].session > q[j].session

Top(s, n) == IF s.active = None THEN n + 1 ELSE s.active.id

LatestIn(s) ==
  /\ s.active = None /\ s.pending # <<>> => s.lastHandoff # None
  /\ s.lastHandoff # None =>
       \A i \in 1..Len(s.pending) : s.pending[i].session <= s.lastHandoff.session
  /\ s.pendingCommit # None =>
       s.lastHandoff # None /\ s.lastHandoff.session = s.pendingCommit

Archives == [Id -> Notes \cup {None}]

(* state.json, the archive and the newest id agree. *)
Good(s, arch, n) ==
  /\ s \in HolisticState /\ arch \in Archives /\ n \in 0..MaxSessions
  /\ s.active # None => s.active.id <= n
  /\ Stack(s.pending, arch, Top(s, n))
  /\ LatestIn(s)

(* The inductive invariant: no entry is as new as the active session, and  *)
(* no session is newer than the newest id, so no operation reuses an id    *)
(* that pending work refers to.                                            *)
IInv == TypeOK /\ Good(state, archive, newest)

------------------------------------------------------------------------------
(* Stacks. *)

LEMMA IdIsInt == Id \subseteq Int
  BY ConstantsOK DEF Id

LEMMA ItemType == ASSUME NEW item \in PendingWork
                  PROVE  item.session \in Id /\ item.session \in Int
  <1>1. item.session \in Id
    BY DEF PendingWork
  <1>2. QED
    BY <1>1, IdIsInt

LEMMA StackType ==
  ASSUME NEW q, NEW arch, NEW top, Stack(q, arch, top)
  PROVE  /\ q \in Seq(PendingWork) /\ Len(q) \in Nat
         /\ \A i \in 1..Len(q) :
              q[i] \in PendingWork /\ q[i].session \in Id /\ q[i].session \in Int
  <1>1. q \in Seq(PendingWork) /\ Len(q) \in Nat
    BY DEF Stack
  <1>2. \A i \in 1..Len(q) : q[i] \in PendingWork
    BY <1>1, ElementOfSeq
  <1>3. QED
    BY <1>1, <1>2, ItemType

LEMMA StackPrefix ==
  ASSUME NEW q, NEW arch, NEW top, Stack(q, arch, top), NEW k \in 0..Len(q)
  PROVE  /\ Stack(SubSeq(q, 1, k), arch, top)
         /\ Len(SubSeq(q, 1, k)) = k
         /\ \A i \in 1..k : SubSeq(q, 1, k)[i] = q[i]
  <1>1. q \in Seq(PendingWork) /\ Len(q) \in Nat
    BY DEF Stack
  <1>2. \A i \in 1..k : q[i] \in PendingWork
    BY <1>1
  <1>3. /\ SubSeq(q, 1, k) \in Seq(PendingWork)
        /\ Len(SubSeq(q, 1, k)) = k
        /\ \A i \in 1..k : SubSeq(q, 1, k)[i] = q[i]
    <2>1. k \in Int /\ 1 \in Int
      BY <1>1
    <2>2. /\ SubSeq(q, 1, k) \in Seq(PendingWork)
          /\ Len(SubSeq(q, 1, k)) = IF 1 <= k THEN k - 1 + 1 ELSE 0
          /\ \A i \in 1 .. k - 1 + 1 : SubSeq(q, 1, k)[i] = q[1 + i - 1]
      BY <1>2, <2>1, SubSeqProperties
    <2>3. QED
      BY <2>1, <2>2, <1>1
  <1>4. QED
    BY <1>1, <1>3 DEF Stack

LEMMA StackTail ==
  ASSUME NEW q, NEW arch, NEW top, Stack(q, arch, top), q # <<>>
  PROVE  /\ Stack(Tail(q), arch, top)
         /\ Len(Tail(q)) = Len(q) - 1
         /\ \A i \in 1..Len(Tail(q)) : Tail(q)[i] = q[i + 1]
         /\ Head(q) \in PendingWork /\ Head(q) = q[1] /\ Len(q) >= 1
  <1>1. q \in Seq(PendingWork) /\ Len(q) \in Nat \ {0}
    BY EmptySeq DEF Stack
  <1>2. /\ Tail(q) \in Seq(PendingWork)
        /\ Len(Tail(q)) = Len(q) - 1
        /\ \A i \in 1..Len(Tail(q)) : Tail(q)[i] = q[i + 1]
        /\ Head(q) \in PendingWork /\ Head(q) = q[1]
    BY <1>1, HeadTailProperties
  <1>3. QED
    BY <1>1, <1>2 DEF Stack

(* A session newer than all others is pushed, its notes archived. *)
LEMMA StackPush ==
  ASSUME NEW q, NEW arch, NEW item \in PendingWork, NEW top \in Int,
         Stack(q, arch, item.session), item.session < top,
         NEW other, other[item.session] = NotesOf(item),
         \A id \in Id : id # item.session => other[id] = arch[id]
  PROVE  /\ Stack(<<item>> \o q, other, top)
         /\ Len(<<item>> \o q) = Len(q) + 1
         /\ \A i \in 1..Len(q) + 1 :
              (<<item>> \o q)[i] = IF i = 1 THEN item ELSE q[i - 1]
  <1>1. q \in Seq(PendingWork) /\ Len(q) \in Nat
    BY DEF Stack
  <1>2. <<item>> \in Seq(PendingWork) /\ Len(<<item>>) = 1 /\ <<item>>[1] = item
    OBVIOUS
  <1>3. /\ <<item>> \o q \in Seq(PendingWork)
        /\ Len(<<item>> \o q) = Len(q) + 1
        /\ \A i \in 1..Len(q) + 1 :
             (<<item>> \o q)[i] = IF i = 1 THEN item ELSE q[i - 1]
    <2>1. /\ <<item>> \o q \in Seq(PendingWork)
          /\ Len(<<item>> \o q) = 1 + Len(q)
          /\ \A i \in 1 .. 1 + Len(q) :
               (<<item>> \o q)[i] = IF i <= 1 THEN <<item>>[i] ELSE q[i - 1]
      BY <1>1, <1>2, ConcatProperties
    <2>2. QED
      BY <1>1, <1>2, <2>1
  <1>4. \A i \in 1..Len(q) :
          q[i] \in PendingWork /\ q[i].session \in Id /\ q[i].session \in Int
    BY StackType
  <1>5. item.session \in Int
    BY ItemType
  <1>6. \A i \in 1..Len(q) :
          /\ q[i].session < item.session
          /\ other[q[i].session] = NotesOf(q[i])
    BY <1>4, <1>5 DEF Stack
  <1>7. \A i \in 1..Len(q) + 1 :
          LET x == (<<item>> \o q)[i]
          IN  x.session < top /\ other[x.session] = NotesOf(x)
    BY <1>1, <1>3, <1>4, <1>5, <1>6
  <1>8. \A i, j \in 1..Len(q) + 1 :
          i < j => (<<item>> \o q)[i].session > (<<item>> \o q)[j].session
    BY <1>1, <1>3, <1>4, <1>5, <1>6 DEF Stack
  <1>9. QED
    BY <1>3, <1>7, <1>8 DEF Stack

(* A stack is undisturbed by what happens at its top or above. *)
LEMMA StackFrame ==
  ASSUME NEW q, NEW arch, NEW top \in Int, Stack(q, arch, top),
         NEW other, NEW higher \in Int, top <= higher,
         \A id \in Id : id < top => other[id] = arch[id]
  PROVE  Stack(q, other, higher)
  <1>1. \A i \in 1..Len(q) : q[i].session \in Id /\ q[i].session \in Int
    BY StackType
  <1>2. \A i \in 1..Len(q) : q[i].session < top /\ q[i].session < higher
    BY <1>1 DEF Stack
  <1>3. QED
    BY <1>1, <1>2 DEF Stack

------------------------------------------------------------------------------
(* The pure operations. *)

LEMMA StateType ==
  ASSUME NEW s \in HolisticState
  PROVE  /\ s.active # None => s.active \in Session /\ s.active.id \in Id
                                 /\ s.active.id \in Int
         /\ s.pending \in Seq(PendingWork)
         /\ s.lastHandoff # None => s.lastHandoff \in LastHandoff
                                      /\ s.lastHandoff.session \in Int
         /\ s.pendingCommit \in Id \cup {None}
  BY IdIsInt DEF HolisticState, Session, LastHandoff

LEMMA SessionIsNotNone == None \notin Session /\ None \notin LastHandoff /\ None \notin Id
  BY ConstantsOK

LEMMA GoodPruned ==
  ASSUME NEW s, NEW arch, NEW n, Good(s, arch, n), NEW k \in KeptLengths(s.pending)
  PROVE  Good(Pruned(s, k), arch, n) /\ Pruned(s, k).active = s.active
  <1> DEFINE t == Pruned(s, k)
  <1>1. s \in HolisticState /\ Stack(s.pending, arch, Top(s, n)) /\ k \in 0..Len(s.pending)
    BY DEF Good, KeptLengths
  <1>2. /\ Stack(SubSeq(s.pending, 1, k), arch, Top(s, n))
        /\ Len(SubSeq(s.pending, 1, k)) = k
        /\ \A i \in 1..k : SubSeq(s.pending, 1, k)[i] = s.pending[i]
    BY <1>1, StackPrefix
  <1>3. /\ t.active = s.active /\ t.lastHandoff = s.lastHandoff
        /\ t.pendingCommit = s.pendingCommit /\ t.pending = SubSeq(s.pending, 1, k)
        /\ t \in HolisticState
    BY <1>1, <1>2 DEF Pruned, HolisticState, Stack
  <1>4. Len(s.pending) \in Nat
    BY <1>1, StackType
  <1>5. s.pending = <<>> => t.pending = <<>>
    BY <1>1, <1>2, <1>3, <1>4, SubSeqEmpty
  <1>6. LatestIn(t)
    BY <1>1, <1>2, <1>3, <1>4, <1>5 DEF Good, LatestIn
  <1>7. QED
    BY <1>2, <1>3, <1>6 DEF Good, Top

LEMMA GoodFrame ==
  ASSUME NEW s, NEW arch, NEW n, Good(s, arch, n),
         NEW m \in 0..MaxSessions, n <= m, NEW other \in Archives,
         \A id \in Id : s.active = None \/ id # s.active.id => other[id] = arch[id]
  PROVE  Good(s, other, m)
  <1>1. /\ s \in HolisticState /\ n \in Int /\ m \in Int
        /\ Stack(s.pending, arch, Top(s, n))
    BY ConstantsOK DEF Good
  <1>2. Top(s, n) \in Int /\ Top(s, m) \in Int /\ Top(s, n) <= Top(s, m)
    BY <1>1, StateType DEF Top
  <1>3. \A id \in Id : id < Top(s, n) => other[id] = arch[id]
    BY <1>1, IdIsInt, StateType DEF Top
  <1>4. Stack(s.pending, other, Top(s, m))
    BY <1>1, <1>2, <1>3, StackFrame
  <1>5. s.active # None => s.active.id <= m
    BY <1>1, StateType DEF Good
  <1>6. QED
    BY <1>4, <1>5 DEF Good

LEMMA PendingType ==
  ASSUME NEW session \in Session
  PROVE  /\ ToPendingWork(session) \in PendingWork
         /\ ToPendingWork(session).session = session.id
         /\ NotesOf(ToPendingWork(session)) = NotesOf(session)
         /\ NotesOf(session) \in Notes
  BY DEF Session, ToPendingWork, PendingWork, NotesOf, Notes

LEMMA NewSessionType ==
  ASSUME NEW id \in Id
  PROVE  NewSession(id) \in Session /\ NewSession(id).id = id
  BY DEF NewSession, Session

(* What happens to the archive when the active session, if any, ends. *)
Ended(s, arch) ==
  IF s.active = None THEN arch ELSE [arch EXCEPT ![s.active.id] = NotesOf(s.active)]

LEMMA GoodStarted ==
  ASSUME NEW s, NEW arch, NEW n, Good(s, arch, n), n < MaxSessions
  PROVE  Good(Started(s, n + 1), Ended(s, arch), n + 1)
  <1> DEFINE t == Started(s, n + 1)
             other == Ended(s, arch)
  <1>1. /\ s \in HolisticState /\ arch \in Archives /\ n \in Int
        /\ n + 1 \in Id /\ n + 1 \in 0..MaxSessions
        /\ Stack(s.pending, arch, Top(s, n))
    BY ConstantsOK DEF Good, Id
  <1>2. other \in Archives
    BY <1>1, StateType, PendingType DEF Ended, Archives
  <1>3. /\ t.active = NewSession(n + 1) /\ t.lastHandoff = None /\ t.pendingCommit = None
        /\ t.active \in Session /\ t.active.id = n + 1 /\ t.active # None
    BY <1>1, NewSessionType, SessionIsNotNone DEF Started
  <1>4. Stack(t.pending, other, n + 1)
    <2>1. CASE s.active # None /\ HasCarryableWork(s.active)
      <3> DEFINE item == ToPendingWork(s.active)
      <3>1. /\ item \in PendingWork /\ item.session = s.active.id
            /\ NotesOf(item) = NotesOf(s.active) /\ s.active.id \in Id
            /\ s.active.id \in Int /\ s.active.id <= n
        BY <1>1, <2>1, StateType, PendingType DEF Good
      <3>2. Stack(s.pending, arch, item.session)
        BY <1>1, <2>1, <3>1 DEF Top
      <3>3. /\ other[item.session] = NotesOf(item)
            /\ \A id \in Id : id # item.session => other[id] = arch[id]
        BY <1>1, <2>1, <3>1 DEF Ended, Archives
      <3>4. item.session < n + 1 /\ n + 1 \in Int
        BY <1>1, <3>1
      <3>5. Stack(<<item>> \o s.pending, other, n + 1)
        BY <3>1, <3>2, <3>3, <3>4, StackPush
      <3>6. t.pending = <<item>> \o s.pending
        BY <2>1 DEF Started
      <3>7. QED
        BY <3>5, <3>6
    <2>2. CASE ~(s.active # None /\ HasCarryableWork(s.active))
      <3>1. t.pending = s.pending
        BY <2>2 DEF Started
      <3>2. Top(s, n) \in Int /\ Top(s, n) <= n + 1
        BY <1>1, StateType DEF Good, Top
      <3>3. \A id \in Id : id < Top(s, n) => other[id] = arch[id]
        BY <1>1, IdIsInt, StateType DEF Top, Ended, Archives
      <3>4. QED
        BY <1>1, <3>1, <3>2, <3>3, StackFrame
    <2>3. QED
      BY <2>1, <2>2
  <1>5. t \in HolisticState
    BY <1>3, <1>4 DEF HolisticState, Started, Stack
  <1>6. LatestIn(t)
    BY <1>3 DEF LatestIn
  <1>7. QED
    BY <1>1, <1>2, <1>3, <1>4, <1>5, <1>6 DEF Good, Top

LEMMA GoodColdStart ==
  ASSUME NEW s, NEW arch, NEW n, Good(s, arch, n), n < MaxSessions,
         s.active = None, NEW t \in ColdStarts(s, n + 1)
  PROVE  Good(t, arch, n + 1)
  <1>1. /\ s \in HolisticState /\ arch \in Archives /\ n \in Int
        /\ n + 1 \in Id /\ n + 1 \in 0..MaxSessions
        /\ Stack(s.pending, arch, n + 1)
    BY ConstantsOK DEF Good, Id, Top
  <1> DEFINE Resumed(next, learned, pending) ==
        [s EXCEPT !.active = [NewSession(n + 1) EXCEPT !.next = next, !.learned = learned],
                  !.pending = pending, !.pendingCommit = None]
  <1>2. ASSUME NEW next \in SUBSET Step, NEW learned \in SUBSET Lesson, NEW pending,
               Stack(pending, arch, n + 1), t = Resumed(next, learned, pending),
               s.lastHandoff # None =>
                 \A i \in 1..Len(pending) : pending[i].session <= s.lastHandoff.session
        PROVE  Good(t, arch, n + 1)
    <2>1. /\ t.active \in Session /\ t.active.id = n + 1 /\ t.active # None
          /\ t.pending = pending /\ t.lastHandoff = s.lastHandoff
          /\ t.pendingCommit = None
      BY <1>1, <1>2, SessionIsNotNone DEF HolisticState, NewSession, Session
    <2>2. t \in HolisticState
      BY <1>1, <1>2, <2>1 DEF HolisticState, Stack
    <2>3. LatestIn(t)
      BY <1>2, <2>1 DEF LatestIn
    <2>4. QED
      BY <1>1, <1>2, <2>1, <2>2, <2>3 DEF Good, Top
  <1>3. CASE s.pending # <<>>
    <2> DEFINE steps == IF Head(s.pending).next = {} THEN {DefaultStep} ELSE Head(s.pending).next
    <2>1. /\ Stack(Tail(s.pending), arch, n + 1)
          /\ Len(Tail(s.pending)) = Len(s.pending) - 1
          /\ \A i \in 1..Len(Tail(s.pending)) : Tail(s.pending)[i] = s.pending[i + 1]
          /\ Head(s.pending) \in PendingWork
      BY <1>1, <1>3, StackTail
    <2>2. steps \in SUBSET Step /\ Head(s.pending).learned \in SUBSET Lesson
      BY <2>1, ConstantsOK DEF PendingWork
    <2>3. t = Resumed(steps, Head(s.pending).learned, Tail(s.pending))
      BY <1>3 DEF ColdStarts
    <2>4. Len(s.pending) \in Nat
      BY <1>1, StackType
    <2>5. s.lastHandoff # None =>
            \A i \in 1..Len(Tail(s.pending)) :
              Tail(s.pending)[i].session <= s.lastHandoff.session
      BY <2>1, <2>4 DEF Good, LatestIn
    <2>6. QED
      BY <1>2, <2>1, <2>2, <2>3, <2>5
  <1>4. CASE s.pending = <<>>
    <2>1. Stack(<<>>, arch, n + 1) /\ Len(<<>>) = 0
      BY <1>1, <1>4
    <2>2. \E next \in SUBSET Step : t = Resumed(next, {}, <<>>)
      <3>1. CASE s.lastHandoff # None
        <4>1. {s.lastHandoff.next} \in SUBSET Step
          BY <1>1, <3>1, StateType DEF LastHandoff
        <4>2. t = Resumed({s.lastHandoff.next}, {}, <<>>)
          BY <1>4, <3>1 DEF ColdStarts
        <4>3. QED
          BY <4>1, <4>2
      <3>2. CASE s.lastHandoff = None
        <4>1. t \in {Resumed({DefaultStep}, {}, <<>>), Resumed({}, {}, <<>>)}
          BY <1>4, <3>2 DEF ColdStarts
        <4>2. {DefaultStep} \in SUBSET Step /\ {} \in SUBSET Step
          BY ConstantsOK
        <4>3. QED
          BY <4>1, <4>2
      <3>3. QED
        BY <3>1, <3>2
    <2>3. {} \in SUBSET Lesson
      OBVIOUS
    <2>4. \A i \in 1..Len(<<>>) : <<>>[i].session <= s.lastHandoff.session
      BY <2>1
    <2>5. PICK next \in SUBSET Step : t = Resumed(next, {}, <<>>)
      BY <2>2
    <2> HIDE DEF Resumed
    <2>6. QED
      BY <1>2, <2>1, <2>3, <2>4, <2>5
  <1>5. QED
    BY <1>3, <1>4

LEMMA GoodCheckpointed ==
  ASSUME NEW s, NEW arch, NEW n, Good(s, arch, n),
         NEW session \in Session, NEW m \in 0..MaxSessions,
         \/ s.active # None /\ session.id = s.active.id /\ m = n
         \/ s.active = None /\ session.id = n + 1 /\ m = n + 1
  PROVE  Good(Checkpointed(s, session), arch, m)
  <1> DEFINE t == Checkpointed(s, session)
  <1>1. /\ s \in HolisticState /\ n \in Int /\ session # None
        /\ Stack(s.pending, arch, session.id)
    BY ConstantsOK, SessionIsNotNone DEF Good, Top
  <1>2. /\ t.active = session /\ t.pending = s.pending /\ t.lastHandoff = s.lastHandoff
        /\ t.pendingCommit = None /\ t \in HolisticState
    BY <1>1 DEF Checkpointed, HolisticState
  <1>3. LatestIn(t)
    BY <1>1, <1>2 DEF Good, LatestIn
  <1>4. t.active.id <= m
    BY <1>1, <1>2 DEF Good
  <1>5. QED
    BY <1>1, <1>2, <1>3, <1>4 DEF Good, Top

LEMMA GoodCommitted ==
  ASSUME NEW s, NEW arch, NEW n, Good(s, arch, n)
  PROVE  Good([s EXCEPT !.pendingCommit = None], arch, n)
  <1> DEFINE t == [s EXCEPT !.pendingCommit = None]
  <1>1. s \in HolisticState
    BY DEF Good
  <1>2. /\ t.active = s.active /\ t.pending = s.pending /\ t.lastHandoff = s.lastHandoff
        /\ t.pendingCommit = None /\ t \in HolisticState
    BY <1>1 DEF HolisticState
  <1>3. LatestIn(t)
    BY <1>2 DEF Good, LatestIn
  <1>4. QED
    BY <1>2, <1>3 DEF Good, Top

LEMMA GoodHandedOff ==
  ASSUME NEW s, NEW arch, NEW n, Good(s, arch, n), s.active # None,
         NEW session \in Session, session.id = s.active.id, NEW nextAction \in Step
  PROVE  Good(HandedOff(s, session, nextAction),
              [arch EXCEPT ![session.id] = NotesOf(session)], n)
  <1> DEFINE t == HandedOff(s, session, nextAction)
             other == [arch EXCEPT ![session.id] = NotesOf(session)]
             item == ToPendingWork(session)
  <1>1. /\ s \in HolisticState /\ arch \in Archives /\ n \in Int
        /\ Stack(s.pending, arch, session.id)
        /\ session.id \in Id /\ session.id \in Int /\ session.id <= n
    BY StateType, ConstantsOK DEF Good, Top
  <1>2. /\ item \in PendingWork /\ item.session = session.id
        /\ NotesOf(item) = NotesOf(session) /\ NotesOf(session) \in Notes
    BY PendingType
  <1>3. other \in Archives
    BY <1>1, <1>2 DEF Archives
  <1>4. /\ other[item.session] = NotesOf(item)
        /\ \A id \in Id : id # item.session => other[id] = arch[id]
    BY <1>1, <1>2 DEF Archives
  <1>5. /\ t.active = None
        /\ t.lastHandoff = [session |-> session.id, next |-> nextAction]
        /\ t.lastHandoff \in LastHandoff /\ t.lastHandoff.session = session.id
        /\ t.lastHandoff # None /\ t.pendingCommit = session.id
    BY <1>1, SessionIsNotNone DEF HandedOff, LastHandoff
  <1>6. /\ Stack(t.pending, other, n + 1)
        /\ \A i \in 1..Len(t.pending) : t.pending[i].session <= session.id
    <2>1. CASE session.next # {}
      <3>1. /\ Stack(s.pending, arch, item.session) /\ item.session < n + 1
            /\ n + 1 \in Int
        BY <1>1, <1>2
      <3>2. t.pending = <<item>> \o s.pending
        BY <2>1 DEF HandedOff
      <3> HIDE DEF item, other, t
      <3>3. /\ Stack(<<item>> \o s.pending, other, n + 1)
            /\ Len(<<item>> \o s.pending) = Len(s.pending) + 1
            /\ \A i \in 1..Len(s.pending) + 1 :
                 (<<item>> \o s.pending)[i] = IF i = 1 THEN item ELSE s.pending[i - 1]
        BY <1>2, <1>4, <3>1, StackPush
      <3>4. /\ Len(s.pending) \in Nat
            /\ \A i \in 1..Len(s.pending) : s.pending[i].session \in Int
        BY <1>1, StackType
      <3>5. \A i \in 1..Len(s.pending) : s.pending[i].session < session.id
        BY <1>1 DEF Stack
      <3>6. \A i \in 1..Len(s.pending) + 1 :
              (<<item>> \o s.pending)[i].session <= session.id
        <4> SUFFICES ASSUME NEW i \in 1..Len(s.pending) + 1
                     PROVE  (<<item>> \o s.pending)[i].session <= session.id
          OBVIOUS
        <4>1. CASE i = 1
          BY <1>1, <1>2, <3>3, <4>1
        <4>2. CASE i # 1
          <5>1. i - 1 \in 1..Len(s.pending)
            BY <3>4, <4>2
          <5>2. (<<item>> \o s.pending)[i] = s.pending[i - 1]
            BY <3>3, <4>2
          <5>3. QED
            BY <1>1, <3>4, <3>5, <5>1, <5>2
        <4>3. QED
          BY <4>1, <4>2
      <3>7. QED
        BY <3>3, <3>2, <3>6
    <2>2. CASE session.next = {}
      <3>1. t.pending = s.pending
        BY <2>2 DEF HandedOff
      <3>2. session.id <= n + 1 /\ n + 1 \in Int
        BY <1>1
      <3>3. \A id \in Id : id < session.id => other[id] = arch[id]
        BY <1>1, <1>2, <1>4, IdIsInt
      <3>4. Stack(s.pending, other, n + 1)
        BY <1>1, <3>2, <3>3, StackFrame
      <3>5. /\ \A i \in 1..Len(s.pending) : s.pending[i].session \in Int
            /\ \A i \in 1..Len(s.pending) : s.pending[i].session < session.id
        BY <1>1, StackType DEF Stack
      <3>6. QED
        BY <1>1, <3>1, <3>4, <3>5
    <2>3. QED
      BY <2>1, <2>2
  <1>7. t \in HolisticState
    BY <1>1, <1>5, <1>6 DEF HolisticState, HandedOff, Stack
  <1>8. LatestIn(t)
    BY <1>5, <1>6 DEF LatestIn
  <1>9. QED
    BY <1>1, <1>3, <1>5, <1>6, <1>7, <1>8 DEF Good, Top

------------------------------------------------------------------------------
(* The invariant is inductive. *)

LEMMA IInvInit == Init => IInv
  <1> SUFFICES ASSUME Init PROVE IInv
    OBVIOUS
  <1>1. state \in HolisticState /\ archive \in Archives /\ newest \in 0..MaxSessions
    BY ConstantsOK DEF Init, HolisticState, Archives
  <1>2. TypeOK
    BY <1>1 DEF Init, TypeOK, Archives
  <1>3. Stack(state.pending, archive, Top(state, newest)) /\ LatestIn(state)
    BY DEF Init, Stack, LatestIn
  <1>4. QED
    BY <1>1, <1>2, <1>3 DEF Init, IInv, Good

LEMMA OutdatedType ==
  ASSUME NEW d \in Draft \cup {None}, NEW saved
  PROVE  Touched(d, saved) \in Draft \cup {None}
  BY DEF Touched, Outdated, Draft

LEMMA DraftForType ==
  ASSUME NEW session \in Session, NEW current \in BOOLEAN, NEW passed,
         NEW d, DraftReason(session, passed, d) # ""
  PROVE  DraftFor(session, DraftReason(session, passed, d), current) \in Draft
  <1>1. FirstSteps(session) \in SUBSET Step
    BY ConstantsOK DEF FirstSteps, Session
  <1>2. DraftReason(session, passed, d) \in Reason
    BY DEF DraftReason, Reason
  <1>3. QED
    BY <1>1, <1>2 DEF DraftFor, Draft, Session

LEMMA ClocksType ==
  ASSUME TypeOK, NEW saved, RestartClocks(saved)
  PROVE  elapsed' \subseteq {"idle", "milestone"}
  BY DEF TypeOK, RestartClocks

LEMMA OutcomeIsBoolean == Outcomes \subseteq BOOLEAN /\ Signals \subseteq BOOLEAN
  BY DEF Outcomes, Signals

(* What an operation that creates a session does to the ids. *)
LEMMA CreateType ==
  ASSUME TypeOK, NEW id \in Id, Create(id)
  PROVE  /\ newest < MaxSessions /\ id = newest + 1 /\ newest' = newest + 1
         /\ newest \in 0..MaxSessions /\ newest' \in 0..MaxSessions
         /\ newest <= newest'
  BY ConstantsOK DEF TypeOK, Create

(* A failed save leaves state.json as it was; only the record of the       *)
(* active session may have been written.                                   *)
LEMMA NotSaved ==
  ASSUME IInv, state' = state, newest' \in 0..MaxSessions, newest <= newest',
         archive' \in Archives,
         \A id \in Id : state.active = None \/ id # state.active.id =>
                         archive'[id] = archive[id]
  PROVE  Good(state, archive, newest)'
  <1>1. Good(state, archive, newest)
    BY DEF IInv
  <1>2. Good(state, archive', newest')
    BY <1>1, GoodFrame
  <1>3. QED
    BY <1>2

LEMMA StartNewGood == ASSUME IInv, StartNew PROVE Good(state, archive, newest)'
  <1>1. PICK k \in KeptLengths(state.pending), id \in Id, saved \in Outcomes :
          /\ Create(id)
          /\ IF state.active = None THEN UNCHANGED archive ELSE Archive(state.active)
          /\ Persist(Started(Pruned(state, k), id), saved)
    BY DEF StartNew
  <1>2. /\ newest < MaxSessions /\ id = newest + 1 /\ newest' = newest + 1
        /\ newest' \in 0..MaxSessions /\ newest <= newest'
    BY <1>1, CreateType DEF IInv
  <1>3. archive' = Ended(state, archive)
    BY <1>1 DEF Ended, Archive
  <1>4. CASE saved
    <2>1. Good(Pruned(state, k), archive, newest) /\ Pruned(state, k).active = state.active
      BY GoodPruned DEF IInv
    <2>2. Good(Started(Pruned(state, k), newest + 1), Ended(Pruned(state, k), archive),
               newest + 1)
      BY <1>2, <2>1, GoodStarted
    <2>3. Ended(Pruned(state, k), archive) = Ended(state, archive)
      BY <2>1 DEF Ended
    <2>4. state' = Started(Pruned(state, k), newest + 1)
      BY <1>1, <1>2, <1>4 DEF Persist
    <2>5. QED
      BY <1>2, <1>3, <2>2, <2>3, <2>4
  <1>5. CASE ~saved
    <2>1. state' = state
      BY <1>1, <1>5 DEF Persist
    <2>2. /\ archive \in Archives /\ state \in HolisticState
      BY DEF IInv, Good
    <2>3. state.active # None => state.active.id \in Id /\ NotesOf(state.active) \in Notes
      BY <2>2, StateType, PendingType
    <2>4. /\ archive' \in Archives
          /\ \A i \in Id : state.active = None \/ i # state.active.id =>
                            archive'[i] = archive[i]
      BY <1>3, <2>2, <2>3 DEF Ended, Archives
    <2>5. QED
      BY <1>2, <2>1, <2>4, NotSaved
  <1>6. QED
    BY <1>4, <1>5

LEMMA ContinueGood == ASSUME IInv, Continue PROVE Good(state, archive, newest)'
  <1>1. PICK k \in KeptLengths(state.pending), id \in Id, saved \in Outcomes :
          /\ \/ /\ Keep(id)
                /\ Persist(Checkpointed(Pruned(state, k), state.active), saved)
             \/ /\ state.active = None /\ Create(id)
                /\ \E s \in ColdStarts(Pruned(state, k), id) : Persist(s, saved)
          /\ UNCHANGED archive
    BY DEF Continue
  <1>2. /\ Good(Pruned(state, k), archive, newest) /\ Pruned(state, k).active = state.active
        /\ newest \in 0..MaxSessions /\ archive \in Archives /\ state \in HolisticState
    BY GoodPruned DEF IInv, Good
  <1>3. /\ newest' \in 0..MaxSessions /\ newest <= newest'
        /\ \/ state.active # None /\ id = state.active.id /\ newest' = newest
           \/ state.active = None /\ Create(id) /\ id = newest + 1 /\ newest' = newest + 1
                /\ newest < MaxSessions
    <2>1. CASE Keep(id)
      BY <1>2, <2>1, ConstantsOK DEF Keep
    <2>2. CASE state.active = None /\ Create(id)
      BY <2>2, CreateType DEF IInv
    <2>3. QED
      BY <1>1, <2>1, <2>2
  <1>4. CASE ~saved
    <2>1. state' = state
      BY <1>1, <1>4 DEF Persist
    <2>2. QED
      BY <1>1, <1>2, <1>3, <2>1, NotSaved
  <1>5. CASE saved /\ state.active # None
    <2>1. state.active \in Session
      BY <1>2, <1>5, StateType
    <2>2. Good(Checkpointed(Pruned(state, k), state.active), archive, newest)
      BY <1>2, <1>5, <2>1, GoodCheckpointed
    <2>3. state' = Checkpointed(Pruned(state, k), state.active)
      BY <1>1, <1>5 DEF Persist
    <2>4. QED
      BY <1>1, <1>3, <1>5, <2>2, <2>3
  <1>6. CASE saved /\ state.active = None
    <2>1. PICK s \in ColdStarts(Pruned(state, k), id) : Persist(s, saved)
      BY <1>1, <1>6 DEF Keep
    <2>2. Good(s, archive, newest + 1)
      BY <1>2, <1>3, <1>6, <2>1, GoodColdStart
    <2>3. state' = s
      BY <1>6, <2>1 DEF Persist
    <2>4. QED
      BY <1>1, <1>3, <1>6, <2>2, <2>3
  <1>7. QED
    BY <1>4, <1>5, <1>6, OutcomeIsBoolean

LEMMA MergedType ==
  ASSUME NEW session \in Session, NEW next \in SUBSET Step,
         NEW learned \in SUBSET Lesson, NEW signal \in BOOLEAN
  PROVE  /\ Merged(session, next, learned, signal) \in Session
         /\ Merged(session, next, learned, signal).id = session.id
  BY DEF Merged, Session

LEMMA FirstStepsType ==
  ASSUME NEW session \in Session PROVE FirstSteps(session) \in SUBSET Step
  BY ConstantsOK DEF FirstSteps, Session

(* The id a checkpoint works on: the active session's, or a fresh one. *)
LEMMA CheckpointId ==
  ASSUME IInv, NEW id \in Id, Keep(id) \/ (state.active = None /\ Create(id))
  PROVE  /\ newest' \in 0..MaxSessions /\ newest <= newest'
         /\ \/ state.active # None /\ id = state.active.id /\ newest' = newest
            \/ /\ state.active = None /\ id = newest + 1 /\ newest' = newest + 1
               /\ newest < MaxSessions
  <1>1. newest \in 0..MaxSessions
    BY DEF IInv, Good
  <1>2. CASE Keep(id)
    BY <1>1, <1>2, ConstantsOK DEF Keep
  <1>3. CASE state.active = None /\ Create(id)
    BY <1>3, CreateType DEF IInv
  <1>4. QED
    BY <1>2, <1>3

LEMMA CheckpointGood == ASSUME IInv, Checkpoint PROVE Good(state, archive, newest)'
  <1>1. PICK id \in Id, next \in SUBSET Step, learned \in SUBSET Lesson,
             signal \in Signals, saved \in Outcomes :
          /\ Keep(id) \/ (state.active = None /\ Create(id))
          /\ Persist(Checkpointed(state,
               Merged(IF state.active = None THEN NewSession(id) ELSE state.active,
                      next, learned, signal)), saved)
          /\ UNCHANGED archive
    BY DEF Checkpoint
  <1> DEFINE base == IF state.active = None THEN NewSession(id) ELSE state.active
             session == Merged(base, next, learned, signal)
  <1>2. Good(state, archive, newest) /\ state \in HolisticState /\ archive \in Archives
    BY DEF IInv, Good
  <1>3. /\ newest' \in 0..MaxSessions /\ newest <= newest'
        /\ \/ state.active # None /\ id = state.active.id /\ newest' = newest
           \/ state.active = None /\ id = newest + 1 /\ newest' = newest + 1
    BY <1>1, CheckpointId
  <1>4. base \in Session /\ base.id = id
    BY <1>2, <1>3, StateType, NewSessionType
  <1>5. session \in Session /\ session.id = id
    BY <1>4, MergedType, OutcomeIsBoolean
  <1> HIDE DEF session
  <1>6. CASE saved
    <2>1. Good(Checkpointed(state, session), archive, newest')
      BY <1>2, <1>3, <1>5, GoodCheckpointed
    <2>2. state' = Checkpointed(state, session)
      BY <1>1, <1>6 DEF Persist, session
    <2>3. QED
      BY <1>1, <2>1, <2>2
  <1>7. CASE ~saved
    <2>1. state' = state
      BY <1>1, <1>7 DEF Persist
    <2>2. QED
      BY <1>1, <1>2, <1>3, <2>1, NotSaved
  <1>8. QED
    BY <1>6, <1>7

LEMMA DaemonCheckpointGood ==
  ASSUME IInv, DaemonCheckpoint PROVE Good(state, archive, newest)'
  <1>1. PICK k \in KeptLengths(state.pending), id \in Id, saved \in Outcomes :
          LET kept == Pruned(state, k)
              base == IF state.active = None THEN Started(kept, id) ELSE kept
          IN  /\ Keep(id) \/ (state.active = None /\ Create(id))
              /\ Persist(Checkpointed(base, Merged(base.active, FirstSteps(base.active),
                                                  {DefaultLesson}, FALSE)), saved)
              /\ UNCHANGED archive
    BY DEF DaemonCheckpoint
  <1> DEFINE kept == Pruned(state, k)
             base == IF state.active = None THEN Started(kept, id) ELSE kept
             session == Merged(base.active, FirstSteps(base.active), {DefaultLesson}, FALSE)
  <1>2. /\ Good(kept, archive, newest) /\ kept.active = state.active
        /\ kept \in HolisticState /\ archive \in Archives
    BY GoodPruned DEF IInv, Good
  <1>3. /\ newest' \in 0..MaxSessions /\ newest <= newest'
        /\ \/ state.active # None /\ id = state.active.id /\ newest' = newest
           \/ /\ state.active = None /\ id = newest + 1 /\ newest' = newest + 1
              /\ newest < MaxSessions
    BY <1>1, CheckpointId
  <1>4. /\ Good(base, archive, newest')
        /\ base.active \in Session /\ base.active # None /\ base.active.id = id
    <2>1. CASE state.active # None
      BY <1>2, <1>3, <2>1, StateType
    <2>2. CASE state.active = None
      <3>1. Good(Started(kept, newest + 1), Ended(kept, archive), newest + 1)
        BY <1>2, <1>3, <2>2, GoodStarted
      <3>2. Ended(kept, archive) = archive
        BY <1>2, <2>2 DEF Ended
      <3>3. base.active = NewSession(id)
        BY <2>2 DEF Started
      <3>4. base = Started(kept, newest + 1)
        BY <1>3, <2>2
      <3>5. Good(base, archive, newest')
        BY <1>3, <2>2, <3>1, <3>2, <3>4
      <3>6. QED
        BY <3>3, <3>5, NewSessionType, SessionIsNotNone
    <2>3. QED
      BY <2>1, <2>2
  <1> HIDE DEF base
  <1>5. session \in Session /\ session.id = id
    BY <1>4, FirstStepsType, MergedType, ConstantsOK
  <1> HIDE DEF session
  <1>6. CASE saved
    <2>1. Good(Checkpointed(base, session), archive, newest')
      BY <1>3, <1>4, <1>5, GoodCheckpointed
    <2>2. state' = Checkpointed(base, session)
      BY <1>1, <1>6 DEF Persist, base, session
    <2>3. QED
      BY <1>1, <2>1, <2>2
  <1>7. CASE ~saved
    <2>1. state' = state
      BY <1>1, <1>7 DEF Persist
    <2>2. QED
      BY <1>1, <1>2, <1>3, <2>1, NotSaved
  <1>8. QED
    BY <1>6, <1>7

(* The application of a handoff, whoever asked for it. *)
LEMMA ApplyGood ==
  ASSUME IInv, NEW c \in Cli \cup Mcp, handing[c] # None, state.active # None,
         NEW saved \in BOOLEAN, ApplyHandoff(c, saved), newest' = newest
  PROVE  Good(state, archive, newest)'
  <1> DEFINE session == Merged(state.active, handing[c].next, handing[c].learned,
                               state.active.signal)
  <1>1. /\ Good(state, archive, newest) /\ state \in HolisticState
        /\ archive \in Archives /\ newest \in 0..MaxSessions
        /\ state.active \in Session
    BY StateType DEF IInv, Good
  <1>2. handing[c] \in Handoff
    BY DEF IInv, TypeOK
  <1>3. session \in Session /\ session.id = state.active.id
    <2>1. /\ handing[c].next \in SUBSET Step /\ handing[c].learned \in SUBSET Lesson
          /\ state.active.signal \in BOOLEAN
      BY <1>1, <1>2 DEF Handoff, Session
    <2>2. QED
      BY <1>1, <2>1, MergedType
  <1>4. /\ archive' = [archive EXCEPT ![session.id] = NotesOf(session)]
        /\ \E nextAction \in FirstSteps(session) :
             Persist(HandedOff(state, session, nextAction), saved)
    BY DEF ApplyHandoff, Archive
  <1> HIDE DEF session
  <1>5. PICK nextAction \in Step : Persist(HandedOff(state, session, nextAction), saved)
    BY <1>3, <1>4, FirstStepsType
  <1>6. CASE saved
    <2>1. Good(HandedOff(state, session, nextAction),
               [archive EXCEPT ![session.id] = NotesOf(session)], newest)
      BY <1>1, <1>3, GoodHandedOff
    <2>2. state' = HandedOff(state, session, nextAction)
      BY <1>5, <1>6 DEF Persist
    <2>3. QED
      BY <1>4, <2>1, <2>2
  <1>7. CASE ~saved
    <2>1. state' = state
      BY <1>5, <1>7 DEF Persist
    <2>2. session.id \in Id /\ NotesOf(session) \in Notes
      BY <1>3, PendingType DEF Session
    <2>3. /\ archive' \in Archives
          /\ \A i \in Id : i # state.active.id => archive'[i] = archive[i]
      BY <1>1, <1>3, <1>4, <2>2 DEF Archives
    <2>4. newest' \in 0..MaxSessions /\ newest <= newest'
      BY <1>1
    <2>5. QED
      BY <2>1, <2>3, <2>4, NotSaved
  <1>8. QED
    BY <1>6, <1>7

LEMMA SaveOnlyGood ==
  ASSUME IInv, DaemonObserve \/ MarkCommit PROVE Good(state, archive, newest)'
  <1>1. Good(state, archive, newest)
    BY DEF IInv
  <1>2. CASE DaemonObserve
    <2>1. PICK k \in KeptLengths(state.pending), saved \in Outcomes :
            Persist(Pruned(state, k), saved)
      BY <1>2 DEF DaemonObserve
    <2>2. state' = Pruned(state, k) \/ state' = state
      BY <2>1 DEF Persist
    <2>3. Good(Pruned(state, k), archive, newest)
      BY <1>1, GoodPruned
    <2>4. archive' = archive /\ newest' = newest
      BY <1>2 DEF DaemonObserve
    <2>5. QED
      BY <1>1, <2>2, <2>3, <2>4
  <1>3. CASE MarkCommit
    <2>1. state' = [state EXCEPT !.pendingCommit = None] \/ state' = state
      BY <1>3 DEF MarkCommit, Persist
    <2>2. Good([state EXCEPT !.pendingCommit = None], archive, newest)
      BY <1>1, GoodCommitted
    <2>3. archive' = archive /\ newest' = newest
      BY <1>3 DEF MarkCommit
    <2>4. QED
      BY <1>1, <2>1, <2>2, <2>3
  <1>4. QED
    BY <1>2, <1>3

LEMMA HandoffStepGood ==
  ASSUME IInv, NEW c \in Cli \cup Mcp, HandoffStep(c)
  PROVE  Good(state, archive, newest)'
  <1>1. Good(state, archive, newest)
    BY DEF IInv
  <1>2. CASE BeginHandoff(c) \/ BeginMcpHandoff(c) \/ RescueAnswers(c)
    BY <1>1, <1>2 DEF BeginHandoff, BeginMcpHandoff, RescueAnswers
  <1>3. CASE FinishHandoff(c)
    <2>1. PICK saved \in Outcomes :
            /\ handing[c] # None /\ state.active # None /\ ApplyHandoff(c, saved)
            /\ newest' = newest
      BY <1>3 DEF FinishHandoff
    <2>2. QED
      BY <2>1, ApplyGood, OutcomeIsBoolean
  <1>4. CASE FinishMcpHandoff(c)
    <2>1. PICK saved \in Outcomes :
            /\ handing[c] # None /\ newest' = newest
            /\ \/ UNCHANGED <<state, archive>>
               \/ state.active # None /\ ApplyHandoff(c, saved)
      BY <1>4 DEF FinishMcpHandoff
    <2>2. CASE UNCHANGED <<state, archive>>
      BY <1>1, <2>1, <2>2
    <2>3. CASE state.active # None /\ ApplyHandoff(c, saved)
      BY <2>1, <2>3, ApplyGood, OutcomeIsBoolean
    <2>4. QED
      BY <2>1, <2>2, <2>3
  <1>5. QED
    BY <1>2, <1>3, <1>4 DEF HandoffStep

(* The other files, and the prompts. *)
Files == /\ draft \in Draft \cup {None}
         /\ elapsed \subseteq {"idle", "milestone"}
         /\ handing \in [Cli \cup Mcp -> Handoff \cup {None}]

LEMMA CheckpointFiles == ASSUME IInv, Checkpoint PROVE Files'
  <1>1. PICK id \in Id, next \in SUBSET Step, learned \in SUBSET Lesson,
             signal \in Signals, saved \in Outcomes :
          LET base == IF state.active = None THEN NewSession(id) ELSE state.active
              session == Merged(base, next, learned, signal)
              passed == IF state.active = None THEN {} ELSE elapsed \ {"idle"}
              reason == DraftReason(session, passed, Outdated(draft))
          IN  /\ draft' = IF reason = "" THEN Touched(draft, saved)
                          ELSE DraftFor(session, reason, saved)
              /\ RestartClocks(saved)
              /\ handing' = handing
    BY DEF Checkpoint
  <1> DEFINE base == IF state.active = None THEN NewSession(id) ELSE state.active
             session == Merged(base, next, learned, signal)
             passed == IF state.active = None THEN {} ELSE elapsed \ {"idle"}
             reason == DraftReason(session, passed, Outdated(draft))
  <1>2. TypeOK /\ state \in HolisticState
    BY DEF IInv, Good
  <1>3. session \in Session
    BY <1>2, StateType, NewSessionType, MergedType, OutcomeIsBoolean
  <1> HIDE DEF session, passed
  <1>4. draft' \in Draft \cup {None}
    <2>1. CASE reason = ""
      BY <1>1, <1>2, <2>1, OutdatedType DEF TypeOK, session, passed
    <2>2. CASE reason # ""
      <3>1. DraftFor(session, reason, saved) \in Draft
        BY <1>3, <2>2, DraftForType, OutcomeIsBoolean
      <3>2. draft' = DraftFor(session, reason, saved)
        BY <1>1, <2>2 DEF session, passed
      <3>3. QED
        BY <3>1, <3>2
    <2>3. QED
      BY <2>1, <2>2
  <1>5. QED
    BY <1>1, <1>2, <1>4, ClocksType DEF Files, TypeOK

LEMMA HandoffFiles ==
  ASSUME IInv, NEW c \in Cli \cup Mcp, HandoffStep(c) PROVE Files'
  <1>1. TypeOK /\ state \in HolisticState
    BY DEF IInv, Good
  <1>2. CASE BeginHandoff(c) \/ BeginMcpHandoff(c)
    <2>1. state.active # None /\ UNCHANGED <<draft, elapsed>>
      BY <1>2 DEF BeginHandoff, BeginMcpHandoff
    <2>2. \E h \in Handoff : handing' = [handing EXCEPT ![c] = h]
      <3>1. CASE BeginHandoff(c)
        <4> DEFINE applies == DraftIsApplicable(draft, state.active.id)
                   steps == Answers(IF applies THEN draft.next ELSE {}, Step)
                   lessons == Answers(IF applies THEN draft.learned ELSE {}, Lesson)
        <4>1. \A drafted, texts : drafted \in SUBSET texts =>
                Answers(drafted, texts) \subseteq SUBSET texts
          BY DEF Answers, PickList
        <4>2. draft # None => draft.next \in SUBSET Step /\ draft.learned \in SUBSET Lesson
          BY <1>1 DEF TypeOK, Draft
        <4>3. applies => draft # None
          BY DEF DraftIsApplicable
        <4>4. steps \subseteq SUBSET Step /\ lessons \subseteq SUBSET Lesson
          BY <4>1, <4>2, <4>3
        <4>5. PICK next \in steps, learned \in lessons :
                handing' = [handing EXCEPT ![c] =
                  [session |-> state.active.id, next |-> next, learned |-> learned,
                   sawRescue |-> applies /\ IsRescue(draft)]]
          BY <3>1 DEF BeginHandoff
        <4>6. (applies /\ IsRescue(draft)) \in BOOLEAN
          BY DEF DraftIsApplicable, IsRescue
        <4>7. state.active.id \in Id
          BY <1>1, <2>1, StateType
        <4> HIDE DEF applies, steps, lessons
        <4>8. next \in SUBSET Step /\ learned \in SUBSET Lesson
          BY <4>4, <4>5
        <4>9. QED
          BY <4>5, <4>6, <4>7, <4>8 DEF Handoff
      <3>2. CASE BeginMcpHandoff(c)
        <4>1. state.active.id \in Id
          BY <1>1, <2>1, StateType
        <4>2. PICK next \in SUBSET Step, learned \in SUBSET Lesson :
                handing' = [handing EXCEPT ![c] =
                  [session |-> state.active.id, next |-> next, learned |-> learned,
                   sawRescue |-> FALSE]]
          BY <3>2 DEF BeginMcpHandoff
        <4>3. QED
          BY <4>1, <4>2 DEF Handoff
      <3>3. QED
        BY <1>2, <3>1, <3>2
    <2>3. QED
      BY <1>1, <2>1, <2>2 DEF Files, TypeOK
  <1>3. CASE FinishHandoff(c)
    <2>1. PICK saved \in Outcomes : /\ draft' = None /\ RestartClocks(saved)
                                    /\ handing' = [handing EXCEPT ![c] = None]
      BY <1>3 DEF FinishHandoff
    <2>2. QED
      BY <1>1, <2>1, ClocksType DEF Files, TypeOK
  <1>4. CASE RescueAnswers(c)
    <2>1. handing[c] \in Handoff
      BY <1>1, <1>4 DEF TypeOK, RescueAnswers
    <2>2. draft' \in Draft
      BY <1>4, <2>1 DEF RescueAnswers, Handoff, Draft, Reason
    <2>3. QED
      BY <1>1, <1>4, <2>2 DEF RescueAnswers, Files, TypeOK
  <1>5. CASE FinishMcpHandoff(c)
    <2>1. PICK saved \in Outcomes :
            /\ \/ UNCHANGED <<elapsed, draft>>
               \/ RestartClocks(saved) /\ draft' = Touched(draft, saved)
            /\ handing' = [handing EXCEPT ![c] = None]
      BY <1>5 DEF FinishMcpHandoff
    <2>2. QED
      BY <1>1, <2>1, ClocksType, OutdatedType DEF Files, TypeOK
  <1>6. QED
    BY <1>2, <1>3, <1>4, <1>5 DEF HandoffStep

LEMMA FilesNext == ASSUME IInv, Next PROVE Files'
  <1>1. TypeOK /\ state \in HolisticState
    BY DEF IInv, Good
  <1>2. ASSUME StartNew \/ Continue \/ DaemonCheckpoint PROVE Files'
    <2>1. PICK saved \in Outcomes :
            /\ draft' = Touched(draft, saved) /\ RestartClocks(saved) /\ handing' = handing
      BY <1>2 DEF StartNew, Continue, DaemonCheckpoint
    <2>2. QED
      BY <1>1, <2>1, ClocksType, OutdatedType DEF Files, TypeOK
  <1>3. CASE DaemonObserve \/ MarkCommit
    BY <1>1, <1>3 DEF DaemonObserve, MarkCommit, Files, TypeOK
  <1>4. CASE AutoDraftTick
    <2>1. state.active \in Session
      BY <1>1, <1>4, StateType DEF AutoDraftTick
    <2>2. draft' \in Draft
      BY <1>4, <2>1, DraftForType DEF AutoDraftTick
    <2>3. QED
      BY <1>1, <1>4, <2>2 DEF AutoDraftTick, Files, TypeOK
  <1>5. CASE TimePasses
    BY <1>1, <1>5 DEF TimePasses, Files, TypeOK
  <1>6. QED
    BY <1>2, <1>3, <1>4, <1>5, CheckpointFiles, HandoffFiles DEF Next

LEMMA IInvNext == ASSUME IInv, [Next]_vars PROVE IInv'
  <1>1. CASE UNCHANGED vars
    BY <1>1 DEF vars, IInv, TypeOK, Good, Stack, Top, LatestIn
  <1>2. CASE Next
    <2>1. Good(state, archive, newest)'
      <3>1. CASE AutoDraftTick \/ TimePasses
        <4>1. UNCHANGED <<state, archive, newest>> /\ Good(state, archive, newest)
          BY <3>1 DEF AutoDraftTick, TimePasses, IInv
        <4>2. QED
          BY <4>1
      <3>2. QED
        BY <1>2, <3>1, StartNewGood, ContinueGood, CheckpointGood, DaemonCheckpointGood,
           SaveOnlyGood, HandoffStepGood DEF Next
    <2>2. Files'
      BY <1>2, FilesNext
    <2>3. QED
      BY <2>1, <2>2 DEF IInv, Good, Files, TypeOK, Archives
  <1>3. QED
    BY <1>1, <1>2

(* The state file, the archive, the draft and the prompts keep their shape *)
(* under every operation of the command, the MCP server and the daemon.    *)
THEOREM TypeCorrect == Spec => []TypeOK
  <1>1. IInv => TypeOK
    BY DEF IInv
  <1>2. QED
    BY <1>1, IInvInit, IInvNext, PTL DEF Spec

(* Whatever the processes do and whichever saves fail, pending work is a   *)
(* stack of distinct ended sessions, newest first, and each entry agrees   *)
(* with the record archived when its session ended.                        *)
THEOREM PendingCorrect == Spec => []PendingIsHistory
  <1>1. IInv => PendingIsHistory
    BY DEF IInv, Good, Stack, Top, PendingIsHistory, PendingOrdered, PendingBacked
  <1>2. QED
    BY <1>1, IInvInit, IInvNext, PTL DEF Spec

(* The last handoff is at least as new as any pending work, is there       *)
(* whenever pending work has no active session, and owns the pending commit.*)
THEOREM LastHandoffCorrect == Spec => []LastHandoffIsLatest
  <1>1. IInv => LastHandoffIsLatest
    BY DEF IInv, Good, LatestIn, LastHandoffIsLatest
  <1>2. QED
    BY <1>1, IInvInit, IInvNext, PTL DEF Spec

------------------------------------------------------------------------------
(* Open steps are not lost. *)

LEMMA WorkIs ==
  ASSUME NEW s, NEW step
  PROVE  step \in WorkIn(s) <=>
           \/ s.active # None /\ step \in s.active.next
           \/ \E i \in 1..Len(s.pending) : step \in s.pending[i].next
  BY DEF WorkIn

(* An operation that keeps the queue and the active session's steps. *)
LEMMA WorkSameQueue ==
  ASSUME NEW s, NEW t, t.pending = s.pending,
         s.active # None => t.active # None /\ s.active.next \subseteq t.active.next
  PROVE  WorkIn(s) \subseteq WorkIn(t)
  BY DEF WorkIn

(* An operation that pushes the active session's steps on the queue. *)
LEMMA WorkPushed ==
  ASSUME NEW s, NEW t, NEW item \in PendingWork, s.pending \in Seq(PendingWork),
         t.pending = <<item>> \o s.pending,
         s.active # None => s.active.next \subseteq item.next
  PROVE  WorkIn(s) \subseteq WorkIn(t)
  <1>1. Len(s.pending) \in Nat
    OBVIOUS
  <1>2. <<item>> \in Seq(PendingWork) /\ Len(<<item>>) = 1 /\ <<item>>[1] = item
    OBVIOUS
  <1>3. /\ Len(t.pending) = 1 + Len(s.pending)
        /\ \A i \in 1 .. 1 + Len(s.pending) :
             t.pending[i] = IF i <= 1 THEN <<item>>[i] ELSE s.pending[i - 1]
    BY <1>1, <1>2, ConcatProperties
  <1>4. t.pending[1] = item /\ 1 \in 1..Len(t.pending)
    BY <1>1, <1>2, <1>3
  <1>5. \A i \in 1..Len(s.pending) :
          i + 1 \in 1..Len(t.pending) /\ t.pending[i + 1] = s.pending[i]
    BY <1>1, <1>3
  <1>6. SUFFICES ASSUME NEW step \in WorkIn(s)
                 PROVE  step \in WorkIn(t)
    OBVIOUS
  <1>7. CASE s.active # None /\ step \in s.active.next
    <2>1. step \in t.pending[1].next
      BY <1>4, <1>7
    <2>2. QED
      BY <1>4, <2>1, WorkIs
  <1>8. CASE \E i \in 1..Len(s.pending) : step \in s.pending[i].next
    <2>1. PICK i \in 1..Len(s.pending) : step \in s.pending[i].next
      BY <1>8
    <2>2. i + 1 \in 1..Len(t.pending) /\ step \in t.pending[i + 1].next
      BY <1>5, <2>1
    <2>3. QED
      BY <2>2, WorkIs
  <1>9. QED
    BY <1>6, <1>7, <1>8, WorkIs

LEMMA WorkStarted ==
  ASSUME NEW s \in HolisticState, NEW id
  PROVE  WorkIn(s) \subseteq WorkIn(Started(s, id))
  <1> DEFINE t == Started(s, id)
  <1>1. s.pending \in Seq(PendingWork)
    BY StateType
  <1>2. CASE s.active # None /\ HasCarryableWork(s.active)
    <2>1. /\ ToPendingWork(s.active) \in PendingWork
          /\ ToPendingWork(s.active).next = s.active.next
      BY <1>2, StateType, PendingType DEF ToPendingWork
    <2>2. t.pending = <<ToPendingWork(s.active)>> \o s.pending
      BY <1>2 DEF Started
    <2> HIDE DEF t
    <2>3. QED
      BY <1>1, <2>1, <2>2, WorkPushed DEF t
  <1>3. CASE ~(s.active # None /\ HasCarryableWork(s.active))
    <2>1. t.pending = s.pending
      BY <1>3 DEF Started
    <2>2. s.active # None => s.active.next = {}
      BY <1>3 DEF HasCarryableWork
    <2> HIDE DEF t
    <2>3. WorkIn(s) \subseteq WorkIn(t)
      BY <2>1, <2>2, WorkIs
    <2>4. QED
      BY <2>3 DEF t
  <1>4. QED
    BY <1>2, <1>3

LEMMA WorkHandedOff ==
  ASSUME NEW s \in HolisticState, s.active # None, NEW session \in Session,
         s.active.next \subseteq session.next, NEW nextAction
  PROVE  WorkIn(s) \subseteq WorkIn(HandedOff(s, session, nextAction))
  <1> DEFINE t == HandedOff(s, session, nextAction)
  <1>1. s.pending \in Seq(PendingWork)
    BY StateType
  <1>2. CASE session.next # {}
    <2>1. /\ ToPendingWork(session) \in PendingWork
          /\ ToPendingWork(session).next = session.next
      BY PendingType DEF ToPendingWork
    <2>2. t.pending = <<ToPendingWork(session)>> \o s.pending
      BY <1>2 DEF HandedOff
    <2> HIDE DEF t
    <2>3. QED
      BY <1>1, <2>1, <2>2, WorkPushed DEF t
  <1>3. CASE session.next = {}
    <2>1. t.pending = s.pending
      BY <1>3 DEF HandedOff
    <2> HIDE DEF t
    <2>2. WorkIn(s) \subseteq WorkIn(t)
      BY <1>3, <2>1, WorkIs
    <2>3. QED
      BY <2>2 DEF t
  <1>4. QED
    BY <1>2, <1>3

LEMMA WorkColdStart ==
  ASSUME NEW s \in HolisticState, s.active = None, NEW id \in Id,
         NEW t \in ColdStarts(s, id)
  PROVE  WorkIn(s) \subseteq WorkIn(t)
  <1>1. s.pending \in Seq(PendingWork)
    BY StateType
  <1>2. CASE s.pending = <<>>
    <2>1. Len(s.pending) = 0
      BY <1>2
    <2>2. QED
      BY <2>1, WorkIs
  <1>3. CASE s.pending # <<>>
    <2> DEFINE head == Head(s.pending)
               steps == IF head.next = {} THEN {DefaultStep} ELSE head.next
    <2>1. /\ Len(s.pending) \in Nat \ {0} /\ head = s.pending[1]
          /\ Tail(s.pending) \in Seq(PendingWork)
          /\ Len(Tail(s.pending)) = Len(s.pending) - 1
          /\ \A i \in 1..Len(Tail(s.pending)) : Tail(s.pending)[i] = s.pending[i + 1]
      BY <1>1, <1>3, HeadTailProperties, EmptySeq
    <2>2. t = [s EXCEPT !.active = [NewSession(id) EXCEPT !.next = steps,
                                                        !.learned = head.learned],
                        !.pending = Tail(s.pending), !.pendingCommit = None]
      BY <1>3 DEF ColdStarts
    <2>3. t.pending = Tail(s.pending) /\ t.active.next = steps /\ t.active # None
      <3>1. [NewSession(id) EXCEPT !.next = steps, !.learned = head.learned] \in Session
        <4>1. head \in PendingWork
          BY <1>1, <1>3, HeadTailProperties
        <4>2. steps \in SUBSET Step /\ head.learned \in SUBSET Lesson
          BY <4>1, ConstantsOK DEF PendingWork
        <4>3. QED
          BY <4>2, NewSessionType DEF NewSession, Session
      <3>2. QED
        BY <2>2, <3>1, SessionIsNotNone DEF HolisticState, NewSession
    <2>4. ASSUME NEW i \in 1..Len(s.pending), NEW step, step \in s.pending[i].next
          PROVE  step \in WorkIn(t)
      <3>1. CASE i = 1
        BY <2>1, <2>3, <2>4, <3>1, WorkIs
      <3>2. CASE i # 1
        <4>1. i - 1 \in 1..Len(t.pending) /\ t.pending[i - 1] = s.pending[i]
          BY <2>1, <2>3, <3>2
        <4>2. QED
          BY <2>4, <4>1, WorkIs
      <3>3. QED
        BY <3>1, <3>2
    <2>5. QED
      BY <2>4, WorkIs
  <1>4. QED
    BY <1>2, <1>3

Conserved ==
  \E k \in KeptLengths(state.pending) \cup {Len(state.pending)} :
    WorkIn(Pruned(state, k)) \subseteq WorkIn(state')

LEMMA WorkKept ==
  ASSUME IInv, WorkIn(state) \subseteq WorkIn(state') PROVE Conserved
  <1>1. state \in HolisticState /\ state.pending \in Seq(PendingWork)
    BY StateType DEF IInv, Good
  <1>2. SubSeq(state.pending, 1, Len(state.pending)) = state.pending
    BY <1>1, SubSeqFull
  <1>3. /\ Pruned(state, Len(state.pending)).pending = state.pending
        /\ Pruned(state, Len(state.pending)).active = state.active
    BY <1>1, <1>2 DEF Pruned, HolisticState
  <1>4. WorkIn(Pruned(state, Len(state.pending))) = WorkIn(state)
    BY <1>3 DEF WorkIn
  <1>5. QED
    BY <1>4 DEF Conserved

LEMMA PrunedWork ==
  ASSUME IInv, NEW k \in KeptLengths(state.pending)
  PROVE  /\ Pruned(state, k) \in HolisticState
         /\ Pruned(state, k).active = state.active
         /\ WorkIn(Pruned(state, k)) \subseteq WorkIn(state') => Conserved
  BY GoodPruned DEF IInv, Good, Conserved

LEMMA MergedWork ==
  ASSUME NEW session \in Session, NEW next, NEW learned, NEW signal
  PROVE  session.next \subseteq Merged(session, next, learned, signal).next
  BY DEF Session, Merged

(* A checkpoint of the session that is active in s, or of a new one. *)
LEMMA WorkCheckpointed ==
  ASSUME NEW s \in HolisticState, NEW session \in Session,
         s.active # None => s.active.next \subseteq session.next
  PROVE  WorkIn(s) \subseteq WorkIn(Checkpointed(s, session))
  <1>1. /\ Checkpointed(s, session).pending = s.pending
        /\ Checkpointed(s, session).active = session /\ session # None
    BY SessionIsNotNone DEF Checkpointed, HolisticState
  <1> HIDE DEF Checkpointed
  <1>2. QED
    BY <1>1, WorkSameQueue

LEMMA StepConserves == ASSUME IInv, Next, state' # state PROVE Conserved
  <1>1. state \in HolisticState /\ TypeOK
    BY DEF IInv, Good
  <1>2. CASE StartNew
    <2>1. PICK k \in KeptLengths(state.pending), id \in Id :
            state' = Started(Pruned(state, k), id)
      BY <1>2 DEF StartNew, Persist
    <2>2. QED
      BY <2>1, PrunedWork, WorkStarted
  <1>3. CASE Continue
    <2>1. PICK k \in KeptLengths(state.pending), id \in Id :
            \/ /\ state.active # None
               /\ state' = Checkpointed(Pruned(state, k), state.active)
            \/ state.active = None /\ state' \in ColdStarts(Pruned(state, k), id)
      BY <1>3 DEF Continue, Persist, Keep
    <2>2. CASE state.active # None /\ state' = Checkpointed(Pruned(state, k), state.active)
      BY <1>1, <2>2, PrunedWork, StateType, WorkCheckpointed
    <2>3. CASE state.active = None /\ state' \in ColdStarts(Pruned(state, k), id)
      BY <2>3, PrunedWork, WorkColdStart
    <2>4. QED
      BY <2>1, <2>2, <2>3
  <1>4. CASE Checkpoint
    <2>1. PICK id \in Id, next \in SUBSET Step, learned \in SUBSET Lesson,
               signal \in Signals :
            state' = Checkpointed(state,
              Merged(IF state.active = None THEN NewSession(id) ELSE state.active,
                     next, learned, signal))
      BY <1>4 DEF Checkpoint, Persist
    <2> DEFINE base == IF state.active = None THEN NewSession(id) ELSE state.active
               session == Merged(base, next, learned, signal)
    <2>2. base \in Session
      BY <1>1, StateType, NewSessionType
    <2>3. /\ session \in Session
          /\ state.active # None => state.active.next \subseteq session.next
      BY <2>2, MergedType, MergedWork, OutcomeIsBoolean
    <2> HIDE DEF session
    <2>4. state' = Checkpointed(state, session)
      BY <2>1 DEF session
    <2>5. QED
      BY <1>1, <2>3, <2>4, WorkCheckpointed, WorkKept
  <1>5. CASE DaemonCheckpoint
    <2>1. PICK k \in KeptLengths(state.pending), id \in Id :
            LET kept == Pruned(state, k)
                base == IF state.active = None THEN Started(kept, id) ELSE kept
            IN  state' = Checkpointed(base, Merged(base.active, FirstSteps(base.active),
                                                   {DefaultLesson}, FALSE))
      BY <1>5 DEF DaemonCheckpoint, Persist
    <2> DEFINE kept == Pruned(state, k)
               base == IF state.active = None THEN Started(kept, id) ELSE kept
               session == Merged(base.active, FirstSteps(base.active), {DefaultLesson}, FALSE)
    <2>2. kept \in HolisticState /\ kept.active = state.active
      BY PrunedWork
    <2>3. /\ base \in HolisticState /\ base.active \in Session
          /\ WorkIn(kept) \subseteq WorkIn(base)
      <3>1. CASE state.active # None
        BY <2>2, <3>1, StateType
      <3>2. CASE state.active = None
        <4>1. /\ base.active = NewSession(id) /\ base.pending = kept.pending
              /\ base.lastHandoff = None /\ base.pendingCommit = None
              /\ base = [active |-> NewSession(id), pending |-> kept.pending,
                         lastHandoff |-> None, pendingCommit |-> None]
          BY <2>2, <3>2 DEF Started
        <4>2. base \in HolisticState
          BY <2>2, <4>1, StateType, NewSessionType DEF HolisticState
        <4>3. base = Started(kept, id)
          BY <3>2
        <4>4. WorkIn(kept) \subseteq WorkIn(base)
          BY <2>2, <4>3, WorkStarted
        <4>5. QED
          BY <4>1, <4>2, <4>4, NewSessionType
      <3>3. QED
        BY <3>1, <3>2
    <2> HIDE DEF base
    <2>4. session \in Session /\ base.active.next \subseteq session.next
      BY <2>3, FirstStepsType, MergedType, MergedWork, ConstantsOK
    <2> HIDE DEF session
    <2>5. WorkIn(base) \subseteq WorkIn(Checkpointed(base, session))
      BY <2>3, <2>4, WorkCheckpointed
    <2>6. state' = Checkpointed(base, session)
      BY <2>1 DEF base, session
    <2>7. WorkIn(kept) \subseteq WorkIn(state')
      BY <2>3, <2>5, <2>6
    <2>8. QED
      BY <2>7, PrunedWork
  <1>6. CASE DaemonObserve
    <2>1. PICK k \in KeptLengths(state.pending) : state' = Pruned(state, k)
      BY <1>6 DEF DaemonObserve, Persist
    <2>2. QED
      BY <2>1, PrunedWork
  <1>7. CASE MarkCommit
    <2>1. state' = [state EXCEPT !.pendingCommit = None]
      BY <1>7 DEF MarkCommit, Persist
    <2>2. state'.pending = state.pending /\ state'.active = state.active
      BY <1>1, <2>1 DEF HolisticState
    <2>3. QED
      BY <2>2, WorkSameQueue, WorkKept
  <1>8. ASSUME NEW c \in Cli \cup Mcp, HandoffStep(c) PROVE Conserved
    <2> DEFINE session == Merged(state.active, handing[c].next, handing[c].learned,
                                 state.active.signal)
    <2>1. /\ state.active # None /\ handing[c] # None
          /\ \E nextAction : state' = HandedOff(state, session, nextAction)
      BY <1>8 DEF HandoffStep, BeginHandoff, BeginMcpHandoff, RescueAnswers,
         FinishHandoff, FinishMcpHandoff, ApplyHandoff, Persist
    <2>2. state.active \in Session /\ handing[c] \in Handoff
      BY <1>1, <2>1, StateType DEF TypeOK
    <2>3. /\ handing[c].next \in SUBSET Step /\ handing[c].learned \in SUBSET Lesson
          /\ state.active.signal \in BOOLEAN
      BY <2>2 DEF Handoff, Session
    <2>4. session \in Session /\ state.active.next \subseteq session.next
      BY <2>2, <2>3, MergedType, MergedWork
    <2> HIDE DEF session
    <2>5. WorkIn(state) \subseteq WorkIn(state')
      BY <1>1, <2>1, <2>4, WorkHandedOff
    <2>6. QED
      BY <2>5, WorkKept
  <1>9. CASE AutoDraftTick \/ TimePasses
    BY <1>9 DEF AutoDraftTick, TimePasses
  <1>10. QED
    BY <1>2, <1>3, <1>4, <1>5, <1>6, <1>7, <1>8, <1>9 DEF Next

(* No operation of any process loses an open step, except with the oldest  *)
(* entries that hygiene prunes from the queue.                             *)
THEOREM NoWorkLost == Spec => WorkConserved
  <1>1. IInv /\ [Next]_vars =>
          [\E k \in KeptLengths(state.pending) \cup {Len(state.pending)} :
             WorkIn(Pruned(state, k)) \subseteq WorkIn(state')]_state
    BY StepConserves DEF vars, Conserved
  <1>2. QED
    BY <1>1, IInvInit, IInvNext, PTL DEF Spec, WorkConserved

------------------------------------------------------------------------------
(***************************************************************************)
(* The draft file and the answers of a handoff: what a draft says of its   *)
(* session is true, and the answers given to a handoff outlive the session *)
(* they were asked for.                                                    *)
(***************************************************************************)

LEMMA Types ==
  ASSUME IInv
  PROVE  /\ TypeOK /\ state \in HolisticState /\ draft \in Draft \cup {None}
         /\ state.active # None => state.active \in Session
         /\ handing \in [Cli \cup Mcp -> Handoff \cup {None}]
  BY StateType DEF IInv, Good, TypeOK

------------------------------------------------------------------------------
(* A current draft. *)

(* A saved operation leaves no draft current, and one that is not saved     *)
(* leaves the session as it was.                                            *)
LEMMA TouchedIsFaithful ==
  ASSUME IInv, DraftIsFaithful, NEW saved, draft' = Touched(draft, saved),
         saved \/ state' = state
  PROVE  DraftIsFaithful'
  <1>1. CASE saved
    <2>1. draft' # None => draft # None /\ draft' = [draft EXCEPT !.current = FALSE]
      BY <1>1 DEF Touched, Outdated
    <2>2. draft' # None => draft \in Draft
      BY <2>1, Types
    <2>3. draft' # None => ~draft'.current
      BY <2>1, <2>2 DEF Draft
    <2>4. QED
      BY <2>3 DEF DraftIsFaithful
  <1>2. CASE ~saved
    BY <1>2 DEF Touched, DraftIsFaithful
  <1>3. QED
    BY <1>1, <1>2

LEMMA CheckpointIsFaithful == ASSUME IInv, DraftIsFaithful, Checkpoint PROVE DraftIsFaithful'
  <1>1. PICK id \in Id, next \in SUBSET Step, learned \in SUBSET Lesson,
             signal \in Signals, saved \in Outcomes :
          LET base == IF state.active = None THEN NewSession(id) ELSE state.active
              session == Merged(base, next, learned, signal)
              passed == IF state.active = None THEN {} ELSE elapsed \ {"idle"}
              reason == DraftReason(session, passed, Outdated(draft))
          IN  /\ Persist(Checkpointed(state, session), saved)
              /\ draft' = IF reason = "" THEN Touched(draft, saved)
                          ELSE DraftFor(session, reason, saved)
    BY DEF Checkpoint
  <1> DEFINE base == IF state.active = None THEN NewSession(id) ELSE state.active
             session == Merged(base, next, learned, signal)
             passed == IF state.active = None THEN {} ELSE elapsed \ {"idle"}
             reason == DraftReason(session, passed, Outdated(draft))
  <1>2. CASE reason = ""
    <2>1. draft' = Touched(draft, saved)
      BY <1>1, <1>2
    <2>2. saved \/ state' = state
      BY <1>1 DEF Persist
    <2>3. QED
      BY <2>1, <2>2, TouchedIsFaithful
  <1>3. CASE reason # ""
    <2>1. draft' = DraftFor(session, reason, saved)
      BY <1>1, <1>3
    <2> HIDE DEF reason, session
    <2>2. /\ draft'.current = saved /\ draft'.next = FirstSteps(session)
          /\ draft'.learned = session.learned
      BY <2>1 DEF DraftFor
    <2>3. saved => state'.active = session
      <3>1. saved => state' = Checkpointed(state, session)
        BY <1>1 DEF Persist, session
      <3>2. Checkpointed(state, session).active = session
        BY Types DEF Checkpointed, HolisticState
      <3>3. QED
        BY <3>1, <3>2
    <2>4. QED
      BY <2>2, <2>3 DEF DraftIsFaithful
  <1>4. QED
    BY <1>2, <1>3

LEMMA HandoffIsFaithful ==
  ASSUME IInv, DraftIsFaithful, NEW c \in Cli \cup Mcp, HandoffStep(c)
  PROVE  DraftIsFaithful'
  <1>1. CASE BeginHandoff(c) \/ BeginMcpHandoff(c)
    BY <1>1 DEF BeginHandoff, BeginMcpHandoff, DraftIsFaithful
  <1>2. CASE FinishHandoff(c)
    BY <1>2 DEF FinishHandoff, DraftIsFaithful
  <1>3. CASE RescueAnswers(c)
    BY <1>3 DEF RescueAnswers, DraftIsFaithful
  <1>4. CASE FinishMcpHandoff(c)
    <2>1. PICK saved \in Outcomes :
            \/ UNCHANGED <<state, draft>>
            \/ ApplyHandoff(c, saved) /\ draft' = Touched(draft, saved)
      BY <1>4 DEF FinishMcpHandoff
    <2>2. CASE UNCHANGED <<state, draft>>
      BY <2>2 DEF DraftIsFaithful
    <2>3. CASE ApplyHandoff(c, saved) /\ draft' = Touched(draft, saved)
      BY <2>3, TouchedIsFaithful DEF ApplyHandoff, Persist
    <2>4. QED
      BY <2>1, <2>2, <2>3
  <1>5. QED
    BY <1>1, <1>2, <1>3, <1>4 DEF HandoffStep

LEMMA FaithfulNext ==
  ASSUME IInv, DraftIsFaithful, [Next]_vars PROVE DraftIsFaithful'
  <1>1. CASE UNCHANGED vars
    BY <1>1 DEF vars, DraftIsFaithful
  <1>2. CASE StartNew \/ Continue \/ DaemonCheckpoint
    <2>1. PICK saved \in Outcomes :
            draft' = Touched(draft, saved) /\ (saved \/ state' = state)
      BY <1>2 DEF StartNew, Continue, DaemonCheckpoint, Persist
    <2>2. QED
      BY <2>1, TouchedIsFaithful
  <1>3. CASE DaemonObserve \/ MarkCommit
    <2>1. draft' = draft /\ state'.active = state.active
      BY <1>3, Types DEF DaemonObserve, MarkCommit, Persist, Pruned, HolisticState
    <2>2. QED
      BY <2>1 DEF DraftIsFaithful
  <1>4. CASE AutoDraftTick
    BY <1>4 DEF AutoDraftTick, DraftFor, DraftIsFaithful
  <1>5. CASE TimePasses
    BY <1>5 DEF TimePasses, DraftIsFaithful
  <1>6. QED
    BY <1>1, <1>2, <1>3, <1>4, <1>5, CheckpointIsFaithful, HandoffIsFaithful DEF Next

(* A draft that the code takes for current, for its session and its time,  *)
(* holds the notes that session has now, whichever saves fail.             *)
THEOREM DraftCorrect == Spec => []DraftIsFaithful
  <1>1. Init => DraftIsFaithful
    BY DEF Init, DraftIsFaithful
  <1>2. QED
    BY <1>1, IInvInit, IInvNext, FaithfulNext, PTL DEF Spec

------------------------------------------------------------------------------
(* The answers. *)

(* Without failing saves, and by a handoff of the command only, answers     *)
(* leave the prompt.                                                        *)
LEMMA AnswersLeave ==
  ASSUME IInv, Next, NEW c \in Cli, handing[c] # None, handing'[c] = None
  PROVE  FinishHandoff(c) \/ RescueAnswers(c)
  <1>1. handing \in [Cli \cup Mcp -> Handoff \cup {None}] /\ c \notin Mcp
    BY Types, ConstantsOK
  <1>2. \/ handing' = handing
        \/ \E d \in Cli \cup Mcp : HandoffStep(d)
    BY DEF Next, StartNew, Continue, Checkpoint, DaemonCheckpoint, DaemonObserve,
       AutoDraftTick, TimePasses, MarkCommit
  <1>3. PICK d \in Cli \cup Mcp : HandoffStep(d)
    BY <1>2
  <1>4. \E h : handing' = [handing EXCEPT ![d] = h]
    BY <1>3 DEF HandoffStep, BeginHandoff, FinishHandoff, RescueAnswers,
       BeginMcpHandoff, FinishMcpHandoff
  <1>5. d = c
    BY <1>1, <1>4
  <1>6. QED
    BY <1>1, <1>3, <1>5 DEF HandoffStep, BeginHandoff, BeginMcpHandoff, FinishMcpHandoff

(* The steps of a session that is handed off become pending work. *)
LEMMA HandedOffWork ==
  ASSUME NEW s \in HolisticState, NEW session \in Session, NEW nextAction
  PROVE  session.next \subseteq WorkIn(HandedOff(s, session, nextAction))
  <1> DEFINE t == HandedOff(s, session, nextAction)
             item == ToPendingWork(session)
  <1>1. CASE session.next # {}
    <2>1. /\ s.pending \in Seq(PendingWork) /\ item \in PendingWork
          /\ item.next = session.next
      BY StateType, PendingType DEF ToPendingWork
    <2>2. t.pending = <<item>> \o s.pending
      BY <1>1 DEF HandedOff
    <2> HIDE DEF t, item
    <2>3. 1 \in 1..Len(t.pending) /\ t.pending[1] = item
      <3>1. <<item>> \in Seq(PendingWork) /\ Len(<<item>>) = 1 /\ <<item>>[1] = item
        BY <2>1
      <3>2. /\ Len(t.pending) = 1 + Len(s.pending)
            /\ \A i \in 1 .. 1 + Len(s.pending) :
                 t.pending[i] = IF i <= 1 THEN <<item>>[i] ELSE s.pending[i - 1]
        BY <2>1, <2>2, <3>1, ConcatProperties
      <3>3. Len(s.pending) \in Nat
        BY <2>1
      <3>4. QED
        BY <3>1, <3>2, <3>3
    <2>4. QED
      BY <2>1, <2>3, WorkIs DEF t
  <1>2. CASE session.next = {}
    BY <1>2
  <1>3. QED
    BY <1>1, <1>2

(* What a finished handoff leaves when saves do not fail. *)
LEMMA Finished ==
  ASSUME IInv, SaveFails = FALSE, NEW c \in Cli, FinishHandoff(c)
  PROVE  /\ state'.active = None /\ handing[c] # None /\ handing'[c] = None
         /\ handing[c].next \subseteq WorkIn(state')
  <1> DEFINE session == Merged(state.active, handing[c].next, handing[c].learned,
                               state.active.signal)
  <1>1. /\ handing[c] # None /\ state.active # None
        /\ handing' = [handing EXCEPT ![c] = None]
        /\ \E nextAction : state' = HandedOff(state, session, nextAction)
    BY DEF FinishHandoff, ApplyHandoff, Persist, Outcomes
  <1>2. state.active \in Session /\ handing[c] \in Handoff
    BY <1>1, Types
  <1>3. session \in Session /\ handing[c].next \subseteq session.next
    <2>1. /\ handing[c].next \in SUBSET Step /\ handing[c].learned \in SUBSET Lesson
          /\ state.active.signal \in BOOLEAN
      BY <1>2 DEF Handoff, Session
    <2>2. QED
      BY <1>2, <2>1, MergedType DEF Merged, Session
  <1> HIDE DEF session
  <1>4. PICK nextAction : state' = HandedOff(state, session, nextAction)
    BY <1>1
  <1>5. session.next \subseteq WorkIn(state')
    BY <1>3, <1>4, HandedOffWork, Types
  <1>6. state'.active = None /\ handing'[c] = None
    BY <1>1, <1>4, Types DEF HandedOff
  <1>7. QED
    BY <1>1, <1>3, <1>5, <1>6

LEMMA StepKeeps ==
  ASSUME IInv, SaveFails = FALSE, Next, NEW c \in Cli PROVE Kept(c)
  <1> SUFFICES ASSUME handing[c] # None, handing'[c] = None
               PROVE  handing[c].next \subseteq
                        WorkIn(state') \cup (IF draft' = None THEN {} ELSE draft'.next)
    BY DEF Kept
  <1>1. CASE FinishHandoff(c)
    BY <1>1, Finished
  <1>2. CASE RescueAnswers(c)
    <2>1. handing[c] \in Handoff
      BY Types
    <2>2. draft' \in Draft /\ draft'.next = handing[c].next
      BY <1>2, <2>1 DEF RescueAnswers, Handoff, Draft, Reason
    <2>3. draft' # None
      BY <2>2, ConstantsOK
    <2>4. QED
      BY <2>2, <2>3
  <1>3. QED
    BY <1>1, <1>2, AnswersLeave

(* While saves do not fail, the steps the user gives to holistic handoff    *)
(* are in the state or in the draft afterwards, whatever the session became *)
(* while the prompt was open.                                               *)
THEOREM AnswersOutliveSession ==
  ASSUME SaveFails = FALSE PROVE Spec => AnswersKept
  <1>1. IInv /\ [Next]_vars => [\A c \in Cli : Kept(c)]_vars
    BY StepKeeps
  <1>2. QED
    BY <1>1, IInvInit, IInvNext, PTL DEF Spec, AnswersKept

------------------------------------------------------------------------------
(* The session records.  The copy-then-unlink order loses no session that   *)
(* two processes never met over: for any number of sessions, processes,     *)
(* crashes and failed writes, with diffs and searches in any order.         *)

LEMMA StoreTypeInit == StoreInit => StoreTypeOK
BY StoreOK DEF StoreInit, StoreTypeOK, File, Points, Proc

LEMMA StoreTypeStep == StoreTypeOK /\ [StoreNext]_storeVars => StoreTypeOK'
<1> DEFINE FilesOK ==
      /\ active \in [OldSession -> File]
      /\ archived \in [OldSession -> File]
      /\ pinned \subseteq OldSession
      /\ lock \in Keeper \cup {Nil}
      /\ pc \in [Proc -> Points]
      /\ at \in [Proc -> OldSession \cup {Nil}]
      /\ todo \in [Proc -> SUBSET OldSession]
      /\ faults \in 0..MaxFaults
<1>0. ASSUME StoreTypeOK, [StoreNext]_storeVars PROVE met' \subseteq OldSession
  BY <1>0 DEF StoreTypeOK, StoreNext, storeVars, Meeting, Moves
<1> SUFFICES ASSUME StoreTypeOK, [StoreStep]_stepVars PROVE FilesOK'
  BY <1>0 DEF StoreTypeOK, StoreNext, storeVars
<1> USE StoreOK DEF StoreTypeOK, File, Points, Proc, GoTo, Truncated, Filled, Unlinked, Return
<1>1. ASSUME NEW p \in Proc, StartHygiene(p) PROVE FilesOK'
  BY <1>1 DEF StartHygiene
<1>2. ASSUME NEW p \in Proc, NEW s \in OldSession, OpenArchive(p, s) PROVE FilesOK'
  BY <1>2 DEF OpenArchive
<1>3. ASSUME NEW p \in Proc, FillArchive(p) PROVE FilesOK'
  BY <1>3 DEF FillArchive
<1>4. ASSUME NEW p \in Proc, UnlinkActive(p) PROVE FilesOK'
  BY <1>4 DEF UnlinkActive
<1>5. ASSUME NEW p \in Proc, EndHygiene(p) PROVE FilesOK'
  BY <1>5 DEF EndHygiene
<1>6. ASSUME NEW p \in Proc, NEW s \in OldSession, StartReactivation(p, s) PROVE FilesOK'
  BY <1>6 DEF StartReactivation
<1>7. ASSUME NEW p \in Proc, LoadNothing(p) PROVE FilesOK'
  BY <1>7 DEF LoadNothing
<1>8. ASSUME NEW p \in Proc, LoadArchived(p) PROVE FilesOK'
  BY <1>8 DEF LoadArchived
<1>9. ASSUME NEW p \in Proc, OpenActive(p) PROVE FilesOK'
  BY <1>9 DEF OpenActive
<1>10. ASSUME NEW p \in Proc, FillActive(p) PROVE FilesOK'
  BY <1>10 DEF FillActive
<1>11. ASSUME NEW p \in Proc, UnlinkArchive(p) PROVE FilesOK'
  BY <1>11 DEF UnlinkArchive
<1>12. ASSUME NEW p \in Proc, LookActive(p) PROVE FilesOK'
  BY <1>12 DEF LookActive
<1>13. ASSUME NEW p \in Proc, LookArchive(p) PROVE FilesOK'
  BY <1>13 DEF LookArchive
<1>14. ASSUME NEW p \in Proc, FailWrite(p) PROVE FilesOK'
  BY <1>14 DEF FailWrite
<1>15. ASSUME NEW p \in Proc, Crash(p) PROVE FilesOK'
  BY <1>15 DEF Crash
<1>16. ASSUME NEW p \in Proc, Restart(p) PROVE FilesOK'
  BY <1>16 DEF Restart
<1>17. ASSUME NEW s \in OldSession, Unpin(s) PROVE FilesOK'
  BY <1>17 DEF Unpin
<1>18. CASE UNCHANGED stepVars
  BY <1>18 DEF stepVars
<1> QED
  BY <1>1, <1>2, <1>3, <1>4, <1>5, <1>6, <1>7, <1>8, <1>9, <1>10, <1>11, <1>12,
     <1>13, <1>14, <1>15, <1>16, <1>17, <1>18
  DEF StoreStep, HygieneStep, ReactivationStep

(* Files, lock holder, control points and to-do lists stay within their    *)
(* types.                                                                  *)
THEOREM StoreTypeCorrect == StoreSpec => []StoreTypeOK
<1>1. QED
  BY StoreTypeInit, StoreTypeStep, PTL DEF StoreSpec

------------------------------------------------------------------------------
(***************************************************************************)
(* The inductive invariant: a keeper between two steps has the lock.  Over *)
(* a session that no two processes met over, the copy a process moves from *)
(* stays whole until the copy it moves to is, and the records hygiene      *)
(* still has to move are whole.                                            *)
(***************************************************************************)
UnderWay(p) == pc[p] \notin {"idle", "crashed"}

Apart == \A p, q \in Proc : p # q => Moves(p) \cap Uses(q) \subseteq met

CopyIsSafe(p) ==
  at[p] \notin met =>
    /\ pc[p] = "fillArchive" => active[at[p]] = "whole" /\ archived[at[p]] # "absent"
    /\ pc[p] = "unlinkActive" => archived[at[p]] = "whole"
    /\ pc[p] \in {"openActive", "fillActive"} => archived[at[p]] = "whole"
    /\ pc[p] = "fillActive" => active[at[p]] # "absent"
    /\ pc[p] = "unlinkArchive" => active[at[p]] = "whole"
    /\ pc[p] = "lookArchive" => active[at[p]] # "whole"

Placed(p) ==
  /\ p \in Keeper /\ UnderWay(p) => lock = p
  /\ p \in Command => pc[p] \notin {"pick", "fillArchive", "unlinkActive"}
  /\ UnderWay(p) /\ pc[p] # "pick" => at[p] \in OldSession

TodoIsSafe(p) ==
  pc[p] \in {"pick", "fillArchive", "unlinkActive"} =>
    /\ \A s \in todo[p] \ met : active[s] = "whole"
    /\ pc[p] # "pick" => at[p] \notin todo[p]

MovesAreSafe ==
  /\ StoreTypeOK
  /\ Apart
  /\ NoSessionLost
  /\ \A p \in Proc : Placed(p) /\ CopyIsSafe(p) /\ TodoIsSafe(p)

LEMMA SafeInit == StoreInit => MovesAreSafe
<1> SUFFICES ASSUME StoreInit PROVE MovesAreSafe
  OBVIOUS
<1>1. StoreTypeOK
  BY StoreTypeInit
<1>2. NoSessionLost /\ Apart
  BY DEF StoreInit, NoSessionLost, Apart, Moves
<1> QED
  BY <1>1, <1>2 DEF StoreInit, MovesAreSafe, Placed, UnderWay, CopyIsSafe, TodoIsSafe

LEMMA ApartStep == Apart /\ [StoreNext]_storeVars => Apart'
<1>1. ASSUME StoreNext, NEW p \in Proc, NEW q \in Proc, p # q
      PROVE  (Moves(p) \cap Uses(q) \subseteq met)'
  <2>1. Meeting' \subseteq met'
    BY <1>1 DEF StoreNext
  <2>2. \A s : (s \in Moves(p) \cap Uses(q))' => s \in Meeting'
    BY <1>1 DEF Meeting, Moves
  <2> QED
    BY <2>1, <2>2
<1>2. ASSUME Apart, UNCHANGED storeVars PROVE Apart'
  BY <1>2 DEF storeVars, stepVars, Apart, Moves, Uses
<1> QED
  BY <1>1, <1>2 DEF Apart

LEMMA SafeStep == MovesAreSafe /\ [StoreNext]_storeVars => MovesAreSafe'
<1> SUFFICES ASSUME MovesAreSafe, [StoreNext]_storeVars PROVE MovesAreSafe'
  OBVIOUS
<1> USE DEF Proc, GoTo
<1>0. /\ StoreTypeOK /\ StoreTypeOK' /\ Apart /\ Apart'
      /\ [StoreStep]_stepVars /\ met \subseteq met'
  BY StoreTypeStep, ApartStep DEF MovesAreSafe, StoreNext, storeVars
<1> DEFINE Rest == NoSessionLost' /\ \A p \in Proc : (Placed(p) /\ CopyIsSafe(p) /\ TodoIsSafe(p))'
<1> SUFFICES Rest
  BY <1>0 DEF MovesAreSafe
<1> USE StoreOK, <1>0
<1>1. ASSUME NEW p \in Proc, StartHygiene(p) PROVE Rest
  BY <1>1 DEF StartHygiene, MovesAreSafe, NoSessionLost, Placed, UnderWay, CopyIsSafe, TodoIsSafe, StoreTypeOK, Apart, Moves, Uses
<1>2. ASSUME NEW p \in Proc, NEW s \in OldSession, OpenArchive(p, s) PROVE Rest
  BY <1>2 DEF OpenArchive, Truncated, MovesAreSafe, NoSessionLost, Placed, UnderWay, CopyIsSafe, TodoIsSafe, StoreTypeOK, Apart, Moves, Uses
<1>3. ASSUME NEW p \in Proc, FillArchive(p) PROVE Rest
  BY <1>3 DEF FillArchive, Filled, MovesAreSafe, NoSessionLost, Placed, UnderWay, CopyIsSafe, TodoIsSafe, StoreTypeOK, Apart, Moves, Uses
<1>4. ASSUME NEW p \in Proc, UnlinkActive(p) PROVE Rest
  BY <1>4 DEF UnlinkActive, Unlinked, MovesAreSafe, NoSessionLost, Placed, UnderWay, CopyIsSafe, TodoIsSafe, StoreTypeOK, Apart, Moves, Uses
<1>5. ASSUME NEW p \in Proc, EndHygiene(p) PROVE Rest
  BY <1>5 DEF EndHygiene, MovesAreSafe, NoSessionLost, Placed, UnderWay, CopyIsSafe, TodoIsSafe, StoreTypeOK, Apart, Moves, Uses
<1>6. ASSUME NEW p \in Proc, NEW s \in OldSession, StartReactivation(p, s) PROVE Rest
  BY <1>6 DEF StartReactivation, MovesAreSafe, NoSessionLost, Placed, UnderWay, CopyIsSafe, TodoIsSafe, StoreTypeOK, Apart, Moves, Uses
<1>7. ASSUME NEW p \in Proc, LoadNothing(p) PROVE Rest
  BY <1>7 DEF LoadNothing, Return, MovesAreSafe, NoSessionLost, Placed, UnderWay, CopyIsSafe, TodoIsSafe, StoreTypeOK, Apart, Moves, Uses
<1>8. ASSUME NEW p \in Proc, LoadArchived(p) PROVE Rest
  BY <1>8 DEF LoadArchived, MovesAreSafe, NoSessionLost, Placed, UnderWay, CopyIsSafe, TodoIsSafe, StoreTypeOK, Apart, Moves, Uses
<1>9. ASSUME NEW p \in Proc, OpenActive(p) PROVE Rest
  BY <1>9 DEF OpenActive, Truncated, MovesAreSafe, NoSessionLost, Placed, UnderWay, CopyIsSafe, TodoIsSafe, StoreTypeOK, Apart, Moves, Uses
<1>10. ASSUME NEW p \in Proc, FillActive(p) PROVE Rest
  BY <1>10 DEF FillActive, Filled, MovesAreSafe, NoSessionLost, Placed, UnderWay, CopyIsSafe, TodoIsSafe, StoreTypeOK, Apart, Moves, Uses
<1>11. ASSUME NEW p \in Proc, UnlinkArchive(p) PROVE Rest
  BY <1>11 DEF UnlinkArchive, Unlinked, Return, MovesAreSafe, NoSessionLost, Placed, UnderWay, CopyIsSafe, TodoIsSafe, StoreTypeOK, Apart, Moves, Uses
<1>12. ASSUME NEW p \in Proc, LookActive(p) PROVE Rest
  BY <1>12 DEF LookActive, MovesAreSafe, NoSessionLost, Placed, UnderWay, CopyIsSafe, TodoIsSafe, StoreTypeOK, Apart, Moves, Uses
<1>13. ASSUME NEW p \in Proc, LookArchive(p) PROVE Rest
  BY <1>13 DEF LookArchive, MovesAreSafe, NoSessionLost, Placed, UnderWay, CopyIsSafe, TodoIsSafe, StoreTypeOK, Apart, Moves, Uses
<1>14. ASSUME NEW p \in Proc, FailWrite(p) PROVE Rest
  BY <1>14 DEF FailWrite, Return, MovesAreSafe, NoSessionLost, Placed, UnderWay, CopyIsSafe, TodoIsSafe, StoreTypeOK, Apart, Moves, Uses
<1>15. ASSUME NEW p \in Proc, Crash(p) PROVE Rest
  BY <1>15 DEF Crash, MovesAreSafe, NoSessionLost, Placed, UnderWay, CopyIsSafe, TodoIsSafe, StoreTypeOK, Apart, Moves, Uses
<1>16. ASSUME NEW p \in Proc, Restart(p) PROVE Rest
  BY <1>16 DEF Restart, MovesAreSafe, NoSessionLost, Placed, UnderWay, CopyIsSafe, TodoIsSafe, StoreTypeOK, Apart, Moves, Uses
<1>17. ASSUME NEW s \in OldSession, Unpin(s) PROVE Rest
  BY <1>17 DEF Unpin, MovesAreSafe, NoSessionLost, Placed, UnderWay, CopyIsSafe, TodoIsSafe, StoreTypeOK, Apart, Moves, Uses
<1>18. CASE UNCHANGED stepVars
  BY <1>18 DEF stepVars, MovesAreSafe, NoSessionLost, Placed, UnderWay, CopyIsSafe, TodoIsSafe
<1> QED
  BY <1>1, <1>2, <1>3, <1>4, <1>5, <1>6, <1>7, <1>8, <1>9, <1>10, <1>11, <1>12,
     <1>13, <1>14, <1>15, <1>16, <1>17, <1>18
  DEF StoreStep, HygieneStep, ReactivationStep

(* Each session that no two processes met over keeps a copy that can be    *)
(* read, whoever crashes between truncation, write and unlink, and         *)
(* whichever write fails: hygiene and handoffs meet over none, a diff or a *)
(* search may.                                                             *)
THEOREM NothingIsLost == StoreSpec => []NoSessionLost
<1>1. MovesAreSafe => NoSessionLost
  BY DEF MovesAreSafe
<1> QED
  BY <1>1, SafeInit, SafeStep, PTL DEF StoreSpec

(* Only a diff or a search makes two processes meet over a session: the    *)
(* lock keeps hygiene and handoffs from each other.                        *)
THEOREM KeepersNeverMeet ==
  StoreSpec => [](\A p, q \in Keeper : p # q => Moves(p) \cap Uses(q) = {})
<1>1. MovesAreSafe => \A p, q \in Keeper : p # q => Moves(p) \cap Uses(q) = {}
  BY StoreOK DEF MovesAreSafe, Placed, UnderWay, Moves, Uses, Proc
<1> QED
  BY <1>1, SafeInit, SafeStep, PTL DEF StoreSpec

(* A diff or a search that has missed in sessions/ finds the session in    *)
(* the archive, whatever a crash, a failed write or an earlier reactivation *)
(* left half done there, unless another process was moving it.             *)
THEOREM LookupsFind == StoreSpec => LookupFinds
<1> DEFINE Found == \A c \in Command :
                      pc[c] = "lookArchive" /\ pc'[c] = "idle" =>
                        archived[at[c]] = "whole" \/ at[c] \in met
<1>1. MovesAreSafe => Found
  BY DEF MovesAreSafe, CopyIsSafe, Placed, UnderWay, NoSessionLost, Proc
<1> QED
  BY <1>1, SafeInit, SafeStep, PTL DEF StoreSpec, LookupFinds

==============================================================================
