--------------------------- MODULE AndonIngestProofs ---------------------------
(***************************************************************************)
(* Lemmas about the ingest and the board, for any windows: what one event  *)
(* makes of a store, that a stored event is dated and numbered like what   *)
(* was posted, which card a row shows, and what time does to it.  The      *)
(* proofs about the modules that share a store rest on them.               *)
(***************************************************************************)
EXTENDS AndonIngest, SequenceTheorems, WellFoundedInduction, TLAPS

(***************************************************************************)
(* The latest of some times, the last of some events.                      *)
(***************************************************************************)
LEMMA GreatestExists ==
  ASSUME NEW n \in Nat, NEW S \in SUBSET (0..n), S # {}
  PROVE  \E m \in S : \A k \in S : k <= m
<1> DEFINE T == {n - k : k \in S}
<1>1. T \subseteq Nat
  OBVIOUS
<1>2. T # {}
  OBVIOUS
<1>3. PICK least \in T : \A y \in T : ~ (<<y, least>> \in OpToRel(<, Nat))
  BY <1>1, <1>2, NatLessThanWellFounded, WFMin
<1>4. PICK m \in S : least = n - m
  OBVIOUS
<1>5. ASSUME NEW k \in S PROVE k <= m
  <2>1. n - k \in T /\ ~ (<<n - k, n - m>> \in OpToRel(<, Nat))
    BY <1>3, <1>4
  <2>2. ~ (n - k < n - m)
    BY <2>1, <1>1, <1>4 DEF OpToRel
  <2> QED
    BY <2>2
<1> QED
  BY <1>5

LEMMA NewestIs ==
  ASSUME NEW n \in Nat, NEW T \in SUBSET (0..n)
  PROVE  /\ Newest(T) \in T \cup {0} /\ Newest(T) \in 0..n
         /\ \A u \in T : u <= Newest(T)
<1>1. \E t \in T \cup {0} : \A u \in T : u <= t
  <2>1. CASE T = {}
    BY <2>1
  <2>2. CASE T # {}
    BY <2>2, GreatestExists
  <2> QED
    BY <2>1, <2>2
<1>2. Newest(T) \in T \cup {0} /\ \A u \in T : u <= Newest(T)
  BY <1>1 DEF Newest
<1>3. T \cup {0} \subseteq 0..n
  OBVIOUS
<1> QED
  BY <1>2, <1>3

LEMMA LastExists ==
  ASSUME NEW n \in Nat, NEW S, S # {}, \A e \in S : e.at \in 0..n /\ e.id \in 0..n,
         \A e, f \in S : e.id = f.id => e = f
  PROVE  \E e \in S : IsLast(e, S)
<1> DEFINE At == {e.at : e \in S}
<1>1. At \in SUBSET (0..n) /\ At # {}
  OBVIOUS
<1>2. PICK at \in At : \A k \in At : k <= at
  BY <1>1, GreatestExists
<1> DEFINE Id == {e.id : e \in {f \in S : f.at = at}}
<1>3. Id \in SUBSET (0..n) /\ Id # {}
  OBVIOUS
<1>4. PICK id \in Id : \A k \in Id : k <= id
  BY <1>3, GreatestExists
<1>5. PICK e \in S : e.at = at /\ e.id = id
  OBVIOUS
<1>6. ASSUME NEW f \in S PROVE f = e \/ Before(f, e)
  <2>1. f.at \in At /\ f.at <= e.at
    BY <1>2, <1>5
  <2>2. CASE f.at = e.at
    <3>1. f.id \in Id /\ f.id <= e.id
      BY <2>2, <1>4, <1>5
    <3> QED
      BY <3>1, <2>2 DEF Before
  <2> QED
    BY <2>1, <2>2 DEF Before
<1> QED
  BY <1>6 DEF IsLast

------------------------------------------------------------------------------
(* The vocabulary. *)

LEMMA TraceType ==
  ASSUME NEW type
  PROVE  ToRuntimeEvent(type) \in RuntimeEventType
<1>1. "telemetry.noop" \in RuntimeEventType /\ Passthrough \subseteq RuntimeEventType
  BY DEF RuntimeEventType, Passthrough
<1>2. Renames(type) # type => Renames(type) \in RuntimeEventType
  BY DEF Renames, RuntimeEventType, Passthrough, MeaningfulEvents, ContextEvents
<1> QED
  BY <1>1, <1>2 DEF ToRuntimeEvent

LEMMA StatusType ==
  ASSUME NEW type, NEW note, NEW old \in RuntimeStatus \cup {"none"}
  PROVE  MirrorStatus(type, note, old, "none") \in RuntimeStatus
BY DEF MirrorStatus, RuntimeStatus, Running, NeedsAction, Review, Historical, Degraded

LEMMA StatusAgain ==
  ASSUME NEW type, NEW note, NEW old \in RuntimeStatus \cup {"none"}
  PROVE  LET once == MirrorStatus(type, note, old, "none")
         IN MirrorStatus(type, note, once, "none") = once
BY DEF MirrorStatus, RuntimeStatus, Running, NeedsAction, Review, Historical, Degraded

AsStored(e) == [e EXCEPT !.type = Normalized(e.type, e.note, e.from.writer)]

LEMMA NormalizedType ==
  ASSUME NEW e \in PostedEvent
  PROVE  /\ AsStored(e) \in PostedEvent
         /\ AsStored(e).id = e.id /\ AsStored(e).at = e.at /\ AsStored(e).note = e.note
         /\ AsStored(e).from = e.from /\ AsStored(e).task = e.task
<1>1. ASSUME NEW type \in EventType, NEW note, NEW w
      PROVE  Normalized(type, note, w) \in EventType
  BY <1>1 DEF Normalized, EventType, Passthrough, ContextEvents
<1>2. Normalized(e.type, e.note, e.from.writer) \in EventType
  BY <1>1 DEF PostedEvent
<1> QED
  BY <1>2 DEF AsStored, PostedEvent

------------------------------------------------------------------------------
(* One event. *)

(* A batch of one. *)
LEMMA IngestOne ==
  ASSUME NEW s, NEW e
  PROVE  IngestEvents(s, <<e>>) =
           IF s = Rejected \/ Ingested(s, e) = Rejected THEN s ELSE Ingested(s, e)
<1> DEFINE After(sofar, event) == IF sofar = Rejected THEN sofar ELSE Ingested(sofar, event)
           Def(f) == [i \in 0..Len(<<e>>) |->
                        IF i = 0 THEN s ELSE LET sofar == f[i - 1] IN After(sofar, <<e>>[i])]
           result == CHOOSE f : f = Def(f)
           g == [i \in 0..1 |-> IF i = 0 THEN s ELSE After(s, e)]
<1>1. g = Def(g)
  <2>1. \A i \in 0..1 : i # 0 => i = 1 /\ i - 1 = 0
    OBVIOUS
  <2>2. g[0] = s
    OBVIOUS
  <2>3. \A i \in 0..1 : i # 0 => <<e>>[i] = e /\ g[i - 1] = s
    BY <2>1, <2>2
  <2>4. Len(<<e>>) = 1
    OBVIOUS
  <2> QED
    BY <2>3, <2>4
<1>2. result = Def(result)
  <2> HIDE DEF Def, g
  <2> QED
    BY <1>1
<1>3. result[0] = s /\ result[Len(<<e>>)] = After(s, e)
  <2> HIDE DEF result, After
  <2>1. result[0] = s
    BY <1>2
  <2>2. result[1] = After(result[0], e)
    BY <1>2
  <2> QED
    BY <2>1, <2>2
<1>4. IngestEvents(s, <<e>>) =
        IF result[Len(<<e>>)] = Rejected THEN s ELSE result[Len(<<e>>)]
  BY DEF IngestEvents
<1> HIDE DEF result
<1> QED
  BY <1>3, <1>4

(* A batch of two that are both taken in. *)
LEMMA IngestTwo ==
  ASSUME NEW s, s # Rejected, NEW a, Ingested(s, a) # Rejected, NEW b,
         Ingested(Ingested(s, a), b) # Rejected
  PROVE  IngestEvents(s, <<a, b>>) = Ingested(Ingested(s, a), b)
<1> DEFINE After(sofar, event) == IF sofar = Rejected THEN sofar ELSE Ingested(sofar, event)
           Def(f) == [i \in 0..Len(<<a, b>>) |->
                        IF i = 0 THEN s ELSE LET sofar == f[i - 1] IN After(sofar, <<a, b>>[i])]
           result == CHOOSE f : f = Def(f)
           one == Ingested(s, a)
           two == Ingested(one, b)
           g == [i \in 0..2 |-> IF i = 0 THEN s ELSE IF i = 1 THEN one ELSE two]
<1>1. g = Def(g)
  <2>1. \A i \in 0..2 : i # 0 => i \in {1, 2} /\ i - 1 \in 0..2 /\ (i - 1 = 0 <=> i = 1)
    OBVIOUS
  <2>2. g[0] = s /\ g[1] = one /\ g[2] = two
    OBVIOUS
  <2>3. After(s, a) = one /\ After(one, b) = two
    OBVIOUS
  <2>4. Len(<<a, b>>) = 2 /\ <<a, b>>[1] = a /\ <<a, b>>[2] = b
    OBVIOUS
  <2>5. \A i \in 0..2 : g[i] = IF i = 0 THEN s ELSE After(g[i - 1], <<a, b>>[i])
    <3>1. \A i \in 0..2 : g[i] = IF i = 0 THEN s ELSE IF i = 1 THEN one ELSE two
      OBVIOUS
    <3>2. 1 - 1 = 0 /\ 2 - 1 = 1
      OBVIOUS
    <3> HIDE DEF g, After, one, two
    <3> QED
      BY <2>1, <2>2, <2>3, <2>4, <3>1, <3>2
  <2>6. \A f : Def(f) = [i \in 0..2 |-> IF i = 0 THEN s ELSE After(f[i - 1], <<a, b>>[i])]
    BY <2>4
  <2>7. g = [i \in 0..2 |-> g[i]]
    OBVIOUS
  <2> HIDE DEF g, Def, After
  <2> QED
    BY <2>5, <2>6, <2>7
<1>2. result = Def(result)
  <2> HIDE DEF Def, g
  <2> QED
    BY <1>1
<1>3. result[0] = s /\ result[1] = one /\ result[Len(<<a, b>>)] = two
  <2> HIDE DEF result, After
  <2>0. Len(<<a, b>>) = 2 /\ <<a, b>>[1] = a /\ <<a, b>>[2] = b
    OBVIOUS
  <2>1. result[0] = s
    BY <1>2
  <2>2. result[1] = After(result[0], a)
    BY <1>2, <2>0
  <2>3. result[2] = After(result[1], b)
    BY <1>2, <2>0
  <2> QED
    BY <2>0, <2>1, <2>2, <2>3 DEF After
<1>4. IngestEvents(s, <<a, b>>) =
        IF result[Len(<<a, b>>)] = Rejected THEN s ELSE result[Len(<<a, b>>)]
  BY DEF IngestEvents
<1> HIDE DEF result
<1> QED
  BY <1>3, <1>4

(* A batch of up to three events, of kinds that keep a store good. *)
LEMMA IngestBatch ==
  ASSUME NEW Good, NEW Kind, \A s \in Good, e \in Kind : Ingested(s, e) \in Good \cup {Rejected},
         NEW s \in Good, NEW batch \in Seq(Kind),
         NEW len \in 0..3, Len(batch) = len
  PROVE  IngestEvents(s, batch) \in Good
<1> DEFINE After(sofar, event) == IF sofar = Rejected THEN sofar ELSE Ingested(sofar, event)
           Def(f) == [i \in 0..len |->
                        IF i = 0 THEN s ELSE LET sofar == f[i - 1] IN After(sofar, batch[i])]
           result == CHOOSE f : f = Def(f)
           one == After(s, batch[1])
           two == After(one, batch[2])
           g == [i \in 0..len |->
                   IF i = 0 THEN s ELSE IF i = 1 THEN one
                   ELSE IF i = 2 THEN two ELSE After(two, batch[3])]
<1>0. len \in Nat /\ len = Len(batch) /\ \A i \in 1..len : batch[i] \in Kind
  BY LenProperties, ElementOfSeq
<1>1. g = Def(g)
  <2> HIDE DEF After
  <2>2. \A i \in 0..len :
          i # 0 => /\ i \in {1, 2, 3} /\ i - 1 \in 0..len
                   /\ g[i - 1] = IF i = 1 THEN s ELSE IF i = 2 THEN one ELSE two
    OBVIOUS
  <2>3. \A i \in 0..len : g[i] = IF i = 0 THEN s ELSE After(g[i - 1], batch[i])
    <3>1. \A i \in 0..len :
            g[i] = IF i = 0 THEN s ELSE IF i = 1 THEN one
                   ELSE IF i = 2 THEN two ELSE After(two, batch[3])
      OBVIOUS
    <3> HIDE DEF g
    <3> QED
      BY <2>2, <3>1
  <2>4. \A f : Def(f) = [i \in 0..len |->
                            IF i = 0 THEN s ELSE After(f[i - 1], batch[i])]
    OBVIOUS
  <2>5. DOMAIN g = 0..len /\ g = [i \in 0..len |-> g[i]]
    OBVIOUS
  <2> HIDE DEF g, Def
  <2> QED
    BY <2>3, <2>4, <2>5
<1>2. result = Def(result)
  <2> HIDE DEF Def, g
  <2> QED
    BY <1>1
<1>3. /\ result[0] = s
      /\ \A i \in 1..len : result[i] = After(result[i - 1], batch[i])
  <2> HIDE DEF result, After
  <2> QED
    BY <1>2
<1>4. IngestEvents(s, batch) =
        IF result[len] = Rejected THEN s ELSE result[len]
  BY <1>0 DEF IngestEvents
<1> HIDE DEF result
<1>5. \A i \in 1..len :
        result[i - 1] \in Good \cup {Rejected} => result[i] \in Good \cup {Rejected}
  BY <1>0, <1>3
<1>6. result[len] \in Good \cup {Rejected}
  <2> HIDE DEF After
  <2>1. result[0] \in Good \cup {Rejected}
    BY <1>3
  <2>2. len >= 1 => result[1] \in Good \cup {Rejected}
    BY <1>5, <2>1
  <2>3. len >= 2 => result[2] \in Good \cup {Rejected}
    BY <1>5, <2>2
  <2>4. len >= 3 => result[3] \in Good \cup {Rejected}
    BY <1>5, <2>3
  <2> QED
    BY <2>1, <2>2, <2>3, <2>4
<1> QED
  BY <1>4, <1>6

LEMMA RowType ==
  ASSUME NEW s \in Store, NEW e \in PostedEvent
  PROVE  MirroredRow(s, e) \in Row /\ MirroredRow(s, e) # NoRow
<1> DEFINE old == IF s.row = NoRow THEN "none" ELSE s.row.status
           status == MirrorStatus(e.type, e.note, old, "none")
<1>1. old \in RuntimeStatus \cup {"none"}
  BY DEF Store, Row
<1>2. status \in RuntimeStatus
  BY <1>1, StatusType
<1>3. OwnerFor(e.from) \in Owner
  <2>1. "default" \in STRING
    BY IngestOK
  <2>2. e.from.id \in STRING /\ e.from.kind \in STRING /\ e.from.writer \in BOOLEAN
    BY DEF PostedEvent, Sender
  <2>3. IsDirect(e.from) \in BOOLEAN
    BY DEF IsDirect
  <2> QED
    BY <2>1, <2>2, <2>3 DEF OwnerFor, Owner
<1>4. MirroredRow(s, e) \in Row
  <2>1. MirroredRow(s, e) =
          [status |-> status, updatedAt |-> e.at,
           completedAt |-> IF status = "completed" THEN e.at ELSE 0,
           owner |-> OwnerFor(e.from), child |-> FALSE,
           acknowledged |-> e.note = "acknowledged"]
    BY DEF MirroredRow
  <2> HIDE DEF status
  <2> QED
    BY <1>2, <1>3, <2>1 DEF Row, PostedEvent
<1> QED
  BY <1>4, IngestOK

(* What is left of an event that is taken in: its traces in every table. *)
TakenIn(s, e, t) ==
  /\ t.session =
       [known |-> TRUE,
        startedAt |-> IF s.session.known THEN s.session.startedAt ELSE e.at,
        endedAt |-> IF e.type = "session.ended" THEN e.at ELSE s.session.endedAt,
        lastEventAt |-> e.at]
  /\ t.events = Replaced(s.events, [id |-> e.id, type |-> e.type, note |-> e.note,
                                    at |-> e.at])
  /\ t.task = WithTask(s, e).task /\ (e.task => t.task # "none")
  /\ t.processAt = s.processAt
  /\ IF ~MayWrite(e.from, s.row) \/ Late(s, e)
     THEN t.row = s.row /\ t.traces = s.traces
     ELSE /\ t.row = MirroredRow(s, e)
          /\ t.traces = Replaced(s.traces, [id |-> e.id, at |-> e.at,
                                            type |-> ToRuntimeEvent(e.type)])

LEMMA EventTaken ==
  ASSUME NEW s \in Store, NEW e \in PostedEvent, ~SameSwitch(s, AsStored(e)),
         ~Orphan(s, AsStored(e))
  PROVE  /\ Ingested(s, e) \in Store /\ Ingested(s, e) # Rejected
         /\ TakenIn(s, AsStored(e), Ingested(s, e))
<1> DEFINE f == AsStored(e)
<1>1. f \in PostedEvent
  BY NormalizedType
<1>2. Ingested(s, e) = Mirrored(Stored(WithTask(Seen(s, f), f), f), f)
  BY DEF Ingested, AsStored
<1> SUFFICES /\ Mirrored(Stored(WithTask(Seen(s, f), f), f), f) \in Store
             /\ TakenIn(s, f, Mirrored(Stored(WithTask(Seen(s, f), f), f), f))
  BY <1>2, IngestOK
<1>0. ~SameSwitch(s, f) /\ ~Orphan(s, f)
  OBVIOUS
<1> HIDE DEF f
<1> DEFINE seen == Seen(s, f)
           tasked == WithTask(seen, f)
           stored == Stored(tasked, f)
<1>3. /\ seen \in Store
      /\ seen.session =
           [known |-> TRUE,
            startedAt |-> IF s.session.known THEN s.session.startedAt ELSE f.at,
            endedAt |-> IF f.type = "session.ended" THEN f.at ELSE s.session.endedAt,
            lastEventAt |-> f.at]
      /\ seen.events = s.events /\ seen.task = s.task /\ seen.row = s.row
      /\ seen.traces = s.traces /\ seen.processAt = s.processAt
  BY <1>1 DEF Seen, Store, PostedEvent
<1> HIDE DEF seen
<1>4. /\ tasked \in Store /\ tasked.session = seen.session
      /\ tasked.task = WithTask(s, f).task /\ (f.task => tasked.task # "none")
      /\ tasked.events = s.events /\ tasked.row = s.row
      /\ tasked.traces = s.traces /\ tasked.processAt = s.processAt
  BY <1>0, <1>1, <1>3 DEF WithTask, Orphan, Store, PostedEvent
<1> HIDE DEF tasked
<1> DEFINE record == [id |-> f.id, type |-> f.type, note |-> f.note, at |-> f.at]
<1>5. /\ stored \in Store /\ stored.session = seen.session /\ stored.task = tasked.task
      /\ stored.events = Replaced(s.events, record) /\ stored.row = s.row
      /\ stored.traces = s.traces /\ stored.processAt = s.processAt
  <2>1. record \in StoredEvent
    BY <1>1 DEF StoredEvent, PostedEvent
  <2>2. Replaced(s.events, record) \in SUBSET StoredEvent
    BY <2>1 DEF Replaced, Store
  <2>3. stored = [tasked EXCEPT !.events = Replaced(s.events, record)]
    BY <1>4 DEF Stored
  <2> HIDE DEF record, stored
  <2> QED
    BY <1>4, <2>2, <2>3 DEF Store
<1> HIDE DEF stored
<1> DEFINE trace == [id |-> f.id, at |-> f.at, type |-> ToRuntimeEvent(f.type)]
<1>6. MirroredRow(stored, f) = MirroredRow(s, f) /\ (Late(stored, f) <=> Late(s, f))
  BY <1>5 DEF MirroredRow, Late
<1>7. Replaced(s.traces, trace) \in SUBSET TraceEvent
  BY <1>1, TraceType DEF Replaced, Store, TraceEvent, PostedEvent
<1>8. MirroredRow(s, f) \in Row
  BY <1>1, RowType
<1>9. CASE ~MayWrite(f.from, s.row) \/ Late(s, f)
  <2>1. Mirrored(stored, f) = stored
    BY <1>5, <1>6, <1>9 DEF Mirrored
  <2> QED
    BY <2>1, <1>3, <1>4, <1>5, <1>9 DEF TakenIn, stored, tasked, seen
<1>10. CASE ~(~MayWrite(f.from, s.row) \/ Late(s, f))
  <2>1. Mirrored(stored, f) =
          [stored EXCEPT !.row = MirroredRow(s, f), !.traces = Replaced(s.traces, trace)]
    BY <1>5, <1>6, <1>10 DEF Mirrored
  <2>2. /\ Mirrored(stored, f) \in Store /\ Mirrored(stored, f).session = seen.session
        /\ Mirrored(stored, f).task = tasked.task
        /\ Mirrored(stored, f).events = Replaced(s.events, record)
        /\ Mirrored(stored, f).processAt = s.processAt
        /\ Mirrored(stored, f).row = MirroredRow(s, f)
        /\ Mirrored(stored, f).traces = Replaced(s.traces, trace)
    <3> HIDE DEF record, trace
    <3> QED
      BY <2>1, <1>5, <1>7, <1>8 DEF Store
  <2> QED
    BY <2>2, <1>3, <1>4, <1>10 DEF TakenIn, stored, tasked, seen
<1> QED
  BY <1>9, <1>10 DEF stored, tasked, seen

LEMMA EventIngested ==
  ASSUME NEW s \in Store, NEW e \in PostedEvent, Ingested(s, e) # Rejected
  PROVE  \/ Ingested(s, e) = s /\ SameSwitch(s, AsStored(e))
         \/ /\ ~SameSwitch(s, AsStored(e))
            /\ Ingested(s, e) \in Store /\ TakenIn(s, AsStored(e), Ingested(s, e))
<1>1. CASE SameSwitch(s, AsStored(e))
  BY <1>1 DEF Ingested, AsStored
<1>2. CASE ~SameSwitch(s, AsStored(e))
  <2>1. ~Orphan(s, AsStored(e))
    BY <1>2 DEF Ingested, AsStored
  <2> QED
    BY <1>2, <2>1, EventTaken
<1> QED
  BY <1>1, <1>2

------------------------------------------------------------------------------
(* Types. *)

(* The part of TypeOK that is about the store, at time n after p posts. *)
Dated(s, n, p) ==
  /\ s \in Store
  /\ {s.session.startedAt, s.session.endedAt, s.session.lastEventAt, s.processAt}
       \subseteq 0..n
  /\ s.session.known <=> s.events # {}
  /\ \A e \in s.events \cup s.traces : e.id \in 0..p /\ e.at \in 1..n
  /\ s.row # NoRow => s.row.updatedAt \in 1..n /\ s.row.completedAt \in 0..n
  /\ s.row = NoRow => s.traces = {} /\ s.processAt = 0

LEMMA EmptyIsDated ==
  ASSUME NEW n \in Nat, NEW p \in Nat
  PROVE  Dated(EmptyStore, n, p) /\ EmptyStore \in Store /\ EmptyStore.traces = {}
  BY DEF Dated, EmptyStore, Store

LEMMA DatedLater ==
  ASSUME NEW s, NEW n \in Nat, NEW p \in Nat, NEW m \in Nat, NEW q \in Nat,
         n <= m, p <= q, Dated(s, n, p)
  PROVE  Dated(s, m, q)
<1>1. 0..n \subseteq 0..m /\ 1..n \subseteq 1..m /\ 0..p \subseteq 0..q
  OBVIOUS
<1>2. {s.session.startedAt, s.session.endedAt, s.session.lastEventAt, s.processAt}
        \subseteq 0..m
  BY <1>1 DEF Dated
<1> QED
  BY <1>1, <1>2 DEF Dated

LEMMA IngestDated ==
  ASSUME NEW s, NEW n \in Nat, NEW p \in Nat, Dated(s, n, p),
         NEW e \in PostedEvent, e.at \in 1..n, e.id \in 0..p
  PROVE  Dated(IngestEvents(s, <<e>>), n, p)
<1> DEFINE t == Ingested(s, e)
           f == AsStored(e)
<1>1. CASE IngestEvents(s, <<e>>) = s
  BY <1>1
<1>2. CASE t # Rejected /\ IngestEvents(s, <<e>>) = t
  <2>1. CASE t = s
    BY <2>1, <1>2
  <2>2. CASE t # s
    <3>1. t \in Store /\ TakenIn(s, f, t)
      BY <2>2, <1>2, EventIngested DEF Dated
    <3>2. /\ f \in PostedEvent /\ f.at \in 1..n /\ f.id \in 0..p
      BY NormalizedType
    <3> SUFFICES Dated(t, n, p)
      BY <1>2
    <3> HIDE DEF t, f
    <3>3. t.session.known /\ t.events # {} /\ s \in Store
      <4>1. t.session.known
        BY <3>1 DEF TakenIn
      <4>2. t.events # {}
        BY <3>1 DEF TakenIn, Replaced
      <4> QED
        BY <4>1, <4>2 DEF Dated
    <3>4. {t.session.startedAt, t.session.endedAt, t.session.lastEventAt, t.processAt}
            \subseteq 0..n
      BY <3>1, <3>2, 1..n \subseteq 0..n DEF TakenIn, Dated
    <3>5. \A g \in t.events : g.id \in 0..p /\ g.at \in 1..n
      BY <3>1, <3>2 DEF TakenIn, Dated, Replaced
    <3>6. CASE ~MayWrite(f.from, s.row) \/ Late(s, f)
      <4>1. t.row = s.row /\ t.traces = s.traces /\ t.processAt = s.processAt
        BY <3>1, <3>6 DEF TakenIn
      <4>2. \A g \in t.traces : g.id \in 0..p /\ g.at \in 1..n
        BY <4>1 DEF Dated
      <4>3. /\ t.row # NoRow => t.row.updatedAt \in 1..n /\ t.row.completedAt \in 0..n
            /\ t.row = NoRow => t.traces = {} /\ t.processAt = 0
        BY <4>1 DEF Dated
      <4> QED
        BY <4>2, <4>3, <3>1, <3>3, <3>4, <3>5 DEF Dated
    <3>7. CASE ~(~MayWrite(f.from, s.row) \/ Late(s, f))
      <4>1. /\ t.row = MirroredRow(s, f)
            /\ t.traces = Replaced(s.traces, [id |-> f.id, at |-> f.at,
                                              type |-> ToRuntimeEvent(f.type)])
        BY <3>1, <3>7 DEF TakenIn
      <4>2. \A g \in t.traces : g.id \in 0..p /\ g.at \in 1..n
        BY <4>1, <3>2 DEF Dated, Replaced
      <4>3. t.row # NoRow /\ t.row.updatedAt = f.at /\ t.row.completedAt \in {0, f.at}
        <5>1. t.row # NoRow
          BY <4>1, <3>2, <3>3, RowType
        <5> QED
          BY <5>1, <4>1 DEF MirroredRow
      <4> QED
        BY <4>2, <4>3, <3>1, <3>2, <3>3, <3>4, <3>5 DEF Dated
    <3> QED
      BY <3>6, <3>7
  <2> QED
    BY <2>1, <2>2
<1> QED
  BY <1>1, <1>2, IngestOne

------------------------------------------------------------------------------
(* The same event again. *)

LEMMA ReplacedAgain ==
  ASSUME NEW records, NEW record
  PROVE  Replaced(Replaced(records, record), record) = Replaced(records, record)
  BY DEF Replaced

LEMMA OwnersMayWrite ==
  ASSUME NEW sender, NEW row, sender.writer \in BOOLEAN, row.owner = OwnerFor(sender)
  PROVE  MayWrite(sender, row)
<1>1. /\ row.owner.mirror = (~sender.writer /\ ~IsDirect(sender))
      /\ sender.id # Unnamed => row.owner.id = sender.id
      /\ sender.kind # Unnamed => row.owner.kind = sender.kind
  BY DEF OwnerFor
<1> QED
  BY <1>1 DEF MayWrite, IsDirect

LEMMA RowAgain ==
  ASSUME NEW s \in Store, NEW e \in PostedEvent, NEW t \in Store,
         t.row = MirroredRow(s, e)
  PROVE  MirroredRow(t, e) = t.row
<1> DEFINE old == IF s.row = NoRow THEN "none" ELSE s.row.status
           status == MirrorStatus(e.type, e.note, old, "none")
<1>1. old \in RuntimeStatus \cup {"none"}
  BY DEF Store, Row
<1>2. MirrorStatus(e.type, e.note, status, "none") = status
  BY <1>1, StatusAgain
<1>3. t.row # NoRow
  BY RowType
<1>4. t.row.status = status
  BY DEF MirroredRow
<1>5. MirroredRow(t, e) =
        [status |-> MirrorStatus(e.type, e.note, t.row.status, "none"), updatedAt |-> e.at,
         completedAt |-> IF MirrorStatus(e.type, e.note, t.row.status, "none") = "completed"
                         THEN e.at ELSE 0,
         owner |-> OwnerFor(e.from), child |-> FALSE,
         acknowledged |-> e.note = "acknowledged"]
  BY <1>3 DEF MirroredRow
<1>6. t.row =
        [status |-> status, updatedAt |-> e.at,
         completedAt |-> IF status = "completed" THEN e.at ELSE 0,
         owner |-> OwnerFor(e.from), child |-> FALSE,
         acknowledged |-> e.note = "acknowledged"]
  BY DEF MirroredRow
<1> HIDE DEF status
<1> QED
  BY <1>2, <1>4, <1>5, <1>6

LEMMA TakenInAgain ==
  ASSUME NEW s \in Store, NEW e \in PostedEvent, NEW t \in Store, NEW u \in Store,
         TakenIn(s, e, t), TakenIn(t, e, u)
  PROVE  u = t
<1>1. u.session = t.session
  BY DEF TakenIn
<1>2. u.events = t.events /\ u.processAt = t.processAt
  BY ReplacedAgain DEF TakenIn
<1>3. u.task = t.task
  BY DEF TakenIn, WithTask, Store
<1>4. u.row = t.row /\ u.traces = t.traces
  <2>1. CASE ~MayWrite(e.from, s.row) \/ Late(s, e)
    <3>1. t.row = s.row /\ t.traces = s.traces
      BY <2>1 DEF TakenIn
    <3>2. ~MayWrite(e.from, t.row) \/ Late(t, e)
      BY <2>1, <3>1 DEF Late
    <3> QED
      BY <3>2 DEF TakenIn
  <2>2. CASE ~(~MayWrite(e.from, s.row) \/ Late(s, e))
    <3> DEFINE trace == [id |-> e.id, at |-> e.at, type |-> ToRuntimeEvent(e.type)]
    <3>1. t.row = MirroredRow(s, e) /\ t.traces = Replaced(s.traces, trace)
      BY <2>2 DEF TakenIn
    <3>2. t.row.owner = OwnerFor(e.from) /\ t.row.updatedAt = e.at /\ e.at \in Nat
      BY <3>1 DEF MirroredRow, PostedEvent
    <3>3. MayWrite(e.from, t.row)
      BY <3>2, OwnersMayWrite DEF PostedEvent, Sender
    <3>4. ~Late(t, e)
      BY <3>2 DEF Late
    <3>5. u.row = MirroredRow(t, e) /\ u.traces = Replaced(t.traces, trace)
      BY <3>3, <3>4 DEF TakenIn
    <3> HIDE DEF trace
    <3> QED
      BY <3>1, <3>5, RowAgain, ReplacedAgain
  <2> QED
    BY <2>1, <2>2
<1> QED
  BY <1>1, <1>2, <1>3, <1>4 DEF Store

LEMMA IngestAgain ==
  ASSUME NEW s \in Store, NEW e \in PostedEvent
  PROVE  IngestEvents(IngestEvents(s, <<e>>), <<e>>) = IngestEvents(s, <<e>>)
<1> DEFINE t == IngestEvents(s, <<e>>)
           u == IngestEvents(t, <<e>>)
<1> SUFFICES u = t
  OBVIOUS
<1>1. CASE t = s
  BY <1>1
<1>2. CASE t # s
  <2>1. t = Ingested(s, e) /\ Ingested(s, e) # Rejected
    BY <1>2, IngestOne
  <2>2. t \in Store /\ TakenIn(s, AsStored(e), t)
    BY <1>2, <2>1, EventIngested
  <2>3. CASE u # t
    <3>1. u = Ingested(t, e) /\ Ingested(t, e) # Rejected
      <4> HIDE DEF t
      <4>1. u # t
        BY <2>3
      <4> QED
        BY <4>1, IngestOne
    <3>2. u \in Store /\ TakenIn(t, AsStored(e), u)
      <4> HIDE DEF t, u
      <4> QED
        BY <2>2, <2>3, <3>1, EventIngested
    <3> HIDE DEF t, u
    <3> QED
      BY <2>2, <3>2, NormalizedType, TakenInAgain
  <2> QED
    BY <2>3
<1> QED
  BY <1>1, <1>2

LEMMA IngestNumbers ==
  ASSUME NEW s \in Store, NEW e \in PostedEvent, NEW t, t = IngestEvents(s, <<e>>)
  PROVE  /\ \A g \in t.events : g \in s.events \/ g.id = e.id
         /\ \A g \in t.traces : g \in s.traces \/ g.id = e.id
         /\ (\A g, h \in s.events : g.id = h.id => g = h)
              => \A g, h \in t.events : g.id = h.id => g = h
<1>1. CASE t = s
  BY <1>1
<1>2. CASE t # s
  <2>1. TakenIn(s, AsStored(e), t)
    BY <1>2, IngestOne, EventIngested
  <2>2. AsStored(e).id = e.id
    BY NormalizedType
  <2> DEFINE f == AsStored(e)
             record == [id |-> f.id, type |-> f.type, note |-> f.note, at |-> f.at]
             trace == [id |-> f.id, at |-> f.at, type |-> ToRuntimeEvent(f.type)]
  <2>3. t.events = Replaced(s.events, record)
    BY <2>1 DEF TakenIn
  <2>4. t.traces = s.traces \/ t.traces = Replaced(s.traces, trace)
    BY <2>1 DEF TakenIn
  <2>5. record.id = e.id /\ trace.id = e.id
    BY <2>2
  <2> HIDE DEF record, trace
  <2> QED
    BY <2>3, <2>4, <2>5 DEF Replaced
<1> QED
  BY <1>1, <1>2

------------------------------------------------------------------------------
(* Late events. *)

LEMMA IngestRewindsNothing ==
  ASSUME NEW s \in Store, NEW e \in PostedEvent, NEW t, t = IngestEvents(s, <<e>>),
         s.row # NoRow, \A g \in s.traces : g.id # e.id
  PROVE  /\ t.row.updatedAt >= s.row.updatedAt
         /\ t.traces = s.traces => t.row = s.row
<1>0. s.row.updatedAt \in Nat /\ e.at \in Nat
  BY DEF Store, Row, PostedEvent
<1>1. CASE t.row = s.row
  BY <1>0, <1>1
<1>2. CASE t.row # s.row
  <2>1. TakenIn(s, AsStored(e), t)
    BY <1>2, IngestOne, EventIngested
  <2>2. AsStored(e).id = e.id /\ AsStored(e).at = e.at
    BY NormalizedType
  <2> DEFINE f == AsStored(e)
             trace == [id |-> f.id, at |-> f.at, type |-> ToRuntimeEvent(f.type)]
  <2>3. /\ ~Late(s, f) /\ t.row = MirroredRow(s, f)
        /\ t.traces = Replaced(s.traces, trace)
    BY <1>2, <2>1 DEF TakenIn
  <2>4. t.row.updatedAt = e.at /\ e.at >= s.row.updatedAt
    BY <1>0, <2>2, <2>3 DEF MirroredRow, Late
  <2>5. trace \in t.traces /\ trace.id = e.id
    BY <2>2, <2>3 DEF Replaced
  <2> QED
    BY <2>4, <2>5
<1> QED
  BY <1>1, <1>2

------------------------------------------------------------------------------
(* Cards and what is made of them. *)

PrimaryOf(card, status, freshness) ==
  PrimaryStatus(card, Lifecycle(card, status, freshness))

LEMMA CardIs ==
  ASSUME NEW category, NEW reason
  PROVE  Card(category, reason).category = category /\ Card(category, reason).reason = reason
  BY DEF Card

LEMMA ItemIs ==
  ASSUME NEW card, NEW primary
  PROVE  /\ Item(card, primary).reason = card.reason
         /\ Item(card, primary).primary = primary
         /\ Item(card, primary).action <=> ActionRequired(primary)
         /\ Item(card, primary).board <=> card.category # "historical"
  BY DEF Item

LEMMA AsideIs ==
  /\ SetAside.reason = "parked" /\ SetAside.primary = "parked_idle"
  /\ ~SetAside.action /\ ~SetAside.board
  BY CardIs, ItemIs DEF SetAside, Gone, ActionRequired

LEMMA Primaries ==
  ASSUME NEW status, NEW freshness
  PROVE  /\ \A reason \in AgedOut :
              PrimaryOf(Gone(reason), status, freshness) = "parked_idle"
         /\ PrimaryOf(Card("needs_action", "awaiting_assignment"), status, freshness)
              = "awaiting_assignment"
         /\ PrimaryOf(Card("needs_action", "waiting_for_input"), status, freshness)
              = IF status = "awaiting_assignment" THEN "awaiting_assignment"
                ELSE "waiting_on_human_input"
         /\ \A reason \in {"awaiting_review", "unacknowledged_completion"} :
              PrimaryOf(Card("review", reason), status, freshness)
                = IF status = "awaiting_assignment" THEN "awaiting_assignment"
                  ELSE "waiting_for_review"
<1>1. \A reason \in AgedOut : PrimaryOf(Gone(reason), status, freshness) = "parked_idle"
  BY CardIs DEF PrimaryOf, PrimaryStatus, Lifecycle, Gone, AgedOut
<1>2. /\ PrimaryOf(Card("needs_action", "awaiting_assignment"), status, freshness)
           = "awaiting_assignment"
      /\ PrimaryOf(Card("needs_action", "waiting_for_input"), status, freshness)
           = IF status = "awaiting_assignment" THEN "awaiting_assignment"
             ELSE "waiting_on_human_input"
  BY CardIs DEF PrimaryOf, PrimaryStatus, Lifecycle, AgedOut
<1>3. \A reason \in {"awaiting_review", "unacknowledged_completion"} :
        PrimaryOf(Card("review", reason), status, freshness)
          = IF status = "awaiting_assignment" THEN "awaiting_assignment"
            ELSE "waiting_for_review"
  BY CardIs DEF PrimaryOf, PrimaryStatus, Lifecycle, AgedOut
<1> QED
  BY <1>1, <1>2, <1>3

LEMMA DegradedPrimary ==
  ASSUME NEW status \in Running \cup Degraded, NEW freshness
  PROVE  PrimaryOf(Card("degraded_active", "blocked_or_failed"), status, freshness)
           = "needs_intervention"
  BY CardIs DEF PrimaryOf, PrimaryStatus, Lifecycle, AgedOut, Running, Degraded, Review

(* The primary status of a card that says that the session runs.            *)
LEMMA LivePrimary ==
  ASSUME NEW status \in RuntimeStatus \ Historical, NEW freshness
  PROVE  PrimaryOf(Card("live", "runtime_active"), status, freshness) =
           CASE status = "awaiting_assignment" -> "awaiting_assignment"
             [] status = "waiting_for_input" -> "waiting_on_human_input"
             [] status \in Review -> "waiting_for_review"
             [] status \in Degraded -> "needs_intervention"
             [] status = "paused" -> "parked_idle"
             [] OTHER -> "running"
  BY CardIs DEF PrimaryOf, PrimaryStatus, Lifecycle, AgedOut, RuntimeStatus, Running,
     NeedsAction, Review, Historical, Degraded

(* A row's card at a time. *)
Shows(row, card, at) ==
  Shown(card, row.status, ~row.mirror, Freshness(LastHeartbeat(row), at), Alive(row, at),
        Newest({LastHeartbeat(row), LastActivity(row), LastSignal(row)}) # 0)
StaleRow(row, at) == IsStaleActionable(Alive(row, at), LastSignal(row), at)
HasSignal(row, at) ==
  \/ Newest({LastHeartbeat(row), LastActivity(row), LastSignal(row)}) # 0
  \/ Signal(Freshness(LastHeartbeat(row), at), Alive(row, at)) # "unknown"

LEMMA ShowsIs ==
  ASSUME NEW row, NEW card, NEW at, NEW primary,
         primary = PrimaryOf(card, row.status, Freshness(LastHeartbeat(row), at))
  PROVE  Shows(row, card, at) =
           IF \/ /\ card.category = "historical" /\ card.reason \in AgedOut
                 /\ ~ActionRequired(primary)
              \/ EarnsItsPlace(card, primary, ~row.mirror, HasSignal(row, at), row.status)
           THEN Item(card, primary) ELSE SetAside
  BY DEF Shows, Shown, PrimaryOf, HasSignal

(* A demand that has aged out; a demand; a mirror. *)
LEMMA AgedOutShows ==
  ASSUME NEW row, NEW reason \in AgedOut, NEW at
  PROVE  LET item == Shows(row, Gone(reason), at)
         IN ~item.board /\ ~item.action /\ item.reason = reason
<1>1. PrimaryOf(Gone(reason), row.status, Freshness(LastHeartbeat(row), at)) = "parked_idle"
  BY Primaries
<1>2. Shows(row, Gone(reason), at) = Item(Gone(reason), "parked_idle")
  BY <1>1, ShowsIs, CardIs DEF Gone, ActionRequired
<1> QED
  BY <1>2, ItemIs, CardIs DEF Gone, ActionRequired

LEMMA WaitingShows ==
  ASSUME NEW row, row.status # "awaiting_assignment", NEW at
  PROVE  LET item == Shows(row, Card("needs_action", "waiting_for_input"), at)
         IN item.board /\ item.action
<1> DEFINE card == Card("needs_action", "waiting_for_input")
<1>1. PrimaryOf(card, row.status, Freshness(LastHeartbeat(row), at)) = "waiting_on_human_input"
  BY Primaries
<1>2. Shows(row, card, at) = Item(card, "waiting_on_human_input")
  BY <1>1, ShowsIs, CardIs DEF EarnsItsPlace
<1> QED
  BY <1>2, ItemIs, CardIs DEF ActionRequired

LEMMA AssignmentShows ==
  ASSUME NEW row, NEW at, NEW card,
         \/ card = Card("needs_action", "awaiting_assignment")
         \/ card = Card("live", "runtime_active") /\ row.status = "awaiting_assignment"
  PROVE  LET item == Shows(row, card, at)
         IN IF row.mirror THEN item = SetAside ELSE item.board /\ item.action
<1>1. PrimaryOf(card, row.status, Freshness(LastHeartbeat(row), at)) = "awaiting_assignment"
  BY Primaries, CardIs DEF PrimaryOf, PrimaryStatus, Lifecycle, AgedOut
<1>2. Shows(row, card, at) =
        IF row.mirror THEN SetAside ELSE Item(card, "awaiting_assignment")
  BY <1>1, ShowsIs, CardIs DEF EarnsItsPlace
<1> QED
  BY <1>2, ItemIs, CardIs DEF ActionRequired

LEMMA ReviewShows ==
  ASSUME NEW row, row.status \in RuntimeStatus \ {"awaiting_assignment"}, NEW at, NEW card,
         \/ card \in {Card("review", "awaiting_review"),
                      Card("review", "unacknowledged_completion")}
         \/ card = Card("live", "runtime_active") /\ row.status \in Review
  PROVE  LET item == Shows(row, card, at)
         IN IF row.mirror THEN item = SetAside ELSE item.board /\ item.action
<1>1. PrimaryOf(card, row.status, Freshness(LastHeartbeat(row), at)) = "waiting_for_review"
  <2>1. CASE card = Card("live", "runtime_active") /\ row.status \in Review
    <3>1. row.status \in RuntimeStatus \ Historical
      BY <2>1 DEF Review, Historical
    <3> QED
      BY <2>1, <3>1, LivePrimary DEF Review, Degraded
  <2> QED
    BY <2>1, Primaries
<1>2. Shows(row, card, at) =
        IF row.mirror THEN SetAside ELSE Item(card, "waiting_for_review")
  BY <1>1, ShowsIs, CardIs DEF EarnsItsPlace
<1> QED
  BY <1>2, ItemIs, CardIs DEF ActionRequired

LEMMA DegradedShows ==
  ASSUME NEW row, NEW at, NEW card,
         \/ card = Card("degraded_active", "blocked_or_failed")
              /\ row.status \in Running \cup Degraded
         \/ card = Card("live", "runtime_active") /\ row.status \in Degraded
  PROVE  LET item == Shows(row, card, at)
         IN IF row.mirror THEN item = SetAside
            ELSE IF row.status \in Degraded \/ HasSignal(row, at) THEN item.board /\ item.action
            ELSE item = SetAside
<1>1. PrimaryOf(card, row.status, Freshness(LastHeartbeat(row), at)) = "needs_intervention"
  <2>1. CASE card = Card("live", "runtime_active") /\ row.status \in Degraded
    <3>1. row.status \in RuntimeStatus \ Historical
      BY <2>1 DEF Degraded, Historical, RuntimeStatus
    <3> QED
      BY <2>1, <3>1, LivePrimary DEF Review, Degraded
  <2> QED
    BY <2>1, DegradedPrimary
<1>2. Shows(row, card, at) =
        IF row.mirror \/ ~(row.status \in Degraded \/ HasSignal(row, at))
        THEN SetAside ELSE Item(card, "needs_intervention")
  BY <1>1, ShowsIs, CardIs DEF EarnsItsPlace, ActionRequired
<1> QED
  BY <1>2, ItemIs, CardIs DEF ActionRequired

(* A card that asks for nothing. *)
LEMMA RunningShows ==
  ASSUME NEW row, row.status \in Running, NEW at,
         NEW card \in {Gone("parked"), Gone("stale_legacy_only"), Card("live", "runtime_active"),
                       Card("degraded_active", "missing_runtime_signal"),
                       Card("degraded_active", "stale_runtime")}
  PROVE  LET item == Shows(row, card, at)
         IN /\ ~item.action
            /\ item.board => item.primary = "running"
            /\ row.mirror \/ card.category = "historical" => item = SetAside
<1> DEFINE freshness == Freshness(LastHeartbeat(row), at)
           primary == PrimaryOf(card, row.status, freshness)
<1>1. /\ primary \in {"running", "parked_idle", "done_historical", "unknown"}
      /\ card.category = "historical" => primary # "running" /\ card.reason \notin AgedOut
      /\ card.category # "needs_action"
  <2> HIDE DEF freshness
  <2> QED
    BY CardIs DEF PrimaryOf, PrimaryStatus, Lifecycle, Gone, AgedOut, Running, Review, Degraded
<1>2. Shows(row, card, at) =
        IF ~row.mirror /\ primary = "running" THEN Item(card, primary) ELSE SetAside
  <2> HIDE DEF freshness
  <2>1. primary = PrimaryOf(card, row.status, Freshness(LastHeartbeat(row), at))
    BY DEF freshness
  <2> HIDE DEF primary
  <2>2. ~(card.category = "historical" /\ card.reason \in AgedOut)
    BY <1>1
  <2>3. EarnsItsPlace(card, primary, ~row.mirror, HasSignal(row, at), row.status)
          <=> ~row.mirror /\ primary = "running"
    BY <1>1 DEF EarnsItsPlace
  <2> QED
    BY <2>1, <2>2, <2>3, ShowsIs
<1> HIDE DEF primary
<1> QED
  BY <1>1, <1>2, ItemIs, AsideIs DEF ActionRequired

------------------------------------------------------------------------------
(* The traces behind a hint, and what a hint with a demand in it leads to.  *)
LEMMA FailuresAreActivity ==
  /\ \A type \in Failures : Significance(type) = "meaningful_activity"
  /\ \A type \in InputRequests \ {"approval.requested"} :
       Significance(type) = "meaningful_activity"
  BY DEF Failures, InputRequests, Significance, MeaningfulEvents, ContextEvents,
         ReviewStateEvents

LEMMA TimesAreDated ==
  ASSUME NEW n \in Nat, NEW p \in Nat, NEW s, Dated(s, n, p), s.row # NoRow, NEW significance
  PROVE  /\ TimesOf(RowOf(s), significance) \in SUBSET (0..n)
         /\ {s.processAt, s.row.updatedAt, s.row.completedAt} \subseteq 0..n
<1>1. \A e \in s.traces : e.at \in 1..n
  BY DEF Dated
<1>2. RowOf(s).events = s.traces
  BY DEF RowOf
<1> QED
  BY <1>1, <1>2 DEF Dated, TimesOf

LEMMA HeardIs ==
  ASSUME NEW n \in Nat, NEW p \in Nat, NEW s, Dated(s, n, p), s.row # NoRow
  PROVE  LET row == RowOf(s)
         IN /\ LastHeartbeat(row) \in 0..n /\ LastActivity(row) \in 0..n
            /\ LastSignal(row) \in 0..n
            /\ LastHeartbeat(row) <= Newest({LastHeartbeat(row), LastActivity(row), LastSignal(row)})
            /\ LastActivity(row) <= Newest({LastHeartbeat(row), LastActivity(row), LastSignal(row)})
<1> DEFINE row == RowOf(s)
<1>1. n \in Nat /\ row.completedAt \in 0..n /\ row.updatedAt \in 0..n
  BY TimesAreDated DEF RowOf
<1>2. LastHeartbeat(row) \in 0..n /\ LastActivity(row) \in 0..n
  BY TimesAreDated, NewestIs DEF LastHeartbeat, LastActivity
<1>3. LastSignal(row) \in 0..n
  <2>1. {LastHeartbeat(row), LastActivity(row), row.completedAt} \in SUBSET (0..n)
    BY <1>1, <1>2
  <2>2. Newest({LastHeartbeat(row), LastActivity(row), row.completedAt}) \in 0..n
    BY <1>1, <2>1, NewestIs
  <2> QED
    BY <1>1, <2>2 DEF LastSignal
<1> HIDE DEF row
<1>4. {LastHeartbeat(row), LastActivity(row), LastSignal(row)} \in SUBSET (0..n)
  BY <1>2, <1>3
<1>5. \A t \in {LastHeartbeat(row), LastActivity(row), LastSignal(row)} :
        t <= Newest({LastHeartbeat(row), LastActivity(row), LastSignal(row)})
  BY <1>1, <1>4, NewestIs
<1> QED
  BY <1>2, <1>3, <1>5 DEF row

------------------------------------------------------------------------------
(* A row as time passes. *)

(* No time of the row is later than n. *)
Past(row, n) ==
  {LastHeartbeat(row), LastActivity(row), LastSignal(row), row.processAt} \subseteq 0..n

LEMMA OlderLater ==
  ASSUME NEW n \in Nat, NEW at \in 0..n, NEW window \in Nat, Older(at, n, window)
  PROVE  Older(at, n + 1, window)
  BY DEF Older, Age

LEMMA AliveLater ==
  ASSUME NEW n \in Nat, NEW row, Past(row, n)
  PROVE  /\ Alive(row, n + 1) = "yes" => Alive(row, n) = "yes"
         /\ Alive(row, n + 1) = "unknown" <=> Alive(row, n) = "unknown"
         /\ Alive(row, n) = "unknown" => LastHeartbeat(row) = 0
<1> DEFINE at == Newest({LastHeartbeat(row), row.processAt})
<1>1. {LastHeartbeat(row), row.processAt} \in SUBSET (0..n) /\ LastHeartbeat(row) \in 0..n
  BY DEF Past
<1>2. at \in 0..n /\ LastHeartbeat(row) <= at
  BY <1>1, NewestIs
<1>3. \A m : Alive(row, m) = IF at = 0 THEN "unknown" ELSE IF Age(at, m) <= ColdMs THEN "yes" ELSE "no"
  BY DEF Alive
<1> HIDE DEF at
<1>4. ColdMs \in Nat
  BY Windows
<1>5. Age(at, n) <= ColdMs \/ ~(Age(at, n + 1) <= ColdMs)
  BY <1>2, <1>4 DEF Age
<1> QED
  BY <1>1, <1>2, <1>3, <1>5

LEMMA SignalLater ==
  ASSUME NEW n \in Nat, NEW row, Past(row, n)
  PROVE  /\ Freshness(LastHeartbeat(row), n) = "unknown" <=>
              Freshness(LastHeartbeat(row), n + 1) = "unknown"
         /\ HasSignal(row, n) <=> HasSignal(row, n + 1)
         /\ StaleRow(row, n) => StaleRow(row, n + 1)
<1>1. \A m : Freshness(LastHeartbeat(row), m) = "unknown" <=> LastHeartbeat(row) = 0
  BY DEF Freshness
<1>2. \A m : Alive(row, m) \in {"unknown", "yes", "no"}
  BY DEF Alive
<1>3. \A m \in {n, n + 1} : Signal(Freshness(LastHeartbeat(row), m), Alive(row, m)) # "unknown"
                            <=> Alive(row, m) # "unknown"
  BY <1>1, <1>2, AliveLater DEF Signal
<1>4. HasSignal(row, n) <=> HasSignal(row, n + 1)
  BY <1>3, AliveLater DEF HasSignal
<1>5. StaleRow(row, n) => StaleRow(row, n + 1)
  <2>1. LastSignal(row) \in 0..n /\ ActionableStaleMs \in Nat
    BY Windows DEF Past
  <2> QED
    BY <2>1, OlderLater, AliveLater DEF StaleRow, IsStaleActionable
<1> QED
  BY <1>1, <1>4, <1>5

(* The same card, later. *)
LEMMA SameCardLater ==
  ASSUME NEW n \in Nat, NEW row, Past(row, n), NEW card
  PROVE  Shows(row, card, n) = Shows(row, card, n + 1)
<1> DEFINE f == Freshness(LastHeartbeat(row), n)
           g == Freshness(LastHeartbeat(row), n + 1)
<1>1. (f = "unknown") <=> (g = "unknown")
  BY SignalLater
<1>2. PrimaryOf(card, row.status, f) = PrimaryOf(card, row.status, g)
  <2> HIDE DEF f, g
  <2>1. Lifecycle(card, row.status, f) = Lifecycle(card, row.status, g)
    BY <1>1 DEF Lifecycle
  <2> QED
    BY <2>1 DEF PrimaryOf
<1>3. HasSignal(row, n) <=> HasSignal(row, n + 1)
  BY SignalLater
<1>4. EarnsItsPlace(card, PrimaryOf(card, row.status, f), ~row.mirror, HasSignal(row, n), row.status)
      <=> EarnsItsPlace(card, PrimaryOf(card, row.status, f), ~row.mirror, HasSignal(row, n + 1), row.status)
  BY <1>3 DEF EarnsItsPlace
<1> QED
  BY <1>2, <1>4, ShowsIs

(* What time may do to a card: a is the card and b the card one step later. *)
Fades(row, n, a, b) ==
  /\ b.action => a.action
  /\ b.board => a.board \/ b.primary = "running"
  /\ a.board /\ a.action /\ ~b.board =>
       \/ b.reason = "stale_review" /\ Older(LastSignal(row), n + 1, ReviewStaleMs)
       \/ b.reason \in AgedOut \ {"stale_review"} /\ StaleRow(row, n + 1)

LEMMA CardFades ==
  ASSUME NEW n \in Nat, NEW row, Past(row, n), NEW old, NEW new,
         \/ new = old
         \/ new = Gone("stale_review") /\ Older(LastSignal(row), n + 1, ReviewStaleMs)
         \/ new \in {Gone("stale_needs_action"), Gone("stale_degraded")} /\ StaleRow(row, n + 1)
  PROVE  Fades(row, n, Shows(row, old, n), Shows(row, new, n + 1))
<1>1. CASE new = old
  <2>1. Shows(row, old, n) = Shows(row, new, n + 1)
    BY <1>1, SameCardLater
  <2> QED
    BY <2>1 DEF Fades
<1>2. CASE new = Gone("stale_review") /\ Older(LastSignal(row), n + 1, ReviewStaleMs)
  <2>1. LET b == Shows(row, new, n + 1)
        IN ~b.board /\ ~b.action /\ b.reason = "stale_review"
    BY <1>2, AgedOutShows DEF AgedOut
  <2> QED
    BY <1>2, <2>1 DEF Fades
<1>3. ASSUME NEW reason \in {"stale_needs_action", "stale_degraded"},
             new = Gone(reason), StaleRow(row, n + 1)
      PROVE  Fades(row, n, Shows(row, old, n), Shows(row, new, n + 1))
  <2>1. LET b == Shows(row, new, n + 1) IN ~b.board /\ ~b.action /\ b.reason = reason
    BY <1>3, AgedOutShows DEF AgedOut
  <2> QED
    BY <1>3, <2>1 DEF Fades, AgedOut
<1> QED
  BY <1>1, <1>2, <1>3

(* The row's status decides. *)
LEMMA ReviewLater ==
  ASSUME NEW n \in Nat, NEW row, Past(row, n), NEW reason
  PROVE  LET old == ReviewCard(reason, LastSignal(row), n)
             new == ReviewCard(reason, LastSignal(row), n + 1)
         IN \/ new = old
            \/ new = Gone("stale_review") /\ Older(LastSignal(row), n + 1, ReviewStaleMs)
<1>1. LastSignal(row) \in 0..n /\ ReviewStaleMs \in Nat
  BY Windows DEF Past
<1> QED
  BY <1>1, OlderLater DEF ReviewCard, IsStaleReview

LEMMA RunningCards ==
  ASSUME NEW row, NEW at
  PROVE  ProjectRunning(row, at) \in
           {Gone("parked"), Gone("stale_legacy_only"), Card("live", "runtime_active"),
            Card("degraded_active", "missing_runtime_signal"),
            Card("degraded_active", "stale_runtime")}
  BY DEF ProjectRunning, ProjectMirror

LEMMA StatusLater ==
  ASSUME NEW n \in Nat, NEW row, Past(row, n), row.status \in RuntimeStatus,
         row.completedAt \in Nat
  PROVE  Fades(row, n, Shows(row, ProjectByStatus(row, n), n),
                       Shows(row, ProjectByStatus(row, n + 1), n + 1))
<1> DEFINE old == ProjectByStatus(row, n)
           new == ProjectByStatus(row, n + 1)
<1> USE DEF Running, NeedsAction, Review, Historical, Degraded
<1>1. CASE row.status \in Running /\ row.completedAt # 0
  <2>1. \A m : ProjectByStatus(row, m) = Card("unknown", "contradictory_telemetry")
    BY <1>1 DEF ProjectByStatus
  <2> QED
    BY <2>1, CardFades
<1>2. CASE row.status \in Historical \cup {"paused"}
  <2>1. \A m : ProjectByStatus(row, m) = ProjectEnded(row, m)
    BY <1>2 DEF ProjectByStatus
  <2>2. \/ new = old
        \/ new = Gone("stale_review") /\ Older(LastSignal(row), n + 1, ReviewStaleMs)
    BY <2>1, ReviewLater DEF ProjectEnded
  <2> QED
    BY <2>2, CardFades
<1>3. CASE row.status \in NeedsAction
  <2>1. \A m : ProjectByStatus(row, m) = ProjectWaiting(row, m)
    BY <1>3 DEF ProjectByStatus
  <2>2. new = old \/ (new = Gone("stale_needs_action") /\ StaleRow(row, n + 1))
    BY <2>1, SignalLater DEF ProjectWaiting, StaleRow
  <2> QED
    BY <2>2, CardFades
<1>4. CASE row.status \in Review
  <2>1. \A m : ProjectByStatus(row, m) = ReviewCard("awaiting_review", LastSignal(row), m)
    BY <1>4 DEF ProjectByStatus
  <2> QED
    BY <2>1, ReviewLater, CardFades
<1>5. CASE row.status \in Degraded
  <2>1. \A m : ProjectByStatus(row, m) = ProjectDegraded(row, m)
    BY <1>5 DEF ProjectByStatus
  <2>2. new = old \/ (new = Gone("stale_degraded") /\ StaleRow(row, n + 1))
    BY <2>1, SignalLater DEF ProjectDegraded, StaleRow
  <2> QED
    BY <2>2, CardFades
<1>6. CASE row.status \in Running /\ row.completedAt = 0
  <2>1. \A m : ProjectByStatus(row, m) = ProjectRunning(row, m)
    BY <1>6 DEF ProjectByStatus
  <2>2. /\ ~Shows(row, old, n).action
        /\ Shows(row, new, n + 1).board => Shows(row, new, n + 1).primary = "running"
        /\ ~Shows(row, new, n + 1).action
    <3> HIDE DEF Running
    <3> QED
      BY <1>6, <2>1, RunningCards, RunningShows
  <2> QED
    BY <2>2 DEF Fades
<1>7. CASE row.status = "unknown"
  <2>1. \A m : ProjectByStatus(row, m) = Card("unknown", "insufficient_evidence")
    BY <1>7 DEF ProjectByStatus
  <2> QED
    BY <2>1, CardFades
<1> QED
  BY <1>1, <1>2, <1>3, <1>4, <1>5, <1>6, <1>7 DEF RuntimeStatus

(* The hint decides, and it stays what it is. *)
LEMMA HintedLater ==
  ASSUME NEW n \in Nat, NEW row, Past(row, n), row.status \in RuntimeStatus,
         row.completedAt \in Nat, NEW hint \in Hints
  PROVE  Fades(row, n, RuntimeItem(row, hint, n), RuntimeItem(row, hint, n + 1))
<1> DEFINE old == ProjectRuntime(row, hint, n)
           new == ProjectRuntime(row, hint, n + 1)
<1>1. \A m : RuntimeItem(row, hint, m) = Shows(row, ProjectRuntime(row, hint, m), m)
  BY DEF RuntimeItem, Shows
<1>2. CASE row.child \/ (hint = "running" /\ row.status \notin Historical)
  <2>1. new = old
    BY <1>2 DEF ProjectRuntime
  <2> QED
    BY <1>1, <2>1, CardFades
<1>3. CASE ~row.child /\ hint \in {"needs_input", "awaiting_assignment", "blocked", "at_risk"}
            /\ StaleRow(row, n + 1)
  <2>1. new \in {Gone("stale_needs_action"), Gone("stale_degraded")}
    BY <1>3 DEF ProjectRuntime, StaleRow
  <2> QED
    BY <1>1, <1>3, <2>1, CardFades
<1>4. CASE /\ ~row.child /\ ~(hint = "running" /\ row.status \notin Historical)
           /\ ~(hint \in {"needs_input", "awaiting_assignment", "blocked", "at_risk"}
                /\ StaleRow(row, n + 1))
  <2>1. \A m \in {n, n + 1} :
          ProjectRuntime(row, hint, m) =
            IF row.status \in Running /\ hint \notin {"running", "none"}
            THEN ProjectHinted(row, hint, m) ELSE ProjectByStatus(row, m)
    BY <1>4, SignalLater DEF ProjectRuntime, StaleRow
  <2>2. CASE ~(row.status \in Running /\ hint \notin {"running", "none"})
    BY <1>1, <2>1, <2>2, StatusLater
  <2>3. CASE row.status \in Running /\ hint \notin {"running", "none"}
    <3>1. old = ProjectHinted(row, hint, n) /\ new = ProjectHinted(row, hint, n + 1)
      BY <2>1, <2>3
    <3>2. \/ new = old
          \/ new = Gone("stale_review") /\ Older(LastSignal(row), n + 1, ReviewStaleMs)
      <4> HIDE DEF old, new
      <4> QED
        BY <2>3, <3>1, ReviewLater DEF ProjectHinted, Hints
    <3> HIDE DEF old, new
    <3>3. Fades(row, n, Shows(row, old, n), Shows(row, new, n + 1))
      BY <3>2, CardFades
    <3> QED
      BY <1>1, <3>3 DEF old, new
  <2> QED
    BY <2>2, <2>3
<1> QED
  BY <1>2, <1>3, <1>4

(* The hint that the session runs lapses.  What its row says comes to       *)
(* light, and only the wait for an operator had not been there to see.      *)
LEMMA HintLapses ==
  ASSUME NEW n \in Nat, NEW row, Past(row, n), row.status \in RuntimeStatus,
         row.completedAt \in Nat, row.mirror \in BOOLEAN
  PROVE  LET a == RuntimeItem(row, "running", n)
             b == RuntimeItem(row, "parked", n + 1)
         IN IF row.status = "waiting_for_input" THEN ~a.board ELSE Fades(row, n, a, b)
<1> DEFINE live == Card("live", "runtime_active")
           old == ProjectRuntime(row, "running", n)
           new == ProjectRuntime(row, "parked", n + 1)
           a == Shows(row, old, n)
           b == Shows(row, new, n + 1)
<1>1. RuntimeItem(row, "running", n) = a /\ RuntimeItem(row, "parked", n + 1) = b
  BY DEF RuntimeItem, Shows
<1> SUFFICES IF row.status = "waiting_for_input" THEN ~a.board ELSE Fades(row, n, a, b)
  BY <1>1
<1>2. CASE row.child
  <2>1. old = Gone("parked") /\ new = Gone("parked")
    BY <1>2 DEF ProjectRuntime
  <2>2. ~Shows(row, Gone("parked"), n).board
    <3>1. Shows(row, Gone("parked"), n) = SetAside
          \/ \E primary : Shows(row, Gone("parked"), n) = Item(Gone("parked"), primary)
      BY ShowsIs
    <3> QED
      BY <3>1, AsideIs, ItemIs, CardIs DEF Gone
  <2> QED
    BY <2>1, <2>2, CardFades
<1>3. CASE ~row.child /\ row.status \in Historical
  <2>1. old = ProjectByStatus(row, n) /\ new = ProjectByStatus(row, n + 1)
    BY <1>3 DEF ProjectRuntime, Historical, Running
  <2>2. row.status # "waiting_for_input"
    BY <1>3 DEF Historical
  <2> QED
    BY <2>1, <2>2, StatusLater
<1>4. CASE ~row.child /\ row.status \notin Historical
  <2>1. old = live
    BY <1>4 DEF ProjectRuntime
  <2>2. new = IF row.status \in Running THEN Gone("parked") ELSE ProjectByStatus(row, n + 1)
    BY <1>4 DEF ProjectRuntime, ProjectHinted
  <2> HIDE DEF old, new
  <2>3. CASE row.status \in Running
    <3>1. ~a.action /\ ~b.action /\ (b.board => b.primary = "running")
      BY <2>1, <2>2, <2>3, RunningShows
    <3>2. row.status # "waiting_for_input"
      BY <2>3 DEF Running
    <3> QED
      BY <3>1, <3>2 DEF Fades
  <2>4. CASE row.status = "waiting_for_input"
    <3>1. PrimaryOf(live, row.status, Freshness(LastHeartbeat(row), n)) = "waiting_on_human_input"
      BY <1>4, <2>4, LivePrimary DEF Review, Degraded
    <3>2. a = SetAside
      BY <2>1, <3>1, ShowsIs, CardIs DEF EarnsItsPlace
    <3> QED
      BY <2>4, <3>2, AsideIs
  <2>5. CASE row.status = "awaiting_assignment"
    <3>1. new \in {Gone("stale_needs_action"), Card("needs_action", "awaiting_assignment")}
          /\ (new = Gone("stale_needs_action") => StaleRow(row, n + 1))
      <4>1. new = ProjectWaiting(row, n + 1)
        BY <2>2, <2>5 DEF ProjectByStatus, Running, Historical, NeedsAction, Review, Degraded
      <4> QED
        BY <2>5, <4>1, CardIs DEF ProjectWaiting, StaleRow, Gone
    <3>2. IF row.mirror THEN a = SetAside ELSE a.board /\ a.action
      BY <2>1, <2>5, AssignmentShows
    <3>3. CASE new = Gone("stale_needs_action")
      BY <2>5, <3>1, <3>3, CardFades
    <3>4. CASE new = Card("needs_action", "awaiting_assignment")
      <4>1. IF row.mirror THEN b = SetAside ELSE b.board /\ b.action
        BY <3>4, AssignmentShows
      <4> QED
        BY <2>5, <3>2, <4>1, AsideIs DEF Fades
    <3> QED
      BY <3>1, <3>3, <3>4
  <2>6. CASE row.status \in Review
    <3>1. \/ new = Gone("stale_review") /\ Older(LastSignal(row), n + 1, ReviewStaleMs)
          \/ new = Card("review", "awaiting_review")
      <4>1. new = ReviewCard("awaiting_review", LastSignal(row), n + 1)
        BY <2>2, <2>6 DEF ProjectByStatus, Running, Historical, NeedsAction, Review, Degraded
      <4> QED
        BY <4>1 DEF ReviewCard, IsStaleReview
    <3>2. row.status \notin {"awaiting_assignment", "waiting_for_input"}
      BY <2>6 DEF Review
    <3>3. IF row.mirror THEN a = SetAside ELSE a.board /\ a.action
      BY <2>1, <2>6, <3>2, ReviewShows
    <3>4. CASE new = Gone("stale_review") /\ Older(LastSignal(row), n + 1, ReviewStaleMs)
      BY <3>2, <3>4, CardFades
    <3>5. CASE new = Card("review", "awaiting_review")
      <4>1. IF row.mirror THEN b = SetAside ELSE b.board /\ b.action
        BY <3>2, <3>5, ReviewShows
      <4> QED
        BY <3>2, <3>3, <4>1, AsideIs DEF Fades
    <3> QED
      BY <3>1, <3>4, <3>5
  <2>7. CASE row.status \in Degraded
    <3>1. \/ new = Gone("stale_degraded") /\ StaleRow(row, n + 1)
          \/ new = Card("degraded_active", "blocked_or_failed")
      <4>1. new = ProjectDegraded(row, n + 1)
        BY <2>2, <2>7 DEF ProjectByStatus, Running, Historical, NeedsAction, Review, Degraded
      <4> QED
        BY <4>1 DEF ProjectDegraded, StaleRow
    <3>2. row.status # "waiting_for_input"
      BY <2>7 DEF Degraded
    <3>3. IF row.mirror THEN a = SetAside ELSE a.board /\ a.action
      BY <2>1, <2>7, DegradedShows
    <3>4. CASE new = Gone("stale_degraded") /\ StaleRow(row, n + 1)
      BY <3>2, <3>4, CardFades
    <3>5. CASE new = Card("degraded_active", "blocked_or_failed")
      <4>1. IF row.mirror THEN b = SetAside ELSE b.board /\ b.action
        BY <2>7, <3>5, DegradedShows
      <4> QED
        BY <3>2, <3>3, <4>1, AsideIs DEF Fades
    <3> QED
      BY <3>1, <3>4, <3>5
  <2>8. CASE row.status \in {"paused", "unknown"}
    <3>1. new \in {Gone("parked"), Card("unknown", "insufficient_evidence")}
      BY <2>2, <2>8 DEF ProjectByStatus, ProjectEnded, Running, Historical, NeedsAction,
         Review, Degraded
    <3>2. PrimaryOf(new, row.status, Freshness(LastHeartbeat(row), n + 1))
            \in {"parked_idle", "unknown"}
      BY <2>8, <3>1, CardIs DEF PrimaryOf, PrimaryStatus, Lifecycle, Gone, AgedOut, Review,
         Degraded
    <3>3. b = SetAside
      BY <3>1, <3>2, ShowsIs, CardIs DEF EarnsItsPlace, Gone, AgedOut
    <3>4. PrimaryOf(live, row.status, Freshness(LastHeartbeat(row), n))
            \in {"parked_idle", "running"}
      BY <1>4, <2>8, LivePrimary DEF Review, Degraded
    <3>5. ~a.action
      BY <2>1, <3>4, ShowsIs, AsideIs, ItemIs DEF ActionRequired
    <3> QED
      BY <2>8, <3>3, <3>5, AsideIs DEF Fades
  <2>9. \/ row.status \in Running \cup Review \cup Degraded
        \/ row.status \in {"waiting_for_input", "awaiting_assignment", "paused", "unknown"}
    BY <1>4 DEF RuntimeStatus, NeedsAction
  <2> HIDE DEF a, b
  <2> QED
    BY <2>3, <2>4, <2>5, <2>6, <2>7, <2>8, <2>9
<1> QED
  BY <1>2, <1>3, <1>4

------------------------------------------------------------------------------
(* The hint over time. *)

LEMMA StatusHintType ==
  ASSUME NEW events
  PROVE  StatusHint(events) \in Hints
  BY DEF StatusHint, Hints

LEMMA DerivedLater ==
  ASSUME NEW n \in Nat, NEW p \in Nat, NEW s, Dated(s, n, p),
         \A e, f \in s.events : e.id = f.id => e = f,
         NEW session, session.startedAt \in Nat
  PROVE  LET a == DeriveStatus(session, s.events, FALSE, n)
             b == DeriveStatus(session, s.events, FALSE, n + 1)
         IN /\ a \in SessionStatus
            /\ b = a \/ (a = "running" /\ b = "parked")
<1> DEFINE events == s.events
           last(found) == CHOOSE e \in found : IsLast(e, found)
           activity == IF Operational(events) # {} THEN last(Operational(events)).at
                       ELSE IF events # {} THEN last(events).at ELSE session.startedAt
<1>1. /\ n \in Nat /\ p \in Nat /\ RecentActivityMs \in Nat
      /\ \A e \in events : e.id \in 0..p /\ e.at \in 1..n
      /\ \A e, f \in events : e.id = f.id => e = f
  BY RecentActivityOK DEF Dated
<1>2. ASSUME NEW found \in SUBSET events, found # {}
      PROVE  last(found).at \in Nat
  <2>1. \A e \in found : e.at \in 0..(n + p) /\ e.id \in 0..(n + p)
    BY <1>1
  <2>2. \E e \in found : IsLast(e, found)
    <3>1. n + p \in Nat /\ \A e, f \in found : e.id = f.id => e = f
      BY <1>1
    <3> HIDE DEF events
    <3> QED
      BY <1>2, <2>1, <3>1, LastExists
  <2>3. last(found) \in found
    BY <2>2
  <2> QED
    BY <1>1, <2>3
<1>3. activity \in Nat
  <2>1. Operational(events) \in SUBSET events
    BY DEF Operational
  <2> HIDE DEF last, events
  <2> QED
    BY <1>2, <2>1
<1>4. \A m : WentQuiet(events, session.startedAt, m) <=>
               \/ \E e \in events : IsLast(e, events) /\ e.type = "session.ended"
               \/ m - activity > RecentActivityMs
  BY DEF WentQuiet
<1> HIDE DEF activity, events
<1>5. WentQuiet(events, session.startedAt, n) => WentQuiet(events, session.startedAt, n + 1)
  <2>1. n - activity > RecentActivityMs => (n + 1) - activity > RecentActivityMs
    BY <1>1, <1>3
  <2> QED
    BY <1>4, <2>1
<1>6. LET a == DeriveStatus(session, events, FALSE, n)
          b == DeriveStatus(session, events, FALSE, n + 1)
      IN /\ a \in SessionStatus
         /\ b = a \/ (a = "running" /\ b = "parked")
  BY <1>5 DEF DeriveStatus, SessionStatus
<1> QED
  BY <1>6 DEF events

LEMMA HintLater ==
  ASSUME NEW n \in Nat, NEW p \in Nat, NEW s, Dated(s, n, p),
         \A e, f \in s.events : e.id = f.id => e = f
  PROVE  /\ Hint(s, n) \in Hints
         /\ \/ Hint(s, n + 1) = Hint(s, n)
            \/ Hint(s, n) = "running" /\ Hint(s, n + 1) = "parked"
<1> DEFINE session == [startedAt |-> s.session.startedAt, system |-> FALSE]
           a == DeriveStatus(session, s.events, FALSE, n)
           b == DeriveStatus(session, s.events, FALSE, n + 1)
<1>1. a \in SessionStatus /\ (b = a \/ (a = "running" /\ b = "parked"))
  <2>1. session.startedAt \in Nat
    BY DEF Dated, Store
  <2> HIDE DEF session
  <2> QED
    BY <2>1, DerivedLater
<1>2. \A m : Hint(s, m) =
        IF StatusHint(s.traces) # "none" \/ ~Overrides(s.events)
        THEN StatusHint(s.traces)
        ELSE IF DeriveStatus(session, s.events, FALSE, m) = "queued" THEN "none"
        ELSE DeriveStatus(session, s.events, FALSE, m)
  BY DEF Hint, CanonicalHint
<1> HIDE DEF session
<1> QED
  BY <1>1, <1>2, StatusHintType DEF Hints, SessionStatus

(* A wait for the operator that is hidden by a hint. *)
HiddenWait(s, n) ==
  s.row # NoRow /\ s.row.status = "waiting_for_input" /\ Hint(s, n) = "running"

LEMMA RowLater ==
  ASSUME NEW n \in Nat, NEW p \in Nat, NEW s, Dated(s, n, p), s.row # NoRow,
         \A e, f \in s.events : e.id = f.id => e = f
  PROVE  LET row == RowOf(s)
             a == Board(s, n)
             b == Board(s, n + 1)
         IN Fades(row, n, a, b) \/ (HiddenWait(s, n) /\ ~a.board)
<1> DEFINE row == RowOf(s)
<1>1. /\ n \in Nat /\ Past(row, n) /\ row.status \in RuntimeStatus
      /\ row.completedAt \in Nat /\ row.mirror \in BOOLEAN
      /\ row.status = s.row.status
  <2>1. row.processAt \in 0..n /\ n \in Nat
    BY TimesAreDated DEF RowOf
  <2>2. Past(row, n)
    BY <2>1, HeardIs DEF Past
  <2>3. s.row \in Row
    BY DEF Dated, Store
  <2> QED
    BY <2>1, <2>2, <2>3 DEF RowOf, Row, Owner
<1>2. \A m : Board(s, m) = RuntimeItem(row, Hint(s, m), m)
  BY DEF Board
<1> HIDE DEF row
<1>3. CASE Hint(s, n + 1) = Hint(s, n)
  BY <1>1, <1>2, <1>3, HintLater, HintedLater DEF row
<1>4. CASE Hint(s, n) = "running" /\ Hint(s, n + 1) = "parked"
  BY <1>1, <1>2, <1>4, HintLapses DEF row, HiddenWait
<1> QED
  BY <1>3, <1>4, HintLater

LEMMA LegacyLater ==
  ASSUME NEW n \in Nat, NEW p \in Nat, NEW s, Dated(s, n, p), s.row = NoRow
  PROVE  LET a == Board(s, n)
             b == Board(s, n + 1)
         IN /\ b.action => a.action
            /\ b.board => a.board
            /\ a.board /\ a.action /\ ~b.board =>
                 /\ b.reason = "stale_needs_action"
                 /\ Older(s.session.lastEventAt, n + 1, ActionableStaleMs)
<1> DEFINE legacy == [endedAt |-> s.session.endedAt, events |-> s.events,
                      lastEventAt |-> s.session.lastEventAt]
           signal == Newest({legacy.endedAt, legacy.lastEventAt})
           stale(m) == IsStaleActionable("unknown", signal, m)
           Waits == LegacyStatus(legacy, n) = "waiting_for_input"
<1>1. n \in Nat /\ {legacy.endedAt, legacy.lastEventAt} \in SUBSET (0..n)
      /\ ActionableStaleMs \in Nat
  BY Windows DEF Dated
<1>2. Waits <=> LegacyStatus(legacy, n + 1) = "waiting_for_input"
  BY DEF LegacyStatus
<1>3. Waits => legacy.endedAt = 0
  BY DEF LegacyStatus
<1>4. \A m : Board(s, m) =
        Shown(ProjectLegacy(legacy, m), "missing", FALSE, Freshness(signal, m), "unknown",
              signal # 0)
  BY DEF Board, LegacyItem
<1>5. Waits => signal = legacy.lastEventAt
  <2>1. signal \in {legacy.endedAt, legacy.lastEventAt, 0} /\ legacy.lastEventAt <= signal
    BY <1>1, NewestIs
  <2> HIDE DEF legacy, signal
  <2> QED
    BY <1>1, <1>3, <2>1
<1>6. stale(n) => stale(n + 1)
  <2>1. signal \in 0..n
    BY <1>1, NewestIs
  <2> HIDE DEF signal
  <2> QED
    BY <1>1, <2>1, OlderLater DEF IsStaleActionable
<1> HIDE DEF legacy
<1>7. ASSUME NEW m, LegacyStatus(legacy, m) # "waiting_for_input"
      PROVE  Board(s, m) = SetAside
  <2>1. ProjectLegacy(legacy, m) \in
          {Gone("terminated"), Gone("stale_legacy_only"),
           Card("unknown", "legacy_active_without_runtime")}
    BY <1>7 DEF ProjectLegacy
  <2> QED
    BY <1>4, <2>1, CardIs DEF Shown, EarnsItsPlace, Gone, AgedOut
<1>8. ASSUME NEW m, LegacyStatus(legacy, m) = "waiting_for_input"
      PROVE  IF stale(m) THEN Board(s, m) = Item(Gone("stale_needs_action"), "parked_idle")
             ELSE Board(s, m) = Item(Card("needs_action", "waiting_for_input"),
                                         "waiting_on_human_input")
  <2>1. ProjectLegacy(legacy, m) = IF stale(m) THEN Gone("stale_needs_action")
                                   ELSE Card("needs_action", "waiting_for_input")
    BY <1>8 DEF ProjectLegacy
  <2> HIDE DEF stale, signal
  <2> QED
    BY <1>4, <2>1, CardIs, Primaries DEF Shown, EarnsItsPlace, Gone, AgedOut, PrimaryOf,
       ActionRequired
<1>9. CASE ~Waits
  BY <1>2, <1>7, <1>9, AsideIs
<1>10. CASE Waits
  <2>1. stale(n + 1) => Older(legacy.lastEventAt, n + 1, ActionableStaleMs)
    BY <1>5, <1>10 DEF IsStaleActionable
  <2> HIDE DEF stale, signal
  <2>2. IF stale(n) THEN Board(s, n) = Item(Gone("stale_needs_action"), "parked_idle")
        ELSE Board(s, n) = Item(Card("needs_action", "waiting_for_input"),
                                      "waiting_on_human_input")
    BY <1>8, <1>10
  <2>3. IF stale(n + 1)
        THEN Board(s, n + 1) = Item(Gone("stale_needs_action"), "parked_idle")
        ELSE Board(s, n + 1) = Item(Card("needs_action", "waiting_for_input"),
                                          "waiting_on_human_input")
    BY <1>2, <1>8, <1>10
  <2> QED
    BY <1>6, <2>1, <2>2, <2>3, ItemIs, CardIs DEF Gone, ActionRequired, legacy
<1> QED
  BY <1>9, <1>10

------------------------------------------------------------------------------
(* What a card says that has not aged: it hangs on the row and on the hint,  *)
(* never on the time.                                                        *)
SaidByStatus(row) ==
  IF (row.status = "completed" /\ ~row.acknowledged) \/ row.status \in Review
  THEN "waiting_for_review"
  ELSE IF row.status = "awaiting_assignment" THEN "awaiting_assignment"
  ELSE IF row.status = "waiting_for_input" THEN "waiting_on_human_input"
  ELSE IF row.status \in Degraded THEN "needs_intervention"
  ELSE IF row.status \in Running THEN "running"
  ELSE "nothing"
SaidByHint(hint) ==
  IF hint = "awaiting_review" THEN "waiting_for_review"
  ELSE IF hint = "awaiting_assignment" THEN "awaiting_assignment"
  ELSE IF hint = "needs_input" THEN "waiting_on_human_input"
  ELSE IF hint \in {"blocked", "at_risk"} THEN "needs_intervention"
  ELSE "nothing"
Says(row, hint) ==
  IF hint = "running" /\ row.status \notin Historical
  THEN IF row.status \in {"waiting_for_input", "paused"} THEN "nothing"
       ELSE IF row.status = "unknown" THEN "running" ELSE SaidByStatus(row)
  ELSE IF row.status \in Running /\ hint # "none" THEN SaidByHint(hint)
  ELSE SaidByStatus(row)

(* A row of a source that names itself, with no process of Holistic behind. *)
Direct(row) ==
  /\ row.status \in RuntimeStatus /\ ~row.mirror /\ ~row.child /\ row.processAt = 0
  /\ row.status \in Running => row.completedAt = 0

(* It has not aged, if its signs of life are recent enough for what it says. *)
Lively(row, at) ==
  \E sign \in {LastHeartbeat(row), LastActivity(row)} : sign # 0 /\ Age(sign, at) <= ColdMs
Unaged(row, hint, at) ==
  /\ hint # "running" => /\ ~StaleRow(row, at)
                         /\ Says(row, hint) = "needs_intervention" => HasSignal(row, at)
                         /\ Says(row, hint) = "running" => Lively(row, at)
  /\ Says(row, hint) = "waiting_for_review" => ~IsStaleReview(LastSignal(row), at)

(* What a card says: on the board only with the status it stands for.       *)
Tells(item, says) == item.board => item.primary = says

LEMMA GoneIsOff ==
  ASSUME NEW row, NEW at, NEW reason
  PROVE  ~Shows(row, Gone(reason), at).board
<1>1. Shows(row, Gone(reason), at) = SetAside
      \/ \E primary : Shows(row, Gone(reason), at) = Item(Gone(reason), primary)
  BY ShowsIs
<1> QED
  BY <1>1, AsideIs, ItemIs, CardIs DEF Gone

(* A card of a direct row that is not of the past.                          *)
LEMMA DirectShows ==
  ASSUME NEW row, ~row.mirror, NEW card, card.category # "historical", NEW at, NEW says,
         PrimaryOf(card, row.status, Freshness(LastHeartbeat(row), at)) = says
  PROVE  LET item == Shows(row, card, at)
         IN /\ Tells(item, says)
            /\ item.board <=> EarnsItsPlace(card, says, TRUE, HasSignal(row, at), row.status)
<1> DEFINE earns == EarnsItsPlace(card, says, ~row.mirror, HasSignal(row, at), row.status)
<1>1. earns <=> EarnsItsPlace(card, says, TRUE, HasSignal(row, at), row.status)
  BY DEF EarnsItsPlace
<1>2. Shows(row, card, at) =
        IF \/ /\ card.category = "historical" /\ card.reason \in AgedOut
              /\ ~ActionRequired(says)
           \/ earns
        THEN Item(card, says) ELSE SetAside
  <2> PICK primary : primary = PrimaryOf(card, row.status, Freshness(LastHeartbeat(row), at))
    OBVIOUS
  <2> HIDE DEF earns
  <2>1. Shows(row, card, at) =
        IF \/ /\ card.category = "historical" /\ card.reason \in AgedOut
              /\ ~ActionRequired(primary)
           \/ EarnsItsPlace(card, primary, ~row.mirror, HasSignal(row, at), row.status)
        THEN Item(card, primary) ELSE SetAside
    BY ShowsIs
  <2> QED
    BY <2>1 DEF earns
<1> HIDE DEF earns
<1>3. Item(card, says).board /\ Item(card, says).primary = says /\ ~SetAside.board
  BY ItemIs, AsideIs
<1> DEFINE item == Shows(row, card, at)
<1> HIDE DEF item
<1>4. item = Item(card, says) \/ item = SetAside
  BY <1>2 DEF item
<1>5. item.board <=> earns
  BY <1>2, <1>3 DEF item
<1>6. Tells(item, says)
  BY <1>3, <1>4 DEF Tells
<1> QED
  BY <1>1, <1>5, <1>6 DEF item

(* The hint that the session runs counts for what the row does not deny.    *)
LEMMA LiveTells ==
  ASSUME NEW row, Direct(row), row.status \notin Historical, NEW at
  PROVE  LET item == Shows(row, Card("live", "runtime_active"), at)
             says == Says(row, "running")
         IN IF says = "nothing" THEN ~item.board ELSE item.board /\ Tells(item, says)
<1> DEFINE card == Card("live", "runtime_active")
           says == Says(row, "running")
           primary == IF row.status = "waiting_for_input" THEN "waiting_on_human_input"
                      ELSE IF row.status = "paused" THEN "parked_idle" ELSE says
<1>1. card.category = "live" /\ card.reason = "runtime_active"
  BY CardIs
<1>2. PrimaryOf(card, row.status, Freshness(LastHeartbeat(row), at)) = primary
  <2>1. row.status \in RuntimeStatus \ Historical
    BY DEF Direct
  <2>2. PrimaryOf(card, row.status, Freshness(LastHeartbeat(row), at)) =
           CASE row.status = "awaiting_assignment" -> "awaiting_assignment"
             [] row.status = "waiting_for_input" -> "waiting_on_human_input"
             [] row.status \in Review -> "waiting_for_review"
             [] row.status \in Degraded -> "needs_intervention"
             [] row.status = "paused" -> "parked_idle"
             [] OTHER -> "running"
    BY <2>1, LivePrimary
  <2> HIDE DEF card
  <2> QED
    BY <2>1, <2>2 DEF Says, SaidByStatus, RuntimeStatus, Running, NeedsAction, Review,
       Historical, Degraded
<1>3. /\ Tells(Shows(row, card, at), primary)
      /\ Shows(row, card, at).board
           <=> EarnsItsPlace(card, primary, TRUE, HasSignal(row, at), row.status)
  <2> HIDE DEF card, primary
  <2> QED
    BY <1>1, <1>2, DirectShows DEF Direct
<1>4. EarnsItsPlace(card, primary, TRUE, HasSignal(row, at), row.status) <=> says # "nothing"
  <2> HIDE DEF card
  <2> QED
    BY <1>1 DEF EarnsItsPlace, Says, SaidByStatus, Direct, RuntimeStatus, Running,
       NeedsAction, Review, Historical, Degraded
<1>5. says # "nothing" => primary = says
  BY DEF Says, SaidByStatus
<1> HIDE DEF card, primary, says
<1> QED
  BY <1>3, <1>4, <1>5 DEF card, says

Right(item, says, unaged) ==
  IF says = "nothing" THEN ~item.board ELSE Tells(item, says) /\ (unaged => item.board)

LEMMA HintedTells ==
  ASSUME NEW row, Direct(row), row.status \in Running, NEW at,
         NEW hint \in Hints \ {"running", "none"}
  PROVE  Right(Shows(row, ProjectHinted(row, hint, at), at), SaidByHint(hint),
               /\ hint = "awaiting_review" => ~IsStaleReview(LastSignal(row), at)
               /\ hint \in {"blocked", "at_risk"} => HasSignal(row, at))
<1> DEFINE card == ProjectHinted(row, hint, at)
           says == SaidByHint(hint)
<1>0. ~row.mirror /\ row.status # "awaiting_assignment" /\ row.status \in Running \cup Degraded
  BY DEF Direct, Running
<1>1. CASE hint = "parked"
  <2>1. card = Gone("parked") /\ says = "nothing"
    BY <1>1 DEF ProjectHinted, SaidByHint
  <2> QED
    BY <2>1, GoneIsOff DEF Right
<1>2. CASE hint = "awaiting_review"
  <2>1. card = ReviewCard("awaiting_review", LastSignal(row), at) /\ says = "waiting_for_review"
    BY <1>2 DEF ProjectHinted, SaidByHint
  <2>2. CASE IsStaleReview(LastSignal(row), at)
    <3>1. card = Gone("stale_review")
      BY <2>1, <2>2 DEF ReviewCard
    <3> QED
      BY <1>2, <2>1, <2>2, <3>1, GoneIsOff DEF Right, Tells
  <2>3. CASE ~IsStaleReview(LastSignal(row), at)
    <3>1. card = Card("review", "awaiting_review")
      BY <2>1, <2>3 DEF ReviewCard
    <3>2. PrimaryOf(card, row.status, Freshness(LastHeartbeat(row), at)) = says
      BY <1>0, <2>1, <3>1, Primaries
    <3> HIDE DEF card, says
    <3>3. Tells(Shows(row, card, at), says) /\ Shows(row, card, at).board
      BY <1>0, <2>1, <3>1, <3>2, CardIs, DirectShows DEF EarnsItsPlace
    <3> QED
      BY <2>1, <3>3 DEF Right, card, says
  <2> QED
    BY <2>2, <2>3
<1>3. CASE hint \in {"awaiting_assignment", "needs_input"}
  <2>1. /\ card = Card("needs_action", IF hint = "needs_input" THEN "waiting_for_input"
                                       ELSE "awaiting_assignment")
        /\ says = IF hint = "needs_input" THEN "waiting_on_human_input"
                  ELSE "awaiting_assignment"
    BY <1>3 DEF ProjectHinted, SaidByHint
  <2>2. PrimaryOf(card, row.status, Freshness(LastHeartbeat(row), at)) = says
    BY <1>0, <1>3, <2>1, Primaries
  <2> HIDE DEF card, says
  <2>3. Tells(Shows(row, card, at), says) /\ Shows(row, card, at).board
    BY <1>0, <1>3, <2>1, <2>2, CardIs, DirectShows DEF EarnsItsPlace
  <2> QED
    BY <2>1, <2>3 DEF Right, card, says
<1>4. CASE hint \in {"blocked", "at_risk"}
  <2>1. card = Card("degraded_active", "blocked_or_failed") /\ says = "needs_intervention"
    BY <1>4 DEF ProjectHinted, SaidByHint
  <2>2. PrimaryOf(card, row.status, Freshness(LastHeartbeat(row), at)) = says
    BY <1>0, <2>1, DegradedPrimary
  <2> HIDE DEF card, says
  <2>3. Tells(Shows(row, card, at), says)
        /\ (HasSignal(row, at) => Shows(row, card, at).board)
    BY <1>0, <2>1, <2>2, CardIs, DirectShows DEF EarnsItsPlace
  <2> QED
    BY <1>4, <2>1, <2>3 DEF Right, card, says
<1> QED
  BY <1>1, <1>2, <1>3, <1>4 DEF Hints

LEMMA RunningTells ==
  ASSUME NEW n \in Nat, NEW row, Direct(row), row.status \in Running, Past(row, n)
  PROVE  Right(Shows(row, ProjectRunning(row, n), n), "running", Lively(row, n))
<1> DEFINE card == ProjectRunning(row, n)
           item == Shows(row, card, n)
           beat == LastHeartbeat(row)
           work == LastActivity(row)
           signal == Newest({beat, work})
<1>1. item.board => item.primary = "running"
  BY RunningCards, RunningShows
<1> SUFFICES ASSUME Lively(row, n) PROVE item.board
  BY <1>1 DEF Right, Tells
<1>2. /\ beat \in 0..n /\ work \in 0..n /\ row.processAt = 0 /\ ~row.mirror
      /\ {FreshMs, ColdMs, ExpiredMs} \subseteq Nat /\ ColdMs < ExpiredMs /\ FreshMs < ColdMs
  BY Windows DEF Past, Direct
<1>3. /\ signal \in {beat, work, 0} /\ beat <= signal /\ work <= signal
  BY <1>2, NewestIs
<1>4. Newest({beat, row.processAt}) = beat
  <2> HIDE DEF beat
  <2>1. {beat, row.processAt} \in SUBSET (0..n)
    BY <1>2
  <2>2. Newest({beat, row.processAt}) \in {beat, row.processAt, 0}
        /\ beat <= Newest({beat, row.processAt})
    BY <2>1, NewestIs
  <2> QED
    BY <1>2, <2>2
<1>5. Alive(row, n) = IF beat = 0 THEN "unknown" ELSE IF Age(beat, n) <= ColdMs THEN "yes" ELSE "no"
  BY <1>4 DEF Alive
<1>6. \/ beat # 0 /\ Age(beat, n) <= ColdMs
      \/ work # 0 /\ Age(work, n) <= ColdMs
  BY DEF Lively
<1>7. card = IF Alive(row, n) # "yes"
             THEN IF Older(signal, n, ExpiredMs) THEN Gone("parked")
                  ELSE IF work # 0 /\ ~Older(signal, n, ColdMs)
                  THEN Card("live", "runtime_active")
                  ELSE Card("degraded_active", "missing_runtime_signal")
             ELSE IF beat = 0
             THEN Card("degraded_active", "missing_runtime_signal")
             ELSE IF Freshness(beat, n) = "cold"
             THEN Card("degraded_active", "stale_runtime")
             ELSE Card("live", "runtime_active")
  BY <1>2 DEF ProjectRunning
<1> HIDE DEF card, beat, work, signal
<1>8. card = Card("live", "runtime_active")
  <2>1. CASE beat # 0 /\ Age(beat, n) <= ColdMs
    <3>1. Alive(row, n) = "yes" /\ Freshness(beat, n) # "cold"
      BY <1>5, <2>1 DEF Freshness
    <3> QED
      BY <1>7, <2>1, <3>1
  <2>2. CASE ~(beat # 0 /\ Age(beat, n) <= ColdMs)
    <3>1. Alive(row, n) # "yes" /\ work # 0 /\ Age(work, n) <= ColdMs
      BY <1>5, <1>6, <2>2
    <3>2. Age(signal, n) <= ColdMs
      BY <1>2, <1>3, <3>1 DEF Age
    <3>3. Age(signal, n) \in Nat
      BY <1>2, <1>3 DEF Age
    <3>4. ~Older(signal, n, ExpiredMs) /\ ~Older(signal, n, ColdMs)
      BY <1>2, <3>2, <3>3 DEF Older
    <3> QED
      BY <1>7, <3>1, <3>4
  <2> QED
    BY <2>1, <2>2
<1>9. row.status \notin Historical /\ Says(row, "running") = "running"
  BY DEF Running, Historical, Says, SaidByStatus, Review, Degraded
<1> QED
  BY <1>8, <1>9, LiveTells

LEMMA StatusTells ==
  ASSUME NEW n \in Nat, NEW row, Direct(row), Past(row, n)
  PROVE  Right(Shows(row, ProjectByStatus(row, n), n), SaidByStatus(row),
               /\ row.status \in NeedsAction \cup Degraded => ~StaleRow(row, n)
               /\ SaidByStatus(row) = "waiting_for_review" => ~IsStaleReview(LastSignal(row), n)
               /\ row.status \in Running => Lively(row, n))
<1> DEFINE card == ProjectByStatus(row, n)
           says == SaidByStatus(row)
           item == Shows(row, card, n)
<1>0. ~row.mirror
  BY DEF Direct
<1> USE DEF Running, NeedsAction, Review, Historical, Degraded
<1>1. CASE row.status \in Running
  <2>1. card = ProjectRunning(row, n) /\ says = "running"
    BY <1>1 DEF Direct, ProjectByStatus, SaidByStatus
  <2>2. Right(item, says, Lively(row, n))
    <3> HIDE DEF Running
    <3> QED
      BY <1>1, <2>1, RunningTells
  <2> QED
    BY <1>1, <2>2 DEF Right
<1>2. CASE row.status \in Review \/ (row.status = "completed" /\ ~row.acknowledged)
  <2>1. PICK reason \in {"awaiting_review", "unacknowledged_completion"} :
          card = ReviewCard(reason, LastSignal(row), n)
    BY <1>2 DEF ProjectByStatus, ProjectEnded
  <2>2. says = "waiting_for_review"
    BY <1>2 DEF SaidByStatus
  <2>3. CASE IsStaleReview(LastSignal(row), n)
    <3>1. card = Gone("stale_review")
      BY <2>1, <2>3 DEF ReviewCard
    <3> QED
      BY <2>2, <2>3, <3>1, GoneIsOff DEF Right, Tells
  <2>4. CASE ~IsStaleReview(LastSignal(row), n)
    <3>1. card = Card("review", reason)
      BY <2>1, <2>4 DEF ReviewCard
    <3>2. PrimaryOf(card, row.status, Freshness(LastHeartbeat(row), n)) = says
      BY <1>2, <2>2, <3>1, Primaries
    <3> HIDE DEF card, says
    <3>3. Tells(Shows(row, card, n), says) /\ Shows(row, card, n).board
      BY <1>0, <2>2, <3>1, <3>2, CardIs, DirectShows DEF EarnsItsPlace
    <3> QED
      BY <2>2, <3>3 DEF Right, card, says
  <2> QED
    BY <2>3, <2>4
<1>3. CASE row.status \in NeedsAction
  <2>1. says = IF row.status = "awaiting_assignment" THEN "awaiting_assignment"
               ELSE "waiting_on_human_input"
    BY <1>3 DEF SaidByStatus
  <2>2. card = ProjectWaiting(row, n)
    BY <1>3 DEF ProjectByStatus
  <2>3. CASE StaleRow(row, n)
    <3>1. card = Gone("stale_needs_action")
      BY <2>2, <2>3 DEF ProjectWaiting, StaleRow
    <3> QED
      BY <1>3, <2>1, <2>3, <3>1, GoneIsOff DEF Right, Tells
  <2>4. CASE ~StaleRow(row, n)
    <3>1. card = Card("needs_action", IF row.status = "awaiting_assignment"
                                      THEN "awaiting_assignment" ELSE "waiting_for_input")
      BY <2>2, <2>4 DEF ProjectWaiting, StaleRow
    <3>2. PrimaryOf(card, row.status, Freshness(LastHeartbeat(row), n)) = says
      BY <1>3, <2>1, <3>1, Primaries
    <3> HIDE DEF card, says
    <3>3. Tells(Shows(row, card, n), says) /\ Shows(row, card, n).board
      BY <1>0, <1>3, <2>1, <3>1, <3>2, CardIs, DirectShows DEF EarnsItsPlace
    <3> QED
      BY <1>3, <2>1, <3>3 DEF Right, card, says
  <2> QED
    BY <2>3, <2>4
<1>4. CASE row.status \in Degraded
  <2>1. says = "needs_intervention" /\ card = ProjectDegraded(row, n)
    BY <1>4 DEF SaidByStatus, ProjectByStatus
  <2>2. CASE StaleRow(row, n)
    <3>1. card = Gone("stale_degraded")
      BY <2>1, <2>2 DEF ProjectDegraded, StaleRow
    <3> QED
      BY <1>4, <2>1, <2>2, <3>1, GoneIsOff DEF Right, Tells
  <2>3. CASE ~StaleRow(row, n)
    <3>1. card = Card("degraded_active", "blocked_or_failed")
      BY <2>1, <2>3 DEF ProjectDegraded, StaleRow
    <3>2. PrimaryOf(card, row.status, Freshness(LastHeartbeat(row), n)) = says
      BY <1>4, <2>1, <3>1, DegradedPrimary
    <3> HIDE DEF card, says
    <3>3. Tells(Shows(row, card, n), says) /\ Shows(row, card, n).board
      BY <1>0, <1>4, <2>1, <3>1, <3>2, CardIs, DirectShows DEF EarnsItsPlace
    <3> QED
      BY <1>4, <2>1, <3>3 DEF Right, card, says
  <2> QED
    BY <2>2, <2>3
<1>5. CASE row.status = "unknown"
  <2>1. says = "nothing" /\ card = Card("unknown", "insufficient_evidence")
    BY <1>5 DEF SaidByStatus, ProjectByStatus
  <2>2. PrimaryOf(card, row.status, Freshness(LastHeartbeat(row), n)) = "unknown"
    BY <1>5, <2>1, CardIs DEF PrimaryOf, PrimaryStatus, Lifecycle, AgedOut
  <2> HIDE DEF card, says
  <2>3. ~Shows(row, card, n).board
    BY <1>0, <2>1, <2>2, CardIs, DirectShows DEF EarnsItsPlace
  <2> QED
    BY <2>1, <2>3 DEF Right, card, says
<1>6. CASE /\ row.status \in Historical \cup {"paused"}
           /\ ~(row.status = "completed" /\ ~row.acknowledged)
  <2>1. says = "nothing" /\ card \in {Gone("parked"), Gone("terminated")}
    BY <1>6 DEF SaidByStatus, ProjectByStatus, ProjectEnded
  <2> QED
    BY <2>1, GoneIsOff DEF Right
<1> QED
  BY <1>1, <1>2, <1>3, <1>4, <1>5, <1>6 DEF Direct, RuntimeStatus

(* The board shows a direct row with the status it says, or not at all; it   *)
(* shows it while it has not aged.                                           *)
LEMMA RowTells ==
  ASSUME NEW n \in Nat, NEW row, Direct(row), Past(row, n), NEW hint \in Hints
  PROVE  Right(RuntimeItem(row, hint, n), Says(row, hint), Unaged(row, hint, n))
<1> DEFINE card == ProjectRuntime(row, hint, n)
           item == Shows(row, card, n)
           says == Says(row, hint)
<1>1. RuntimeItem(row, hint, n) = item /\ ~row.child
  BY DEF RuntimeItem, Shows, Direct
<1> SUFFICES Right(item, says, Unaged(row, hint, n))
  BY <1>1
<1>2. CASE hint = "running" /\ row.status \notin Historical
  <2>1. card = Card("live", "runtime_active") /\ says = Says(row, "running")
    BY <1>1, <1>2 DEF ProjectRuntime
  <2> QED
    BY <1>2, <2>1, LiveTells DEF Right
<1>3. CASE /\ hint \in {"needs_input", "awaiting_assignment", "blocked", "at_risk"}
           /\ StaleRow(row, n)
  <2>1. card \in {Gone("stale_needs_action"), Gone("stale_degraded")}
    BY <1>1, <1>3 DEF ProjectRuntime, StaleRow
  <2>2. ~item.board
    BY <2>1, GoneIsOff
  <2>3. ~Unaged(row, hint, n)
    BY <1>3 DEF Unaged
  <2> QED
    BY <2>2, <2>3 DEF Right, Tells
<1> DEFINE aged == /\ hint \in {"needs_input", "awaiting_assignment", "blocked", "at_risk"}
                   /\ StaleRow(row, n)
           sure == hint = "running" /\ row.status \notin Historical
<1>4. CASE row.status \in Running /\ hint \notin {"running", "none"} /\ ~aged
  <2>1. card = ProjectHinted(row, hint, n) /\ says = SaidByHint(hint)
    BY <1>1, <1>4 DEF ProjectRuntime, Says, StaleRow
  <2>2. Right(item, says,
               /\ hint = "awaiting_review" => ~IsStaleReview(LastSignal(row), n)
               /\ hint \in {"blocked", "at_risk"} => HasSignal(row, n))
    BY <1>4, <2>1, HintedTells
  <2>3. Unaged(row, hint, n) =>
          /\ hint = "awaiting_review" => ~IsStaleReview(LastSignal(row), n)
          /\ hint \in {"blocked", "at_risk"} => HasSignal(row, n)
    BY <1>4, <2>1 DEF Unaged, SaidByHint
  <2> HIDE DEF item, says
  <2> QED
    BY <2>2, <2>3 DEF Right
<1>5. CASE ~sure /\ ~aged /\ ~(row.status \in Running /\ hint \notin {"running", "none"})
  <2>1. card = ProjectByStatus(row, n) /\ says = SaidByStatus(row)
    <3>1. row.status \in Running => row.status \notin Historical
      BY DEF Running, Historical
    <3> QED
      BY <1>1, <1>5, <3>1 DEF ProjectRuntime, Says, StaleRow
  <2>2. Right(item, says,
               /\ row.status \in NeedsAction \cup Degraded => ~StaleRow(row, n)
               /\ SaidByStatus(row) = "waiting_for_review" => ~IsStaleReview(LastSignal(row), n)
               /\ row.status \in Running => Lively(row, n))
    BY <2>1, StatusTells
  <2>3. Unaged(row, hint, n) =>
               /\ row.status \in NeedsAction \cup Degraded => ~StaleRow(row, n)
               /\ SaidByStatus(row) = "waiting_for_review" => ~IsStaleReview(LastSignal(row), n)
               /\ row.status \in Running => Lively(row, n)
    BY <1>5, <2>1 DEF Unaged, SaidByStatus, Running, NeedsAction, Degraded, Review, Historical
  <2> HIDE DEF item, says
  <2> QED
    BY <2>2, <2>3 DEF Right
<1> QED
  BY <1>2, <1>3, <1>4, <1>5

------------------------------------------------------------------------------
(* What earns a place on the board: nothing whose status is unknown, and    *)
(* nothing parked or done.                                                  *)

(* An item as the board, the history and the detail have it. *)
Asks == {"waiting_on_human_input", "needs_intervention", "awaiting_assignment",
         "waiting_for_review"}
Genuine(item) ==
  /\ item.category \in Category
  /\ item.primary \in Asks \cup {"running", "unknown", "parked_idle", "done_historical"}
  /\ item.action <=> ActionRequired(item.primary)
  /\ item.board => item.primary \in Asks \cup {"running"}

LEMMA ShownIs ==
  ASSUME NEW card, card.category \in Category, NEW status, NEW direct, NEW freshness,
         NEW alive, NEW signalled
  PROVE  Genuine(Shown(card, status, direct, freshness, alive, signalled))
<1>1. PICK primary : primary = PrimaryStatus(card, Lifecycle(card, status, freshness))
  OBVIOUS
<1> DEFINE item == Item(card, primary)
<1>2. /\ item.category = card.category /\ item.primary = primary
      /\ item.action <=> ActionRequired(primary)
      /\ item.board <=> card.category # "historical"
  BY DEF Item
<1>3. primary \in Asks \cup {"running", "unknown", "parked_idle", "done_historical"}
  BY <1>1 DEF PrimaryStatus, Asks
<1>4. card.category = "needs_action" => primary \in Asks
  BY <1>1 DEF PrimaryStatus, Asks
<1>5. Genuine(SetAside)
  <2>1. SetAside.category = "historical"
    BY DEF SetAside, Item, Gone, Card
  <2> QED
    BY <2>1, AsideIs DEF Genuine, ActionRequired, Category
<1>6. CASE Shown(card, status, direct, freshness, alive, signalled) = SetAside
  BY <1>5, <1>6
<1>7. CASE Shown(card, status, direct, freshness, alive, signalled) # SetAside
  <2>1. /\ Shown(card, status, direct, freshness, alive, signalled) = item
        /\ card.category # "historical" =>
             \/ primary \in {"running", "awaiting_assignment", "waiting_for_review",
                             "needs_intervention"}
             \/ card.category = "needs_action"
    BY <1>1, <1>7 DEF Shown, EarnsItsPlace
  <2> HIDE DEF item
  <2> QED
    BY <1>2, <1>3, <1>4, <2>1 DEF Genuine, Asks
<1> QED
  BY <1>6, <1>7

LEMMA CardCategory ==
  ASSUME NEW row, row.status \in RuntimeStatus, row.completedAt \in Nat, NEW hint \in Hints,
         NEW n
  PROVE  ProjectRuntime(row, hint, n).category \in Category
<1>1. \A reason, at :
        /\ Gone(reason).category \in Category
        /\ ReviewCard(reason, at, n).category \in Category
        /\ Card("needs_action", reason).category \in Category
        /\ Card("degraded_active", reason).category \in Category
        /\ Card("live", reason).category \in Category
        /\ Card("unknown", reason).category \in Category
  BY DEF Gone, ReviewCard, Card, Category
<1>2. ProjectRunning(row, n).category \in Category
  BY <1>1 DEF ProjectRunning, ProjectMirror
<1>3. /\ ProjectEnded(row, n).category \in Category
      /\ ProjectWaiting(row, n).category \in Category
      /\ ProjectDegraded(row, n).category \in Category
  BY <1>1 DEF ProjectEnded, ProjectWaiting, ProjectDegraded
<1>4. ProjectByStatus(row, n).category \in Category
  BY <1>1, <1>2, <1>3 DEF ProjectByStatus, RuntimeStatus
<1>5. hint \notin {"running", "none"} => ProjectHinted(row, hint, n).category \in Category
  BY <1>1 DEF ProjectHinted, Hints
<1> QED
  BY <1>1, <1>4, <1>5 DEF ProjectRuntime

LEMMA BoardIs ==
  ASSUME NEW n \in Nat, NEW p \in Nat, NEW s, Dated(s, n, p)
  PROVE  Genuine(Board(s, n))
<1>1. CASE s.row = NoRow
  <2>1. \A legacy : ProjectLegacy(legacy, n).category \in Category
    BY DEF ProjectLegacy, Gone, Card, Category
  <2> QED
    BY <1>1, <2>1, ShownIs DEF Board, LegacyItem
<1>2. CASE s.row # NoRow
  <2>1. Hint(s, n) \in Hints
    <3>1. \A session : DeriveStatus(session, s.events, FALSE, n) \in Hints \cup {"queued"}
      BY DEF DeriveStatus, Hints
    <3> QED
      BY <3>1, StatusHintType DEF Hint, CanonicalHint, Hints
  <2>2. RowOf(s).status \in RuntimeStatus /\ RowOf(s).completedAt \in Nat
    BY <1>2 DEF Dated, Store, Row, RowOf
  <2>3. ProjectRuntime(RowOf(s), Hint(s, n), n).category \in Category
    BY <2>1, <2>2, CardCategory
  <2> QED
    BY <1>2, <2>3, ShownIs DEF Board, RuntimeItem
<1> QED
  BY <1>1, <1>2

------------------------------------------------------------------------------
(* A store that is dated, with no heartbeat after a time, and the events    *)
(* that keep it so.                                                         *)

DatedStores(n, p, limit) ==
  {s \in Store : Dated(s, n, p) /\ \A e \in s.traces : e.type = "session.heartbeat" => e.at <= limit}
DatedEvents(n, p, limit) ==
  {e \in PostedEvent : /\ e.at \in 1..n /\ e.id \in 0..p
                       /\ AsStored(e).type = "session.heartbeat" => e.at <= limit}

LEMMA BeatsStayBeats ==
  ASSUME NEW type \in EventType, ToRuntimeEvent(type) = "session.heartbeat"
  PROVE  type = "session.heartbeat"
<1>1. CASE Renames(type) # type
  BY <1>1 DEF ToRuntimeEvent, Renames
<1>2. CASE Renames(type) = type
  BY <1>2 DEF ToRuntimeEvent
<1> QED
  BY <1>1, <1>2

LEMMA IngestKeepsDates ==
  ASSUME NEW n \in Nat, NEW p \in Nat, NEW limit \in Nat,
         NEW s \in DatedStores(n, p, limit), NEW e \in DatedEvents(n, p, limit)
  PROVE  Ingested(s, e) \in DatedStores(n, p, limit) \cup {Rejected}
<1> DEFINE t == Ingested(s, e)
           f == AsStored(e)
           trace == [id |-> f.id, at |-> f.at, type |-> ToRuntimeEvent(f.type)]
<1> SUFFICES ASSUME t # Rejected, t # s PROVE t \in DatedStores(n, p, limit)
  OBVIOUS
<1>1. s \in Store /\ Dated(s, n, p) /\ e \in PostedEvent /\ e.at \in 1..n /\ e.id \in 0..p
  BY DEF DatedStores, DatedEvents
<1>2. Dated(t, n, p)
  <2>1. IngestEvents(s, <<e>>) = t
    BY <1>1, IngestOne, IngestOK
  <2> HIDE DEF t
  <2> QED
    BY <1>1, <2>1, IngestDated
<1>3. t \in Store /\ TakenIn(s, f, t)
  BY <1>1, EventIngested
<1>4. f.at = e.at /\ f.type \in EventType
  BY <1>1, NormalizedType DEF PostedEvent
<1>5. t.traces = s.traces \/ t.traces = Replaced(s.traces, trace)
  BY <1>3 DEF TakenIn
<1>6. trace.type = "session.heartbeat" => trace.at <= limit
  BY <1>4, BeatsStayBeats DEF DatedEvents
<1> HIDE DEF t, trace
<1>7. \A g \in t.traces : g \in s.traces \/ g = trace
  BY <1>5 DEF Replaced
<1> QED
  BY <1>2, <1>3, <1>6, <1>7 DEF DatedStores

LEMMA BatchKeepsDates ==
  ASSUME NEW n \in Nat, NEW p \in Nat, NEW limit \in Nat,
         NEW s \in DatedStores(n, p, limit), NEW batch \in Seq(DatedEvents(n, p, limit)),
         NEW len \in 0..3, Len(batch) = len
  PROVE  IngestEvents(s, batch) \in DatedStores(n, p, limit)
<1> DEFINE Good == DatedStores(n, p, limit)
           Kind == DatedEvents(n, p, limit)
<1>1. \A r \in Good, e \in Kind : Ingested(r, e) \in Good \cup {Rejected}
  BY IngestKeepsDates
<1>2. s \in Good /\ batch \in Seq(Kind)
  OBVIOUS
<1> HIDE DEF Good, Kind
<1>3. IngestEvents(s, batch) \in Good
  BY <1>1, <1>2, IngestBatch
<1> QED
  BY <1>3 DEF Good

LEMMA DatesLater ==
  ASSUME NEW n \in Nat, NEW p \in Nat, NEW limit \in Nat,
         NEW m \in Nat, NEW q \in Nat, NEW later \in Nat,
         n <= m, p <= q, limit <= later \/ n <= later
  PROVE  /\ DatedStores(n, p, limit) \subseteq DatedStores(m, q, later)
         /\ DatedEvents(n, p, limit) \subseteq DatedEvents(m, q, later)
<1>1. ASSUME NEW s \in DatedStores(n, p, limit) PROVE s \in DatedStores(m, q, later)
  <2>1. Dated(s, m, q)
    BY DatedLater DEF DatedStores
  <2>2. \A e \in s.traces : e.at \in 1..n
    BY DEF DatedStores, Dated
  <2>3. \A e \in s.traces : e.type = "session.heartbeat" => e.at <= later
    BY <2>2 DEF DatedStores
  <2> QED
    BY <2>1, <2>3 DEF DatedStores
<1>2. ASSUME NEW e \in DatedEvents(n, p, limit) PROVE e \in DatedEvents(m, q, later)
  <2>1. e.at \in 1..n /\ e.id \in 0..p
    BY DEF DatedEvents
  <2>2. e.at \in 1..m /\ e.id \in 0..q
    BY <2>1
  <2> QED
    BY <2>1, <2>2 DEF DatedEvents
<1> QED
  BY <1>1, <1>2

(* The heartbeats of a row. *)
LEMMA BeatIs ==
  ASSUME NEW n \in Nat, NEW p \in Nat, NEW limit \in Nat, NEW s \in DatedStores(n, p, limit)
  PROVE  LastHeartbeat(RowOf(s)) <= limit
<1> DEFINE times == TimesOf(RowOf(s), "heartbeat")
<1>1. \A type : Significance(type) = "heartbeat" => type = "session.heartbeat"
  BY DEF Significance
<1>2. RowOf(s).events = s.traces
  BY DEF RowOf
<1>3. \A t \in times : t \in 0..n /\ t <= limit
  BY <1>1, <1>2 DEF TimesOf, DatedStores, Dated
<1>4. LastHeartbeat(RowOf(s)) = Newest(times)
  BY DEF LastHeartbeat
<1> HIDE DEF times
<1>5. Newest(times) \in times \cup {0}
  BY <1>3, NewestIs
<1> QED
  BY <1>3, <1>4, <1>5

LEMMA NewestGrows ==
  ASSUME NEW n \in Nat, NEW S \in SUBSET (0..n), NEW T \in SUBSET (0..n),
         \A x \in S : \E y \in T : x <= y
  PROVE  Newest(S) <= Newest(T)
<1>1. Newest(S) \in S \cup {0} /\ Newest(T) \in 0..n /\ \A y \in T : y <= Newest(T)
  BY NewestIs
<1>2. ASSUME NEW x \in S PROVE x <= Newest(T)
  <2>1. PICK y \in T : x <= y
    OBVIOUS
  <2>2. x \in 0..n /\ y \in 0..n /\ y <= Newest(T)
    BY <1>1
  <2> QED
    BY <1>1, <2>1, <2>2
<1>3. CASE Newest(S) \in S
  BY <1>2, <1>3
<1>4. CASE Newest(S) = 0
  <2>1. 0 <= Newest(T)
    BY <1>1
  <2> QED
    BY <1>4, <2>1
<1> QED
  BY <1>1, <1>3, <1>4

=============================================================================
