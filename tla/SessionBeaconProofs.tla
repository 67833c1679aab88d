-------------------------- MODULE SessionBeaconProofs --------------------------
(***************************************************************************)
(* Proofs about SessionBeacon, for any windows, sessions and numbers of    *)
(* commands, however they overlap, fail or are killed: that a session      *)
(* which a command by itself completed or parked stays off the board, and  *)
(* that the board shows what the file was last vouched for with.           *)
(***************************************************************************)
EXTENDS SessionBeacon, AndonIngestProofs, FiniteSetTheorems

(* The stores and the events the beacon makes, none later than a time. *)
LastId == 2 * count
Good(at) ==
  {s \in DatedStores(now, LastId, now) :
     /\ s.processAt = 0
     /\ s.row # NoRow =>
          /\ s.row.owner = OwnerFor(Beacon) /\ ~s.row.child /\ s.row.updatedAt <= at
          /\ s.row.completedAt # 0 => s.row.status = "completed"}
Kind(at) ==
  {e \in DatedEvents(now, LastId, now) : e.from = Beacon /\ ~e.task /\ e.at <= at}

Step == {"posted", "answered", "verified"}
Issued ==
  [number : Nat, at : 1..now, step : Step, alone : BOOLEAN, status : PrimaryStatuses,
   session : Session, name : Command \cup {"status"}, events : Seq(PostedEvent)]
File == [session : Session, status : PrimaryStatuses, at : 1..now]

(* What a complete and a park post, and the row that it leaves. *)
Farewell(e) ==
  \/ e.type = "session.ended" /\ e.note = "acknowledged"
  \/ e.type = "session.parked" /\ e.note = "none"
Over(s) ==
  /\ s.row # NoRow
  /\ s.row.status = "parked" \/ (s.row.status = "completed" /\ s.row.acknowledged)

Types ==
  /\ now \in Nat /\ now # 0 /\ count \in Nat
  /\ stores = [s \in Session |-> stores[s]] /\ \A s \in Session : stores[s] \in Good(now)
  /\ file # NoFile => file \in File
  /\ \A c \in commands :
       /\ c \in Issued /\ c.events \in Seq(Kind(c.at))
       /\ \E len \in 1..2 : Len(c.events) = len

(* A command that runs alone finds nothing newer than itself, and the file  *)
(* it read.                                                                 *)
Closing(c) == c.name \in {"complete", "park"}
Alone ==
  \A c \in commands :
    /\ c.alone => commands = {c} /\ stores[c.session] \in Good(c.at)
    /\ Closing(c) => \E e \in Kind(c.at) : c.events = <<e>> /\ e.at = c.at /\ Farewell(e)
    /\ Closing(c) /\ c.alone => /\ file # NoFile /\ file.session = c.session
                                /\ c.step # "posted" => Over(stores[c.session])

(* Nobody names a closed session any more. *)
Closed ==
  \A s \in closed :
    /\ s \in Session /\ Over(stores[s])
    /\ file # NoFile => file.session # s
    /\ \A c \in commands : c.session # s

IInv == Types /\ Alone /\ Closed

------------------------------------------------------------------------------
(* The store. *)

LEMMA RowIs ==
  ASSUME NEW s, NEW e
  PROVE  /\ MirroredRow(s, e).status =
              MirrorStatus(e.type, e.note, IF s.row = NoRow THEN "none" ELSE s.row.status, "none")
         /\ MirroredRow(s, e).acknowledged <=> e.note = "acknowledged"
         /\ ~MirroredRow(s, e).child
         /\ MirroredRow(s, e).completedAt # 0 => MirroredRow(s, e).status = "completed"
<1> DEFINE status == MirrorStatus(e.type, e.note,
                                  IF s.row = NoRow THEN "none" ELSE s.row.status, "none")
<1>1. MirroredRow(s, e) =
        [status |-> status, updatedAt |-> e.at,
         completedAt |-> IF status = "completed" THEN e.at ELSE 0,
         owner |-> OwnerFor(e.from), child |-> FALSE,
         acknowledged |-> e.note = "acknowledged"]
  BY DEF MirroredRow
<1> HIDE DEF status
<1>2. /\ MirroredRow(s, e).status = status
      /\ ~MirroredRow(s, e).child
      /\ MirroredRow(s, e).completedAt # 0 => MirroredRow(s, e).status = "completed"
  BY <1>1
<1>3. MirroredRow(s, e).acknowledged <=> e.note = "acknowledged"
  <2>1. PICK b \in BOOLEAN : b <=> e.note = "acknowledged"
    OBVIOUS
  <2>2. MirroredRow(s, e) =
          [status |-> status, updatedAt |-> e.at,
           completedAt |-> IF status = "completed" THEN e.at ELSE 0,
           owner |-> OwnerFor(e.from), child |-> FALSE, acknowledged |-> b]
    BY <1>1, <2>1
  <2>3. MirroredRow(s, e).acknowledged = b
    BY <2>2
  <2> QED
    BY <2>1, <2>3
<1> QED
  BY <1>2, <1>3 DEF status

LEMMA GoodIngested ==
  ASSUME Types, NEW at \in Nat, NEW s \in Good(at), NEW e \in Kind(at)
  PROVE  Ingested(s, e) \in Good(at) \cup {Rejected}
<1> DEFINE t == Ingested(s, e)
<1>1. now \in Nat /\ LastId \in Nat
  BY DEF Types, LastId
<1>2. t \in DatedStores(now, LastId, now) \cup {Rejected}
  BY <1>1, IngestKeepsDates DEF Good, Kind
<1>3. ASSUME t # Rejected
      PROVE  /\ t.processAt = 0
             /\ t.row # NoRow =>
                  /\ t.row.owner = OwnerFor(Beacon) /\ ~t.row.child /\ t.row.updatedAt <= at
                  /\ t.row.completedAt # 0 => t.row.status = "completed"
  <2>1. s \in Store /\ e \in PostedEvent
    BY DEF Good, Kind, DatedStores, DatedEvents
  <2>2. CASE t = s
    BY <1>3, <2>2 DEF Good
  <2>3. CASE t # s
    <3>1. TakenIn(s, AsStored(e), t)
      BY <1>3, <2>1, <2>3, EventIngested
    <3>2. AsStored(e).from = Beacon /\ AsStored(e).at <= at
      BY <2>1, NormalizedType DEF Kind
    <3>3. t.row = s.row \/ t.row = MirroredRow(s, AsStored(e))
      BY <3>1 DEF TakenIn
    <3>4. t.processAt = 0
      BY <3>1 DEF TakenIn, Good
    <3>5. MirroredRow(s, AsStored(e)).owner = OwnerFor(Beacon)
          /\ MirroredRow(s, AsStored(e)).updatedAt <= at
      BY <3>2 DEF MirroredRow
    <3> HIDE DEF t
    <3>6. CASE t.row = s.row
      BY <3>4, <3>6 DEF Good
    <3> QED
      BY <3>3, <3>4, <3>5, <3>6, RowIs
  <2> QED
    BY <2>2, <2>3
<1> HIDE DEF t
<1>4. t = Rejected \/ t \in Good(at)
  BY <1>2, <1>3 DEF Good
<1> QED
  BY <1>4 DEF t

LEMMA GoodBatch ==
  ASSUME Types, NEW at \in Nat, NEW s \in Good(at), NEW batch \in Seq(Kind(at)),
         \E len \in 1..2 : Len(batch) = len
  PROVE  IngestEvents(s, batch) \in Good(at)
<1>1. PICK len \in 0..3 : Len(batch) = len
  OBVIOUS
<1>2. \A r \in Good(at), e \in Kind(at) : Ingested(r, e) \in Good(at) \cup {Rejected}
  BY GoodIngested
<1> QED
  BY <1>1, <1>2, IngestBatch

LEMMA FarewellStatus ==
  ASSUME NEW note, NEW old
  PROVE  /\ MirrorStatus("session.ended", note, old, "none") = "completed"
         /\ MirrorStatus("session.parked", note, old, "none") = "parked"
  BY DEF MirrorStatus, AsksForInput, KeepsStatus

(* A farewell that comes when it is due ends the session. *)
LEMMA FarewellEnds ==
  ASSUME Types, NEW at \in Nat, NEW s \in Good(at), NEW e \in Kind(at), Farewell(e),
         e.at = at
  PROVE  Over(IngestEvents(s, <<e>>))
<1> DEFINE t == Ingested(s, e)
           f == AsStored(e)
<1>1. s \in Store /\ e \in PostedEvent
  BY DEF Good, Kind, DatedStores, DatedEvents
<1>2. f.type = e.type /\ f.note = e.note /\ f.at = e.at /\ f.from = Beacon /\ ~f.task
  <2>1. f.type = Normalized(e.type, e.note, e.from.writer)
    BY <1>1 DEF AsStored, PostedEvent
  <2>2. Normalized(e.type, e.note, e.from.writer) = e.type
    BY DEF Farewell, Normalized
  <2> QED
    BY <1>1, <2>1, <2>2, NormalizedType DEF Kind
<1>3. ~SameSwitch(s, f)
  BY <1>2 DEF SameSwitch, Farewell
<1>4. t # Rejected
  <2>1. ~Orphan(s, f)
    BY <1>2 DEF Orphan
  <2> QED
    BY <1>1, <1>3, <2>1, EventTaken
<1>5. TakenIn(s, f, t)
  BY <1>1, <1>3, <1>4, EventIngested
<1>6. MayWrite(f.from, s.row)
  <2>1. s.row # NoRow => s.row.owner.id = Beacon.id
    BY DEF Good, OwnerFor, Beacon, Unnamed
  <2> QED
    BY <1>2, <2>1, BeaconNamed DEF MayWrite, IsDirect
<1>7. ~Late(s, f)
  <2>1. s.row # NoRow => s.row.updatedAt \in Nat
    BY <1>1 DEF Store, Row
  <2>2. e.at \in Nat
    BY <1>1 DEF PostedEvent
  <2> QED
    BY <1>2, <2>1, <2>2 DEF Late, Good
<1>8. t.row = MirroredRow(s, f)
  BY <1>5, <1>6, <1>7 DEF TakenIn
<1>9. IngestEvents(s, <<e>>) = t
  BY <1>1, <1>4, IngestOK, IngestOne
<1>10. t.row # NoRow
  BY <1>1, <1>8, RowType, NormalizedType
<1> DEFINE old == IF s.row = NoRow THEN "none" ELSE s.row.status
<1>11. /\ t.row.status = MirrorStatus(f.type, f.note, old, "none")
       /\ t.row.acknowledged <=> f.note = "acknowledged"
  <2> HIDE DEF t, f
  <2> QED
    BY <1>8, RowIs
<1> HIDE DEF t, f, old
<1>12. MirrorStatus(f.type, f.note, old, "none")
         = IF f.type = "session.ended" THEN "completed" ELSE "parked"
  BY <1>2, FarewellStatus DEF Farewell
<1> QED
  BY <1>2, <1>9, <1>10, <1>11, <1>12 DEF Over, Farewell

(* A restart of the API leaves it so, and a session that is over is not on  *)
(* the board.                                                               *)
LEMMA ReconciledIs ==
  ASSUME Types, NEW at \in Nat, NEW s \in Good(at)
  PROVE  /\ Reconciled(s, now) \in Good(at)
         /\ Over(s) => Reconciled(s, now) = s
<1>1. CASE Reconciled(s, now) = s
  BY <1>1
<1>2. CASE Reconciled(s, now) # s
  <2>1. s.row # NoRow /\ s.row.status \in Running /\ Reconciled(s, now) = [s EXCEPT !.row.status = "parked"]
    BY <1>2 DEF Reconciled, RowOf
  <2>2. ~Over(s)
    BY <2>1 DEF Over, Running
  <2>3. s \in Store /\ Dated(s, now, LastId)
    BY DEF Good, DatedStores
  <2> DEFINE row == [s.row EXCEPT !.status = "parked"]
             t == [s EXCEPT !.row = row]
  <2>4. s.row \in Row
    BY <2>1, <2>3 DEF Store
  <2>5. row \in Row /\ row.updatedAt = s.row.updatedAt /\ row.completedAt = s.row.completedAt
        /\ row.owner = s.row.owner /\ row.child = s.row.child
    BY <2>4 DEF Row, RuntimeStatus, Historical
  <2>6. row # NoRow
    BY <2>5, IngestOK
  <2>7. Reconciled(s, now) = t
    BY <2>1, <2>3 DEF Store
  <2> HIDE DEF row
  <2>8. /\ t \in Store /\ t.row = row /\ t.session = s.session /\ t.events = s.events
        /\ t.traces = s.traces /\ t.processAt = s.processAt
    BY <2>3, <2>5 DEF Store
  <2> HIDE DEF t
  <2>9. Dated(t, now, LastId)
    BY <2>1, <2>3, <2>5, <2>6, <2>8 DEF Dated
  <2>10. t \in Good(at)
    <3>1. /\ s.row.owner = OwnerFor(Beacon) /\ ~s.row.child /\ s.row.updatedAt <= at
          /\ s.row.completedAt = 0 /\ s.processAt = 0
          /\ \A e \in s.traces : e.type = "session.heartbeat" => e.at <= now
      BY <2>1 DEF Good, DatedStores, Running
    <3> QED
      BY <2>5, <2>8, <2>9, <3>1 DEF Good, DatedStores
  <2> QED
    BY <2>1, <2>2, <2>5, <2>7, <2>8, <2>10
<1> QED
  BY <1>1, <1>2

LEMMA OverIsOff ==
  ASSUME NEW s, NEW at, Over(s)
  PROVE  ~Board(s, at).board
<1> DEFINE row == RowOf(s)
           hint == Hint(s, at)
           card == ProjectRuntime(row, hint, at)
<1>1. /\ row.status = s.row.status /\ row.acknowledged = s.row.acknowledged
      /\ row.status \in {"parked", "completed"} /\ (row.status = "completed" => row.acknowledged)
  BY DEF Over, RowOf
<1>2. Gone("parked").category = "historical" /\ Gone("terminated").category = "historical"
      /\ Gone("stale_degraded").category = "historical"
      /\ Gone("stale_needs_action").category = "historical"
  BY CardIs DEF Gone
<1> HIDE DEF row, hint
<1>3. ProjectByStatus(row, at).category = "historical"
  <2>1. ProjectByStatus(row, at) = ProjectEnded(row, at)
    BY <1>1 DEF ProjectByStatus, Running, Historical, NeedsAction, Review, Degraded
  <2> QED
    BY <1>1, <1>2, <2>1 DEF ProjectEnded
<1>4. card.category = "historical"
  BY <1>1, <1>2, <1>3 DEF ProjectRuntime, Running, Historical
<1>5. Board(s, at) = RuntimeItem(row, hint, at)
  BY DEF Board, Over, row, hint
<1> HIDE DEF card
<1>6. RuntimeItem(row, hint, at) = SetAside \/ \E primary : RuntimeItem(row, hint, at) = Item(card, primary)
  BY DEF RuntimeItem, Shown, card
<1> QED
  BY <1>4, <1>5, <1>6, ItemIs, AsideIs

------------------------------------------------------------------------------
(* The actions. *)

LEMMA FreshSession ==
  ASSUME Types, \E s \in Session : Fresh(s)
  PROVE  NextSession \in Session /\ Fresh(NextSession)
<1> DEFINE T == {s \in Session : Fresh(s)}
<1>1. Session \subseteq Nat
  BY BeaconOK, FS_CardinalityType
<1>2. T \subseteq Nat /\ T # {}
  BY <1>1
<1> HIDE DEF T
<1>3. PICK least \in T : \A y \in T : ~ (<<y, least>> \in OpToRel(<, Nat))
  BY <1>2, NatLessThanWellFounded, WFMin
<1>4. ASSUME NEW y \in T PROVE least <= y
  <2>1. y \in Nat /\ least \in Nat
    BY <1>2
  <2>2. ~ (<<y, least>> \in OpToRel(<, Nat))
    BY <1>3
  <2>3. ~ (y < least)
    BY <2>1, <2>2 DEF OpToRel
  <2> QED
    BY <2>1, <2>3
<1>5. \E s \in Session : Fresh(s) /\ \A r \in Session : Fresh(r) => s <= r
  BY <1>3, <1>4 DEF T
<1> QED
  BY <1>5 DEF NextSession

(* Time, and the numbers of events, go up. *)
LEMMA DatesCarried ==
  ASSUME Types, now' \in Nat, now <= now', count' \in Nat, count <= count'
  PROVE  /\ \A at : Good(at) \subseteq Good(at)' /\ Kind(at) \subseteq Kind(at)'
         /\ Good(now) \subseteq Good(now') /\ Kind(now) \subseteq Kind(now')
         /\ Issued \subseteq Issued' /\ File \subseteq File'
<1>1. now \in Nat /\ LastId \in Nat /\ LastId' \in Nat /\ LastId <= LastId'
  BY DEF Types, LastId
<1> DEFINE p == LastId
           q == LastId'
           m == now'
<1>2. /\ now \in Nat /\ m \in Nat /\ now <= m
      /\ p \in Nat /\ q \in Nat /\ p <= q
  BY <1>1
<1> HIDE DEF p, q, m
<1>3. /\ DatedStores(now, p, now) \subseteq DatedStores(m, q, m)
      /\ DatedEvents(now, p, now) \subseteq DatedEvents(m, q, m)
  BY <1>2, DatesLater
<1>4. \A at : Good(at) \subseteq Good(at)' /\ Kind(at) \subseteq Kind(at)'
  BY <1>3 DEF Good, Kind, p, q, m
<1>6. Good(now) \subseteq Good(now') /\ Kind(now) \subseteq Kind(now')
  <2>1. now <= now' /\ now' \in Nat
    OBVIOUS
  <2>2. ASSUME NEW s \in Good(now) PROVE s \in Good(now')
    <3>1. s.row # NoRow => s.row.updatedAt \in Nat
      BY DEF Good, DatedStores, Store, Row
    <3> QED
      BY <1>1, <2>1, <3>1 DEF Good
  <2>3. ASSUME NEW e \in Kind(now) PROVE e \in Kind(now')
    <3>1. e.at \in Nat
      BY DEF Kind, DatedEvents, PostedEvent
    <3> QED
      BY <1>1, <2>1, <3>1 DEF Kind
  <2> QED
    BY <2>2, <2>3
<1>5. 1..now \subseteq 1..now'
  BY <1>1
<1> QED
  BY <1>4, <1>5, <1>6 DEF Issued, File

LEMMA ArriveStep ==
  ASSUME IInv, NEW c \in commands, Arrive(c)
  PROVE  IInv'
<1> DEFINE s == c.session
           d == [c EXCEPT !.step = "answered"]
           t == IngestEvents(stores[s], c.events)
<1>1. /\ c \in Issued /\ c.events \in Seq(Kind(c.at)) /\ s \in Session /\ c.at \in 1..now
      /\ stores[s] \in Good(now) /\ now \in Nat /\ c.at \in Nat /\ \E len \in 1..2 : Len(c.events) = len
  BY DEF IInv, Types, Issued
<1>2. t \in Good(now)
  <2>1. Kind(c.at) \subseteq Kind(now)
    <3>1. \A e \in Kind(c.at) : e.at \in Nat
      BY DEF Kind, DatedEvents, PostedEvent
    <3> QED
      BY <1>1, <3>1 DEF Kind
  <2>2. c.events \in Seq(Kind(now))
    BY <1>1, <2>1, SeqMonotonic
  <2> QED
    BY <1>1, <2>2, GoodBatch DEF IInv
<1>3. /\ d \in Issued /\ d.session = s /\ d.events = c.events /\ d.at = c.at
      /\ d.alone = c.alone /\ d.name = c.name /\ d.step = "answered"
  BY <1>1 DEF Issued, Step
<1>4. /\ stores' = [stores EXCEPT ![s] = t]
      /\ commands' = (commands \ {c}) \cup {d}
      /\ UNCHANGED <<now, file, count, closed>>
  BY DEF Arrive
<1>5. /\ stores' = [r \in Session |-> stores'[r]]
      /\ stores'[s] = t
      /\ \A r \in Session : r # s => stores'[r] = stores[r]
  BY <1>1, <1>4 DEF IInv, Types
<1>6. /\ now' = now /\ Issued' = Issued /\ File' = File
      /\ \A at : Good(at)' = Good(at) /\ Kind(at)' = Kind(at)
  BY <1>4 DEF Good, Kind, Issued, File, LastId
<1>7. \A x \in commands' : x = d \/ (x \in commands /\ x # c)
  BY <1>4
<1> HIDE DEF d, t
<1>8. Types'
  <2>1. \A r \in Session : stores'[r] \in Good(now)
    BY <1>2, <1>5 DEF IInv, Types
  <2>2. \A x \in commands' : x \in Issued /\ x.events \in Seq(Kind(x.at))
                             /\ \E len \in 1..2 : Len(x.events) = len
    BY <1>1, <1>3, <1>7 DEF IInv, Types
  <2> QED
    BY <1>4, <1>5, <1>6, <2>1, <2>2 DEF IInv, Types
<1>9. Alone'
  <2>1. ASSUME c.alone
        PROVE  /\ commands' = {d} /\ t \in Good(c.at)
               /\ Closing(c) => file # NoFile /\ file.session = s /\ Over(t)
    <3>1. commands = {c} /\ stores[s] \in Good(c.at)
      BY <2>1 DEF IInv, Alone
    <3>2. t \in Good(c.at)
      <4> HIDE DEF s
      <4>1. Types
        BY DEF IInv
      <4> QED
        BY <1>1, <3>1, <4>1, GoodBatch DEF t
    <3>3. ASSUME Closing(c)
          PROVE  file # NoFile /\ file.session = s /\ Over(t)
      <4>1. file # NoFile /\ file.session = s
        BY <2>1, <3>3 DEF IInv, Alone
      <4>2. PICK e \in Kind(c.at) : c.events = <<e>> /\ e.at = c.at /\ Farewell(e)
        BY <3>3 DEF IInv, Alone
      <4>3. Over(IngestEvents(stores[s], <<e>>))
        BY <1>1, <3>1, <4>2, FarewellEnds DEF IInv
      <4> QED
        BY <4>1, <4>2, <4>3 DEF t
    <3> QED
      BY <1>4, <3>1, <3>2, <3>3
  <2>2. Closing(d) <=> Closing(c)
    BY <1>3 DEF Closing
  <2>3. Closing(d) => \E e \in Kind(d.at) : d.events = <<e>> /\ e.at = d.at /\ Farewell(e)
    BY <1>3, <2>2 DEF IInv, Alone
  <2>4. ASSUME NEW x \in commands, x # c
        PROVE  /\ ~x.alone
               /\ Closing(x) => \E e \in Kind(x.at) : x.events = <<e>> /\ e.at = x.at /\ Farewell(e)
    BY <2>4 DEF IInv, Alone
  <2>5. ASSUME NEW x \in commands'
        PROVE  /\ x.alone => commands' = {x} /\ stores'[x.session] \in Good(x.at)
               /\ Closing(x) => \E e \in Kind(x.at) : x.events = <<e>> /\ e.at = x.at /\ Farewell(e)
               /\ Closing(x) /\ x.alone => /\ file # NoFile /\ file.session = x.session
                                           /\ x.step # "posted" => Over(stores'[x.session])
    <3>1. CASE x = d
      <4>1. d.alone => commands' = {d} /\ stores'[d.session] \in Good(d.at)
        BY <1>3, <1>5, <2>1
      <4>2. Closing(d) /\ d.alone => file # NoFile /\ file.session = d.session /\ Over(stores'[d.session])
        BY <1>3, <1>5, <2>1, <2>2
      <4> QED
        BY <2>3, <3>1, <4>1, <4>2
    <3>2. CASE x # d
      BY <1>7, <2>4, <3>2
    <3> QED
      BY <3>1, <3>2
  <2> QED
    BY <1>4, <1>6, <2>5 DEF Alone, Closing
<1>10. Closed'
  <2>1. s \notin closed
    BY DEF IInv, Closed
  <2> QED
    BY <1>3, <1>4, <1>5, <1>7, <2>1 DEF IInv, Closed
<1> QED
  BY <1>8, <1>9, <1>10 DEF IInv

(* An event of the beacon. *)
LEMMA BeaconPosts ==
  ASSUME Types, count' = count + 1, now' = now, NEW i \in {1, 2}, NEW name \in Command,
         NEW acknowledged \in BOOLEAN
  PROVE  /\ BeaconEvent(i, name, acknowledged) \in Kind(now)'
         /\ BeaconEvent(i, name, acknowledged).at = now
         /\ BeaconEvent(i, name, acknowledged).type = EventTypeForCommand(name)
         /\ BeaconEvent(i, name, acknowledged).note =
              IF acknowledged THEN "acknowledged" ELSE "none"
<1> DEFINE e == BeaconEvent(i, name, acknowledged)
           note == IF acknowledged THEN "acknowledged" ELSE "none"
           type == EventTypeForCommand(name)
           id == 2 * count + i
<1>1. now \in Nat /\ now \in 1..now' /\ now' \in Nat /\ LastId' \in Nat /\ id \in 0..LastId'
      /\ id \in Nat
  BY DEF Types, LastId
<1>2. type \in EventType
  BY DEF EventTypeForCommand, Command, EventType, Passthrough, MeaningfulEvents
<1>3. note \in Note
  BY DEF Note
<1>4. e = [id |-> id, at |-> now, type |-> type, note |-> note, from |-> Beacon, task |-> FALSE]
  BY DEF BeaconEvent
<1> HIDE DEF e, note, type, id
<1>5. FALSE \in BOOLEAN
  OBVIOUS
<1>6. /\ e \in PostedEvent /\ e.id = id /\ e.at = now /\ e.type = type /\ e.note = note
      /\ e.from = Beacon /\ ~e.task
  BY <1>1, <1>2, <1>3, <1>4, <1>5, BeaconNamed DEF PostedEvent
<1>7. e \in DatedEvents(now', LastId', now')
  BY <1>1, <1>6 DEF DatedEvents
<1>8. e \in Kind(now)'
  BY <1>1, <1>6, <1>7 DEF Kind
<1> QED
  BY <1>6, <1>8 DEF e, note, type

LEMMA Joined ==
  ASSUME NEW a, NEW b
  PROVE  <<a>> \o <<>> = <<a>> /\ <<a>> \o <<b>> = <<a, b>>
<1>1. <<a>> \in Seq({a, b})
  OBVIOUS
<1>2. <<a>> \o <<>> = <<a>>
  BY <1>1, ConcatEmptySeq
<1> DEFINE both == <<a>> \o <<b>>
<1>3. <<a>> \in Seq({a, b}) /\ <<b>> \in Seq({a, b}) /\ <<a, b>> \in Seq({a, b})
      /\ Len(<<a>>) = 1 /\ Len(<<b>>) = 1 /\ Len(<<a, b>>) = 2
      /\ <<a>>[1] = a /\ <<b>>[1] = b /\ <<a, b>>[1] = a /\ <<a, b>>[2] = b
  OBVIOUS
<1>4. /\ both \in Seq({a, b})
      /\ Len(both) = Len(<<a>>) + Len(<<b>>)
      /\ \A i \in 1 .. Len(<<a>>) + Len(<<b>>) :
           both[i] = IF i <= Len(<<a>>) THEN <<a>>[i] ELSE <<b>>[i - Len(<<a>>)]
  BY <1>3, ConcatProperties
<1> HIDE DEF both
<1>5. Len(both) = 2 /\ 1 \in 1..Len(<<a>>) + Len(<<b>>) /\ 2 \in 1..Len(<<a>>) + Len(<<b>>)
      /\ 1 <= Len(<<a>>) /\ ~(2 <= Len(<<a>>)) /\ 2 - Len(<<a>>) = 1
  BY <1>3, <1>4
<1>6. both[1] = a /\ both[2] = b
  BY <1>3, <1>4, <1>5
<1>7. \A i \in 1 .. Len(both) : both[i] = <<a, b>>[i]
  BY <1>3, <1>5, <1>6
<1>8. both = <<a, b>>
  BY <1>3, <1>4, <1>5, <1>7, SeqEqual
<1> QED
  BY <1>2, <1>8 DEF both

LEMMA DisturbedIs ==
  ASSUME NEW c \in Issued
  PROVE  LET d == [c EXCEPT !.alone = FALSE]
         IN /\ d \in Issued /\ ~d.alone /\ d.events = c.events /\ d.at = c.at
            /\ d.name = c.name /\ d.session = c.session
<1>1. FALSE \in BOOLEAN
  OBVIOUS
<1> QED
  BY <1>1 DEF Issued

(* What a command that begins puts among the commands. *)
LEMMA RunIs ==
  ASSUME IInv, NEW name \in Command \cup {"status"}, NEW given \in PrimaryStatuses \cup {"none"},
         given = "none" \/ name \in Heeding, name = "status" => given # "none",
         NEW force \in BOOLEAN, Run(name, given, force)
  PROVE  \E d \in Issued' :
           /\ commands' = Disturbed(commands) \cup {d}
           /\ d.events \in Seq(Kind(d.at)') /\ \E len \in 1..2 : Len(d.events) = len
           /\ d.at = now /\ (d.alone <=> commands = {}) /\ d.step = "posted"
           /\ d.session \notin closed
           /\ Closing(d) => /\ file # NoFile /\ file.session = d.session
                            /\ \E e \in Kind(d.at)' : d.events = <<e>> /\ e.at = d.at /\ Farewell(e)
<1> DEFINE opens == name = "start" \/ file = NoFile
           posts == IF name = "status" THEN CommandForCompatibilityStatus(given) ELSE name
           first == IF opens THEN "start" ELSE posts
           status == IF given # "none" THEN given
                     ELSE StatusForTelemetryCommand(name, file.status)
           session == IF opens THEN NextSession ELSE file.session
           one == BeaconEvent(1, first, name = "complete")
           two == BeaconEvent(2, "heartbeat", FALSE)
           rest == IF name = "begin" THEN <<two>> ELSE <<>>
           events == <<one>> \o rest
<1>1. /\ count' = count + 1 /\ now' = now /\ stores' = stores /\ file' = file /\ closed' = closed
      /\ file = NoFile => name \in {"start", "begin"}
      /\ opens => \E s \in Session : Fresh(s)
      /\ commands' = Disturbed(commands) \cup
           {[number |-> count, at |-> now, step |-> "posted", alone |-> commands = {},
             status |-> status, session |-> session, name |-> name, events |-> events]}
  BY DEF Run
<1>2. posts \in Command /\ first \in Command
  BY DEF CommandForCompatibilityStatus, Command, PrimaryStatuses, ShownStatus
<1>3. status \in PrimaryStatuses
  <2>1. file # NoFile => file.status \in PrimaryStatuses
    BY DEF IInv, Types, File
  <2>2. file = NoFile => name \in {"start", "begin"}
    BY <1>1
  <2> QED
    BY <2>1, <2>2 DEF StatusForTelemetryCommand, Command, PrimaryStatuses, ShownStatus
<1>4. session \in Session /\ session \notin closed
  <2>1. CASE opens
    <3>1. NextSession \in Session /\ stores[NextSession] = EmptyStore
      BY <1>1, <2>1, FreshSession DEF IInv, Fresh
    <3>2. ~Over(EmptyStore)
      BY DEF Over, EmptyStore
    <3> QED
      BY <2>1, <3>1, <3>2 DEF IInv, Closed
  <2>2. CASE ~opens
    BY <2>2 DEF IInv, Types, File, Closed
  <2> QED
    BY <2>1, <2>2
<1>5. (name = "complete") \in BOOLEAN /\ FALSE \in BOOLEAN /\ "heartbeat" \in Command
  BY DEF Command
<1>6. /\ one \in Kind(now)' /\ one.at = now /\ one.type = EventTypeForCommand(first)
      /\ one.note = IF name = "complete" THEN "acknowledged" ELSE "none"
      /\ two \in Kind(now)'
  BY <1>1, <1>2, <1>5, BeaconPosts DEF IInv
<1>8. name \in {"complete", "park"} =>
        /\ file # NoFile /\ session = file.session /\ events = <<one>>
        /\ Farewell(one)
  <2>1. ASSUME name \in {"complete", "park"}
        PROVE  file # NoFile /\ ~opens /\ given = "none" /\ first = name
    BY <1>1, <2>1 DEF Heeding
  <2>2. EventTypeForCommand("complete") = "session.ended"
        /\ EventTypeForCommand("park") = "session.parked"
    BY DEF EventTypeForCommand
  <2>3. name \in {"complete", "park"} => rest = <<>>
    OBVIOUS
  <2>4. name \in {"complete", "park"} => events = <<one>>
    BY <2>3, Joined
  <2> QED
    BY <1>6, <2>1, <2>2, <2>4 DEF Farewell
<1> HIDE DEF one, two
<1>9. events \in Seq(Kind(now)') /\ events \in Seq(PostedEvent)
      /\ \E len \in 1..2 : Len(events) = len
  <2>1. \A e \in Kind(now)' : e \in PostedEvent
    BY DEF Kind, DatedEvents
  <2>2. CASE name = "begin"
    <3>1. events = <<one, two>>
      BY <2>2, Joined
    <3> QED
      BY <1>6, <2>1, <3>1
  <2>3. CASE name # "begin"
    <3>1. events = <<one>>
      BY <2>3, Joined
    <3> QED
      BY <1>6, <2>1, <3>1
  <2> QED
    BY <2>2, <2>3
<1> HIDE DEF opens, posts, first, status, session, rest, events
<1>10. PICK b \in BOOLEAN : b <=> commands = {}
  OBVIOUS
<1> DEFINE d == [number |-> count, at |-> now, step |-> "posted", alone |-> b, status |-> status,
                 session |-> session, name |-> name, events |-> events]
<1>11. commands' = Disturbed(commands) \cup {d}
  BY <1>1, <1>10
<1>12. /\ d \in Issued' /\ d.at = now /\ d.alone = b /\ d.step = "posted" /\ d.session = session
       /\ d.name = name /\ d.events = events /\ d.status = status
  <2>1. count \in Nat /\ now \in 1..now' /\ "posted" \in Step
    BY <1>1 DEF IInv, Types, Step
  <2> QED
    BY <1>3, <1>4, <1>9, <1>10, <2>1 DEF Issued
<1> HIDE DEF d
<1>13. PICK new \in Issued' : new = d
  BY <1>12
<1>14. Kind(new.at)' = Kind(now)'
  <2>1. now' = new.at
    BY <1>1, <1>12, <1>13
  <2> QED
    BY <2>1 DEF Kind
<1>15. Closing(new) => /\ file # NoFile /\ file.session = new.session
                       /\ \E e \in Kind(new.at)' : new.events = <<e>> /\ e.at = new.at /\ Farewell(e)
  <2> SUFFICES ASSUME Closing(new)
               PROVE  /\ file # NoFile /\ file.session = new.session
                      /\ \E e \in Kind(new.at)' : new.events = <<e>> /\ e.at = new.at /\ Farewell(e)
    OBVIOUS
  <2>1. name \in {"complete", "park"}
    BY <1>12, <1>13 DEF Closing
  <2>2. PICK e \in Kind(now)' : e = one
    BY <1>6
  <2>3. new.events = <<e>> /\ e.at = new.at /\ Farewell(e)
    BY <1>6, <1>8, <1>12, <1>13, <2>1, <2>2
  <2> QED
    BY <1>8, <1>12, <1>13, <1>14, <2>1, <2>3
<1>16. new.events \in Seq(Kind(new.at)') /\ \E len \in 1..2 : Len(new.events) = len
  BY <1>9, <1>12, <1>13, <1>14
<1>17. new.alone <=> commands = {}
  BY <1>10, <1>12, <1>13
<1>18. commands' = Disturbed(commands) \cup {new} /\ new.at = now /\ new.step = "posted"
       /\ new.session \notin closed
  BY <1>4, <1>11, <1>12, <1>13
<1> QED
  BY <1>15, <1>16, <1>17, <1>18

LEMMA RunStep ==
  ASSUME IInv, NEW name \in Command \cup {"status"}, NEW given \in PrimaryStatuses \cup {"none"},
         given = "none" \/ name \in Heeding, name = "status" => given # "none",
         NEW force \in BOOLEAN, Run(name, given, force)
  PROVE  IInv'
<1>1. /\ now' = now /\ count' = count + 1 /\ UNCHANGED <<stores, file, closed>>
      /\ now \in Nat /\ count \in Nat
  BY DEF Run, IInv, Types
<1>2. PICK new \in Issued' :
        /\ commands' = Disturbed(commands) \cup {new}
        /\ new.events \in Seq(Kind(new.at)') /\ \E len \in 1..2 : Len(new.events) = len
        /\ new.at = now /\ (new.alone <=> commands = {}) /\ new.step = "posted"
        /\ new.session \notin closed
        /\ Closing(new) => /\ file # NoFile /\ file.session = new.session
                           /\ \E e \in Kind(new.at)' : new.events = <<e>> /\ e.at = new.at /\ Farewell(e)
  BY RunIs
<1>3. /\ \A at : Good(at) \subseteq Good(at)' /\ Kind(at) \subseteq Kind(at)'
      /\ Good(now) \subseteq Good(now') /\ Issued \subseteq Issued' /\ File \subseteq File'
  <2>1. now' \in Nat /\ now <= now' /\ count' \in Nat /\ count <= count'
    BY <1>1
  <2> QED
    BY <2>1, DatesCarried DEF IInv
<1>4. ASSUME NEW x \in commands', x # new
      PROVE  /\ x \in Issued' /\ x.events \in Seq(Kind(x.at)')
             /\ \E len \in 1..2 : Len(x.events) = len
             /\ ~x.alone /\ x.session \notin closed
             /\ Closing(x) => \E e \in Kind(x.at)' : x.events = <<e>> /\ e.at = x.at /\ Farewell(e)
  <2>1. PICK c \in commands : x = [c EXCEPT !.alone = FALSE]
    BY <1>2, <1>4 DEF Disturbed
  <2>2. /\ c \in Issued /\ c.events \in Seq(Kind(c.at)) /\ \E len \in 1..2 : Len(c.events) = len
        /\ c.session \notin closed
        /\ Closing(c) => \E e \in Kind(c.at) : c.events = <<e>> /\ e.at = c.at /\ Farewell(e)
    BY DEF IInv, Types, Alone, Closed
  <2>3. /\ x \in Issued /\ ~x.alone /\ x.events = c.events /\ x.at = c.at
        /\ x.name = c.name /\ x.session = c.session
    BY <2>1, <2>2, DisturbedIs
  <2>4. Kind(c.at) \subseteq Kind(c.at)' /\ Kind(x.at)' = Kind(c.at)'
    <3>1. PICK at : at = c.at /\ at = x.at
      BY <2>3
    <3> QED
      BY <1>3, <3>1
  <2>5. x.events \in Seq(Kind(x.at)')
    BY <2>2, <2>3, <2>4, SeqMonotonic
  <2> QED
    BY <1>3, <2>2, <2>3, <2>4, <2>5 DEF Closing
<1>5. Types'
  <2>1. \A s \in Session : stores'[s] \in Good(now')
    <3>1. \A s \in Session : stores[s] \in Good(now)
      BY DEF IInv, Types
    <3> QED
      BY <1>1, <1>3, <3>1
  <2>2. file' # NoFile => file' \in File'
    BY <1>1, <1>3 DEF IInv, Types
  <2>3. \A x \in commands' : x \in Issued' /\ x.events \in Seq(Kind(x.at)')
                             /\ \E len \in 1..2 : Len(x.events) = len
    BY <1>2, <1>4
  <2>4. now' \in Nat /\ now' # 0 /\ count' \in Nat /\ stores' = [s \in Session |-> stores'[s]]
    BY <1>1 DEF IInv, Types
  <2>5. \A s \in Session : stores'[s] \in Good(now)'
    <3>1. PICK at : at = now'
      OBVIOUS
    <3>2. Good(at) \subseteq Good(at)' /\ \A s \in Session : stores'[s] \in Good(at)
      BY <1>3, <2>1, <3>1
    <3>3. Good(at)' = Good(now)'
      BY <3>1 DEF Good
    <3> QED
      BY <3>2, <3>3
  <2>6. \A x \in commands' : x.events \in Seq(Kind(x.at))'
    BY <2>3 DEF Kind
  <2> QED
    BY <2>2, <2>3, <2>4, <2>5, <2>6 DEF Types
<1>6. Alone'
  <2>1. new.alone => commands' = {new} /\ stores'[new.session] \in Good(new.at)'
    <3> SUFFICES ASSUME new.alone PROVE commands' = {new} /\ stores'[new.session] \in Good(new.at)'
      OBVIOUS
    <3>1. commands' = {new}
      BY <1>2 DEF Disturbed
    <3>2. new.session \in Session
      BY DEF Issued
    <3>3. PICK at : at = new.at /\ at = now
      BY <1>2
    <3> QED
      BY <1>1, <1>3, <3>1, <3>2, <3>3 DEF IInv, Types
  <2>2. ASSUME NEW x \in commands'
        PROVE  /\ x.alone => commands' = {x} /\ stores'[x.session] \in Good(x.at)'
               /\ Closing(x) => \E e \in Kind(x.at)' : x.events = <<e>> /\ e.at = x.at /\ Farewell(e)
               /\ Closing(x) /\ x.alone => /\ file' # NoFile /\ file'.session = x.session
                                           /\ x.step # "posted" => Over(stores'[x.session])
    <3>1. CASE x = new
      BY <1>1, <1>2, <2>1, <3>1
    <3>2. CASE x # new
      BY <1>4, <3>2
    <3> QED
      BY <3>1, <3>2
  <2> QED
    BY <2>2 DEF Alone, Closing
<1>7. Closed'
  <2>1. \A x \in commands' : x.session \notin closed
    BY <1>2, <1>4
  <2> QED
    BY <1>1, <2>1 DEF IInv, Closed
<1> QED
  BY <1>5, <1>6, <1>7 DEF IInv

LEMMA VerifyStep ==
  ASSUME IInv, NEW c \in commands, Verify(c)
  PROVE  IInv'
<1> DEFINE d == [c EXCEPT !.step = "verified"]
<1>1. /\ commands' = (commands \ {c}) \cup {d} /\ c.step = "answered" /\ c \in Issued
      /\ UNCHANGED <<now, file, stores, count, closed>>
  BY DEF Verify, IInv, Types
<1>2. /\ d \in Issued /\ d.session = c.session /\ d.events = c.events /\ d.at = c.at
      /\ d.alone = c.alone /\ d.name = c.name /\ d.step = "verified"
  BY <1>1 DEF Issued, Step
<1>3. /\ Issued' = Issued /\ File' = File
      /\ \A at : Good(at)' = Good(at) /\ Kind(at)' = Kind(at)
  BY <1>1 DEF Good, Kind, Issued, File, LastId
<1>4. \A x \in commands' : x = d \/ (x \in commands /\ x # c)
  BY <1>1
<1> HIDE DEF d
<1>5. Types'
  <2>1. \A x \in commands' : x \in Issued /\ x.events \in Seq(Kind(x.at))
                             /\ \E len \in 1..2 : Len(x.events) = len
    BY <1>2, <1>4 DEF IInv, Types
  <2> QED
    BY <1>1, <1>3, <2>1 DEF IInv, Types
<1>6. Alone'
  <2>1. ASSUME NEW x \in commands'
        PROVE  /\ x.alone => commands' = {x} /\ stores[x.session] \in Good(x.at)
               /\ Closing(x) => \E e \in Kind(x.at) : x.events = <<e>> /\ e.at = x.at /\ Farewell(e)
               /\ Closing(x) /\ x.alone => /\ file # NoFile /\ file.session = x.session
                                           /\ x.step # "posted" => Over(stores[x.session])
    <3>1. CASE x = d
      <4>1. d.alone => commands = {c} /\ stores[d.session] \in Good(d.at)
        BY <1>2 DEF IInv, Alone
      <4>2. Closing(c) <=> Closing(d)
        BY <1>2 DEF Closing
      <4>3. Closing(d) => \E e \in Kind(d.at) : d.events = <<e>> /\ e.at = d.at /\ Farewell(e)
        BY <1>2, <4>2 DEF IInv, Alone
      <4>4. Closing(d) /\ d.alone => /\ file # NoFile /\ file.session = d.session
                                     /\ Over(stores[d.session])
        BY <1>1, <1>2, <4>2 DEF IInv, Alone
      <4>5. d.alone => commands' = {d}
        BY <1>1, <4>1
      <4> QED
        BY <3>1, <4>1, <4>3, <4>4, <4>5
    <3>2. CASE x # d
      <4>1. x \in commands /\ x # c
        BY <1>4, <3>2
      <4> QED
        BY <4>1 DEF IInv, Alone
    <3> QED
      BY <3>1, <3>2
  <2> QED
    BY <1>1, <1>3, <2>1 DEF Alone, Closing
<1>7. Closed'
  BY <1>1, <1>2, <1>4 DEF IInv, Closed
<1> QED
  BY <1>5, <1>6, <1>7 DEF IInv

LEMMA FewerCommands ==
  ASSUME IInv, commands' \subseteq commands, UNCHANGED <<now, stores, count>>,
         file' # NoFile => /\ file' \in File /\ file'.session \notin closed'
                           /\ \A c \in commands' : c.alone /\ Closing(c) => file' = file,
         file' = NoFile => \A c \in commands' : c.alone => file = NoFile,
         \A s \in closed' : /\ s \in Session /\ Over(stores[s])
                            /\ \A c \in commands' : c.session # s
  PROVE  IInv'
<1>1. /\ Issued' = Issued /\ File' = File
      /\ \A at : Good(at)' = Good(at) /\ Kind(at)' = Kind(at)
  BY DEF Good, Kind, Issued, File, LastId
<1>2. Types'
  BY <1>1 DEF IInv, Types
<1>3. Alone'
  <2>1. ASSUME NEW x \in commands'
        PROVE  /\ x.alone => commands' = {x} /\ stores[x.session] \in Good(x.at)
               /\ Closing(x) => \E e \in Kind(x.at) : x.events = <<e>> /\ e.at = x.at /\ Farewell(e)
               /\ Closing(x) /\ x.alone => /\ file' # NoFile /\ file'.session = x.session
                                           /\ x.step # "posted" => Over(stores[x.session])
    <3>1. x \in commands
      OBVIOUS
    <3>2. Closing(x) /\ x.alone => /\ file # NoFile /\ file.session = x.session
                                   /\ x.step # "posted" => Over(stores[x.session])
      BY <3>1 DEF IInv, Alone
    <3>3. x.alone => commands' = {x} /\ stores[x.session] \in Good(x.at)
      BY <3>1 DEF IInv, Alone
    <3>4. Closing(x) => \E e \in Kind(x.at) : x.events = <<e>> /\ e.at = x.at /\ Farewell(e)
      BY <3>1 DEF IInv, Alone
    <3>5. ASSUME Closing(x), x.alone
          PROVE  /\ file' # NoFile /\ file'.session = x.session
                 /\ x.step # "posted" => Over(stores[x.session])
      <4>1. file # NoFile /\ file.session = x.session
            /\ (x.step # "posted" => Over(stores[x.session]))
        BY <3>2, <3>5
      <4>2. file' # NoFile
        BY <3>5, <4>1
      <4>3. file' = file
        BY <3>5, <4>2
      <4> QED
        BY <4>1, <4>2, <4>3
    <3> QED
      BY <3>3, <3>4, <3>5
  <2> QED
    BY <1>1, <2>1 DEF Alone, Closing
<1>4. Closed'
  BY DEF Closed
<1> QED
  BY <1>2, <1>3, <1>4 DEF IInv

LEMMA FinishStep ==
  ASSUME IInv, NEW c \in commands, Finish(c)
  PROVE  IInv'
<1>1. /\ commands' = commands \ {c} /\ c.step = "verified" /\ c \in Issued
      /\ UNCHANGED <<now, stores, count>>
      /\ c.session \in Session /\ c.at \in 1..now /\ c.status \in PrimaryStatuses
      /\ c.session \notin closed
  BY DEF Finish, IInv, Types, Issued, Closed
<1>2. \A x \in commands' : ~x.alone
  BY <1>1 DEF IInv, Alone
<1>3. CASE Closing(c)
  <2>1. /\ file' = NoFile
        /\ closed' = IF c.alone THEN closed \cup {c.session} ELSE closed
    BY <1>3 DEF Finish, Closing
  <2>2. CASE c.alone
    <3>1. commands = {c} /\ file # NoFile /\ file.session = c.session /\ Over(stores[c.session])
      BY <1>1, <1>3, <2>2 DEF IInv, Alone
    <3>2. commands' = {} /\ file' = NoFile /\ closed' = closed \cup {c.session}
      BY <1>1, <2>1, <2>2, <3>1
    <3>3. \A s \in closed' : s \in Session /\ Over(stores[s])
      BY <1>1, <3>1, <3>2 DEF IInv, Closed
    <3> QED
      BY <1>1, <3>2, <3>3, FewerCommands
  <2>3. CASE ~c.alone
    <3>1. closed' = closed /\ file' = NoFile
      BY <2>1, <2>3
    <3>3. \A s \in closed' : /\ s \in Session /\ Over(stores[s])
                             /\ \A x \in commands' : x.session # s
      BY <1>1, <3>1 DEF IInv, Closed
    <3> QED
      BY <1>1, <1>2, <3>1, <3>3, FewerCommands
  <2> QED
    BY <2>2, <2>3
<1>4. CASE ~Closing(c)
  <2>1. file' = [session |-> c.session, status |-> c.status, at |-> c.at] /\ closed' = closed
    BY <1>4 DEF Finish, Closing
  <2>2. file' \in File /\ file'.session \notin closed'
    BY <1>1, <2>1 DEF File
  <2>3. \A s \in closed' : /\ s \in Session /\ Over(stores[s])
                           /\ \A x \in commands' : x.session # s
    BY <1>1, <2>1 DEF IInv, Closed
  <2> QED
    BY <1>1, <1>2, <2>2, <2>3, FewerCommands
<1> QED
  BY <1>3, <1>4

LEMMA FailStep ==
  ASSUME IInv, NEW c \in commands, Fail(c)
  PROVE  IInv'
<1>1. commands' \subseteq commands /\ UNCHANGED <<now, stores, count, file, closed>>
  BY DEF Fail
<1>2. \A x \in commands' : ~x.alone
  BY DEF Fail, IInv, Alone
<1>3. file' # NoFile => file' \in File /\ file'.session \notin closed'
  BY <1>1 DEF IInv, Types, Closed
<1>4. \A s \in closed' : /\ s \in Session /\ Over(stores[s])
                         /\ \A x \in commands' : x.session # s
  BY <1>1 DEF IInv, Closed
<1> QED
  BY <1>1, <1>2, <1>3, <1>4, FewerCommands

LEMMA ApiRestartStep ==
  ASSUME IInv, ApiRestart
  PROVE  IInv'
<1>1. /\ stores' = [s \in Session |-> Reconciled(stores[s], now)]
      /\ UNCHANGED <<now, file, count, closed>>
      /\ stores' = stores => commands' = commands
      /\ stores' # stores => commands' = Disturbed(commands)
  BY DEF ApiRestart
<1>2. /\ Issued' = Issued /\ File' = File
      /\ \A at : Good(at)' = Good(at) /\ Kind(at)' = Kind(at)
  BY <1>1 DEF Good, Kind, Issued, File, LastId
<1>3. /\ \A s \in Session : stores'[s] \in Good(now)
      /\ \A s \in Session : Over(stores[s]) => Over(stores'[s])
      /\ stores' = [s \in Session |-> stores'[s]]
  <2>1. ASSUME NEW s \in Session
        PROVE  /\ Reconciled(stores[s], now) \in Good(now)
               /\ Over(stores[s]) => Reconciled(stores[s], now) = stores[s]
    <3>1. Types /\ now \in Nat /\ stores[s] \in Good(now)
      BY DEF IInv, Types
    <3> QED
      BY <3>1, ReconciledIs
  <2> QED
    BY <1>1, <2>1
<1>4. CASE stores' = stores
  <2>1. commands' = commands
    BY <1>1, <1>4
  <2> QED
    BY <1>1, <1>2, <1>4, <2>1 DEF IInv, Types, Alone, Closed, Closing
<1>5. CASE stores' # stores
  <2>1. commands' = Disturbed(commands)
    BY <1>1, <1>5
  <2>2. ASSUME NEW x \in commands'
        PROVE  /\ x \in Issued /\ ~x.alone /\ x.session \notin closed
               /\ x.events \in Seq(Kind(x.at)) /\ \E len \in 1..2 : Len(x.events) = len
               /\ Closing(x) => \E e \in Kind(x.at) : x.events = <<e>> /\ e.at = x.at /\ Farewell(e)
    <3>1. PICK c \in commands : x = [c EXCEPT !.alone = FALSE]
      BY <2>1, <2>2 DEF Disturbed
    <3>2. /\ c \in Issued /\ c.events \in Seq(Kind(c.at)) /\ \E len \in 1..2 : Len(c.events) = len
          /\ c.session \notin closed
          /\ Closing(c) => \E e \in Kind(c.at) : c.events = <<e>> /\ e.at = c.at /\ Farewell(e)
      BY DEF IInv, Types, Alone, Closed
    <3>3. /\ x \in Issued /\ ~x.alone /\ x.events = c.events /\ x.at = c.at
          /\ x.name = c.name /\ x.session = c.session
      BY <3>1, <3>2, DisturbedIs
    <3> QED
      BY <3>2, <3>3 DEF Closing
  <2>3. Types'
    BY <1>1, <1>2, <1>3, <2>2 DEF IInv, Types
  <2>4. Alone'
    BY <1>2, <2>2 DEF Alone, Closing
  <2>5. Closed'
    BY <1>1, <1>3, <2>2 DEF IInv, Closed
  <2> QED
    BY <2>3, <2>4, <2>5 DEF IInv
<1> QED
  BY <1>4, <1>5

LEMMA TimeStep ==
  ASSUME IInv, TimePasses
  PROVE  IInv'
<1>1. now' = now + 1 /\ UNCHANGED <<file, stores, commands, count, closed>>
      /\ now \in Nat /\ count \in Nat
  BY DEF TimePasses, IInv, Types
<1>2. /\ \A at : Good(at) \subseteq Good(at)' /\ Kind(at) \subseteq Kind(at)'
      /\ Good(now) \subseteq Good(now') /\ Issued \subseteq Issued' /\ File \subseteq File'
  <2>1. now' \in Nat /\ now <= now' /\ count' \in Nat /\ count <= count'
    BY <1>1
  <2> QED
    BY <2>1, DatesCarried DEF IInv
<1>3. ASSUME NEW x \in commands
      PROVE  /\ x \in Issued' /\ x.events \in Seq(Kind(x.at)')
             /\ \E len \in 1..2 : Len(x.events) = len
             /\ x.alone => commands = {x} /\ stores[x.session] \in Good(x.at)'
             /\ Closing(x) => \E e \in Kind(x.at)' : x.events = <<e>> /\ e.at = x.at /\ Farewell(e)
  <2>1. PICK at : at = x.at
    OBVIOUS
  <2>2. /\ x \in Issued /\ x.events \in Seq(Kind(at)) /\ \E len \in 1..2 : Len(x.events) = len
        /\ x.alone => commands = {x} /\ stores[x.session] \in Good(at)
        /\ Closing(x) => \E e \in Kind(at) : x.events = <<e>> /\ e.at = x.at /\ Farewell(e)
    BY <2>1 DEF IInv, Types, Alone
  <2>3. Good(at) \subseteq Good(at)' /\ Kind(at) \subseteq Kind(at)'
    BY <1>2
  <2>4. x.events \in Seq(Kind(at)')
    BY <2>2, <2>3, SeqMonotonic
  <2> QED
    BY <1>2, <2>1, <2>2, <2>3, <2>4
<1>4. Types'
  <2>1. \A s \in Session : stores'[s] \in Good(now')
    <3>1. \A s \in Session : stores[s] \in Good(now)
      BY DEF IInv, Types
    <3> QED
      BY <1>1, <1>2, <3>1
  <2>2. \A s \in Session : stores'[s] \in Good(now)'
    <3>1. PICK at : at = now'
      OBVIOUS
    <3>2. Good(at) \subseteq Good(at)' /\ \A s \in Session : stores'[s] \in Good(at)
      BY <1>2, <2>1, <3>1
    <3>3. Good(at)' = Good(now)'
      BY <3>1 DEF Good
    <3> QED
      BY <3>2, <3>3
  <2>3. file' # NoFile => file' \in File'
    BY <1>1, <1>2 DEF IInv, Types
  <2>4. \A x \in commands' : x.events \in Seq(Kind(x.at))' /\ x \in Issued'
                             /\ \E len \in 1..2 : Len(x.events) = len
    BY <1>1, <1>3 DEF Kind
  <2>5. now' \in Nat /\ now' # 0 /\ count' \in Nat /\ stores' = [s \in Session |-> stores'[s]]
    BY <1>1 DEF IInv, Types
  <2> QED
    BY <2>2, <2>3, <2>4, <2>5 DEF Types
<1>5. Alone'
  <2>1. ASSUME NEW x \in commands'
        PROVE  /\ x.alone => commands' = {x} /\ stores'[x.session] \in Good(x.at)'
               /\ Closing(x) => \E e \in Kind(x.at)' : x.events = <<e>> /\ e.at = x.at /\ Farewell(e)
               /\ Closing(x) /\ x.alone => /\ file' # NoFile /\ file'.session = x.session
                                           /\ x.step # "posted" => Over(stores'[x.session])
    <3>1. x \in commands
      BY <1>1, <2>1
    <3>2. Closing(x) /\ x.alone => /\ file # NoFile /\ file.session = x.session
                                   /\ x.step # "posted" => Over(stores[x.session])
      BY <3>1 DEF IInv, Alone
    <3>3. /\ x.alone => commands' = {x} /\ stores'[x.session] \in Good(x.at)'
          /\ Closing(x) => \E e \in Kind(x.at)' : x.events = <<e>> /\ e.at = x.at /\ Farewell(e)
      BY <1>1, <1>3, <3>1
    <3> QED
      BY <1>1, <3>2, <3>3
  <2> QED
    BY <2>1 DEF Alone, Closing
<1>6. Closed'
  BY <1>1 DEF IInv, Closed
<1> QED
  BY <1>4, <1>5, <1>6 DEF IInv

(* What the types and the two parts about commands that run alone say        *)
(* together is kept by every step of the commands, of the API and of time.   *)
THEOREM Invariant == Spec => []IInv
<1>1. Init => IInv
  <2> SUFFICES ASSUME Init PROVE IInv
    OBVIOUS
  <2>1. /\ now = 1 /\ file = NoFile /\ stores = [s \in Session |-> EmptyStore]
        /\ commands = {} /\ count = 0 /\ closed = {}
    BY DEF Init
  <2>2. EmptyStore \in Good(now)
    <3>1. now \in Nat /\ LastId \in Nat
      BY <2>1 DEF LastId
    <3>2. EmptyStore \in DatedStores(now, LastId, now) /\ EmptyStore.row = NoRow
          /\ EmptyStore.processAt = 0
      BY <3>1, EmptyIsDated DEF EmptyStore, DatedStores
    <3> QED
      BY <3>2 DEF Good
  <2>3. Types
    BY <2>1, <2>2 DEF Types
  <2> QED
    BY <2>1, <2>3 DEF IInv, Alone, Closed
<1>2. IInv /\ [Next]_vars => IInv'
  <2> SUFFICES ASSUME IInv, [Next]_vars PROVE IInv'
    OBVIOUS
  <2>1. ASSUME NEW name \in Command, NEW force \in BOOLEAN, Run(name, "none", force)
        PROVE  IInv'
    <3>1. name # "status"
      BY DEF Command
    <3> QED
      BY <2>1, <3>1, RunStep
  <2>2. ASSUME NEW name \in Heeding, NEW given \in PrimaryStatuses, NEW force \in BOOLEAN,
               Run(name, given, force)
        PROVE  IInv'
    <3>1. given # "none" /\ name \in Command \cup {"status"}
      BY DEF PrimaryStatuses, ShownStatus, Heeding, Command
    <3> QED
      BY <2>2, <3>1, RunStep
  <2>3. ASSUME NEW c \in commands, Arrive(c) \/ Verify(c) \/ Finish(c) \/ Fail(c)
        PROVE  IInv'
    BY <2>3, ArriveStep, VerifyStep, FinishStep, FailStep
  <2>4. CASE ApiRestart
    BY <2>4, ApiRestartStep
  <2>5. CASE TimePasses
    BY <2>5, TimeStep
  <2>6. CASE UNCHANGED vars
    <3>1. UNCHANGED <<now, file, stores, commands, count, closed>>
      BY <2>6 DEF vars
    <3>2. /\ Issued' = Issued /\ File' = File
          /\ \A at : Good(at)' = Good(at) /\ Kind(at)' = Kind(at)
      BY <3>1 DEF Good, Kind, Issued, File, LastId
    <3> QED
      BY <3>1, <3>2 DEF IInv, Types, Alone, Closed, Closing
  <2> QED
    BY <2>1, <2>2, <2>3, <2>4, <2>5, <2>6 DEF Next
<1> QED
  BY <1>1, <1>2, PTL DEF Spec

(* A session that a command by itself completed or parked is off the board   *)
(* and stays off it, whatever commands start, overlap, fail or are killed    *)
(* afterwards, and however often the API restarts.                           *)
THEOREM ClosedIsFinal == Spec => []ClosedStaysClosed
<1>1. IInv => ClosedStaysClosed
  BY OverIsOff DEF IInv, Closed, ClosedStaysClosed
<1> QED
  BY <1>1, Invariant, PTL

------------------------------------------------------------------------------
(* The types proper.  The API refuses none of the beacon's events, so it     *)
(* knows the session of every command that it has answered.                  *)
Sound(c) == c.step # "posted" => Begun(c.session)
Counted(them) == IsFiniteSet(them) /\ Cardinality(them) <= MaxAtOnce
Vetted ==
  /\ now \in 1..MaxTime /\ count \in 0..MaxCommands /\ vouched \in BOOLEAN
  /\ Counted(commands)
  /\ \A s \in closed : Begun(s)
  /\ file # NoFile => Begun(file.session)
  /\ \A c \in commands : Sound(c)

LEMMA EventBegins ==
  ASSUME NEW at, NEW s \in Good(at), NEW e \in Kind(at)
  PROVE  Ingested(s, e) # Rejected /\ Ingested(s, e).session.known
<1> DEFINE t == Ingested(s, e)
           f == AsStored(e)
<1>1. s \in Store /\ e \in PostedEvent /\ Dated(s, now, LastId) /\ ~e.task
  BY DEF Good, Kind, DatedStores, DatedEvents
<1>2. CASE SameSwitch(s, f)
  <2>1. t = s
    BY <1>2 DEF Ingested, AsStored
  <2>2. s.session.known
    BY <1>1, <1>2 DEF SameSwitch, Dated
  <2> QED
    BY <1>1, <2>1, <2>2, IngestOK
<1>3. CASE ~SameSwitch(s, f)
  <2>1. ~Orphan(s, f)
    <3>1. ~f.task
      BY <1>1, NormalizedType
    <3> QED
      BY <3>1 DEF Orphan
  <2>2. t # Rejected
    BY <1>1, <1>3, <2>1, EventTaken
  <2>3. TakenIn(s, f, t)
    BY <1>1, <1>3, <2>2, EventIngested
  <2> QED
    BY <2>2, <2>3 DEF TakenIn
<1> QED
  BY <1>2, <1>3

LEMMA BatchBegins ==
  ASSUME Types, NEW at \in Nat, NEW s \in Good(at), NEW batch \in Seq(Kind(at)),
         \E len \in 1..2 : Len(batch) = len
  PROVE  IngestEvents(s, batch).session.known
<1>1. s # Rejected
  BY IngestOK DEF Good, DatedStores
<1>2. CASE Len(batch) = 1
  <2>1. PICK e \in Kind(at) : batch = <<e>>
    BY <1>2, ElementOfSeq
  <2>2. Ingested(s, e) # Rejected /\ Ingested(s, e).session.known
    BY EventBegins
  <2> QED
    BY <1>1, <2>1, <2>2, IngestOne
<1>3. CASE Len(batch) = 2
  <2>1. PICK a \in Kind(at), b \in Kind(at) : batch = <<a, b>>
    BY <1>3, ElementOfSeq
  <2>2. Ingested(s, a) # Rejected
    BY EventBegins
  <2>3. Ingested(s, a) \in Good(at)
    BY <2>2, GoodIngested
  <2>4. Ingested(Ingested(s, a), b) # Rejected /\ Ingested(Ingested(s, a), b).session.known
    BY <2>3, EventBegins
  <2> QED
    BY <1>1, <2>1, <2>2, <2>4, IngestTwo
<1> QED
  BY <1>2, <1>3

LEMMA DisturbedCounts ==
  ASSUME NEW them, IsFiniteSet(them)
  PROVE  IsFiniteSet(Disturbed(them)) /\ Cardinality(Disturbed(them)) <= Cardinality(them)
<1> DEFINE f == [c \in them |-> [c EXCEPT !.alone = FALSE]]
<1>1. f \in Surjection(them, Disturbed(them))
  BY DEF Disturbed, Surjection
<1> QED
  BY <1>1, FS_Surjection

(* Taking a command out, or putting another one in its place. *)
LEMMA ReplacedCounts ==
  ASSUME NEW them, Counted(them), NEW c \in them, NEW d
  PROVE  Counted(them \ {c}) /\ Counted((them \ {c}) \cup {d})
<1>1. /\ IsFiniteSet(them \ {c}) /\ Cardinality(them \ {c}) = Cardinality(them) - 1
  BY FS_RemoveElement DEF Counted
<1>2. /\ IsFiniteSet((them \ {c}) \cup {d})
      /\ \/ Cardinality((them \ {c}) \cup {d}) = Cardinality(them \ {c})
         \/ Cardinality((them \ {c}) \cup {d}) = Cardinality(them \ {c}) + 1
  BY <1>1, FS_AddElement
<1>3. Cardinality(them) \in Nat /\ MaxAtOnce \in Nat
  BY FS_CardinalityType, BeaconOK DEF Counted
<1> QED
  BY <1>1, <1>2, <1>3 DEF Counted

LEMMA RunVets ==
  ASSUME IInv, Vetted, NEW name \in Command \cup {"status"},
         NEW given \in PrimaryStatuses \cup {"none"},
         given = "none" \/ name \in Heeding, name = "status" => given # "none",
         NEW force \in BOOLEAN, Run(name, given, force)
  PROVE  Vetted'
<1>1. PICK new \in Issued' :
        commands' = Disturbed(commands) \cup {new} /\ new.step = "posted"
  BY RunIs
<1>2. /\ count < MaxCommands /\ count' = count + 1 /\ Cardinality(commands) < MaxAtOnce
      /\ file = NoFile => name \in {"start", "begin"}
      /\ vouched' = (vouched /\ commands = {})
      /\ UNCHANGED <<now, file, stores, closed>>
  BY DEF Run
<1>3. Counted(commands')
  <2> DEFINE them == Disturbed(commands)
  <2>1. /\ IsFiniteSet(them) /\ Cardinality(them) <= Cardinality(commands)
        /\ Cardinality(them) \in Nat /\ Cardinality(commands) \in Nat /\ MaxAtOnce \in Nat
    BY DisturbedCounts, FS_CardinalityType, BeaconOK DEF Vetted, Counted
  <2> HIDE DEF them
  <2>2. /\ IsFiniteSet(them \cup {new})
        /\ \/ Cardinality(them \cup {new}) = Cardinality(them)
           \/ Cardinality(them \cup {new}) = Cardinality(them) + 1
    BY <2>1, FS_AddElement
  <2>3. Cardinality(them \cup {new}) \in Nat
    BY <2>2, FS_CardinalityType
  <2>4. Cardinality(them \cup {new}) <= MaxAtOnce
    BY <1>2, <2>1, <2>2, <2>3
  <2> QED
    BY <1>1, <2>2, <2>4 DEF Counted, them
<1>4. Sound(new)'
  BY <1>1 DEF Sound
<1>5. ASSUME NEW x \in Disturbed(commands) PROVE Sound(x)'
  <2>1. PICK c \in commands : x = [c EXCEPT !.alone = FALSE]
    BY DEF Disturbed
  <2>2. c \in Issued /\ Sound(c)
    BY DEF IInv, Types, Vetted
  <2>3. x.name = c.name /\ x.session = c.session /\ x.step = c.step /\ x.status = c.status
    BY <2>1, <2>2 DEF Issued
  <2> QED
    BY <1>2, <2>2, <2>3 DEF Sound, Begun
<1>6. count' \in 0..MaxCommands
  BY <1>2, BeaconOK DEF Vetted
<1>7. vouched' \in BOOLEAN
  BY <1>2
<1> QED
  BY <1>1, <1>2, <1>3, <1>4, <1>5, <1>6, <1>7 DEF Vetted, Begun

LEMMA CommandVets ==
  ASSUME IInv, Vetted, NEW c \in commands, Arrive(c) \/ Verify(c) \/ Finish(c) \/ Fail(c)
  PROVE  Vetted'
<1>0. /\ c \in Issued /\ c.session \in Session /\ stores[c.session] \in Good(now)
      /\ c.step \in Step /\ c.at \in 1..now /\ now \in Nat /\ Sound(c)
      /\ stores = [s \in Session |-> stores[s]]
      /\ c.events \in Seq(Kind(c.at)) /\ \E len \in 1..2 : Len(c.events) = len
  BY DEF IInv, Types, Issued, Vetted
<1>1. CASE Arrive(c)
  <2> DEFINE d == [c EXCEPT !.step = "answered"]
             t == IngestEvents(stores[c.session], c.events)
  <2>1. /\ c.step = "posted" /\ stores' = [stores EXCEPT ![c.session] = t]
        /\ commands' = (commands \ {c}) \cup {d}
        /\ UNCHANGED <<now, file, count, closed, vouched>>
    BY <1>1 DEF Arrive
  <2>2. /\ d.session = c.session /\ d.name = c.name /\ d.status = c.status
        /\ d.step = "answered"
    BY <1>0 DEF Issued
  <2>3. t.session.known
    <3>1. Kind(c.at) \subseteq Kind(now)
      <4>1. \A e \in Kind(c.at) : e.at \in Nat
        BY DEF Kind, DatedEvents, PostedEvent
      <4> QED
        BY <1>0, <4>1 DEF Kind
    <3>2. c.events \in Seq(Kind(now))
      BY <1>0, <3>1, SeqMonotonic
    <3> QED
      BY <1>0, <3>2, BatchBegins DEF IInv
  <2> HIDE DEF t
  <2>4. \A s \in Session : Begun(s) => Begun(s)'
    BY <1>0, <2>1, <2>3 DEF Begun
  <2>5. Begun(c.session)'
    BY <1>0, <2>1, <2>3 DEF Begun
  <2> HIDE DEF d
  <2>6. Counted(commands')
    BY <2>1, ReplacedCounts DEF Vetted
  <2>7. Sound(d)'
    BY <1>0, <2>2, <2>5 DEF Sound, Begun
  <2>8. ASSUME NEW x \in commands PROVE Sound(x)'
    <3>1. x.session \in Session /\ Sound(x)
      BY DEF IInv, Types, Issued, Vetted
    <3> QED
      BY <2>4, <3>1 DEF Sound, Begun
  <2>9. /\ \A s \in closed : Begun(s)'
        /\ file # NoFile => Begun(file.session)'
    BY <2>1, <2>4 DEF IInv, Types, Closed, File, Vetted, Begun
  <2> QED
    BY <2>1, <2>6, <2>7, <2>8, <2>9 DEF Vetted, Begun
<1>2. CASE Verify(c)
  <2> DEFINE d == [c EXCEPT !.step = "verified"]
  <2>1. /\ c.step = "answered" /\ Verified(c)
        /\ commands' = (commands \ {c}) \cup {d}
        /\ UNCHANGED <<now, file, stores, count, closed, vouched>>
    BY <1>2 DEF Verify
  <2>2. /\ d.session = c.session /\ d.name = c.name /\ d.status = c.status
        /\ d.step = "verified"
    BY <1>0 DEF Issued
  <2> HIDE DEF d
  <2>4. Counted(commands')
    BY <2>1, ReplacedCounts DEF Vetted
  <2>5. Sound(d)'
    BY <1>0, <2>1, <2>2 DEF Sound, Begun
  <2>6. \A x \in commands : Sound(x)'
    BY <2>1 DEF Vetted, Sound, Begun
  <2> QED
    BY <2>1, <2>4, <2>5, <2>6 DEF Vetted, Begun
<1>3. CASE Finish(c)
  <2>1. /\ c.step = "verified" /\ commands' = commands \ {c}
        /\ UNCHANGED <<now, stores, count>> /\ vouched' = Vouches(c)
    BY <1>3 DEF Finish
  <2>2. Counted(commands')
    BY <2>1, ReplacedCounts DEF Vetted
  <2>3. \A x \in commands' : Sound(x)'
    BY <2>1 DEF Vetted, Sound, Begun
  <2>4. \A s \in closed' : Begun(s)
    BY <1>0, <1>3, <2>1 DEF Finish, Vetted, Sound
  <2>5. file' # NoFile => Begun(file'.session)
    <3>1. CASE Closing(c)
      BY <1>3, <3>1 DEF Finish, Closing, Vetted
    <3>2. CASE ~Closing(c)
      <4>1. file' = [session |-> c.session, status |-> c.status, at |-> c.at]
        BY <1>3, <3>2 DEF Finish, Closing
      <4> QED
        BY <1>0, <2>1, <3>2, <4>1 DEF Sound
    <3> QED
      BY <3>1, <3>2
  <2>6. vouched' \in BOOLEAN
    BY <2>1 DEF Vouches
  <2> QED
    BY <2>1, <2>2, <2>3, <2>4, <2>5, <2>6 DEF Vetted, Begun
<1>4. CASE Fail(c)
  <2>1. commands' = commands \ {c} /\ vouched' = FALSE
        /\ UNCHANGED <<now, file, stores, count, closed>>
    BY <1>4 DEF Fail
  <2>2. Counted(commands')
    BY <2>1, ReplacedCounts DEF Vetted
  <2>3. \A x \in commands' : Sound(x)'
    BY <2>1 DEF Vetted, Sound, Begun
  <2> QED
    BY <2>1, <2>2, <2>3 DEF Vetted, Begun
<1> QED
  BY <1>1, <1>2, <1>3, <1>4

LEMMA RestartVets ==
  ASSUME IInv, Vetted, ApiRestart
  PROVE  Vetted'
<1>1. /\ stores' = [s \in Session |-> Reconciled(stores[s], now)]
      /\ UNCHANGED <<now, file, count, closed>>
      /\ \/ commands' = commands /\ vouched' = vouched
         \/ commands' = Disturbed(commands) /\ vouched' = FALSE
  BY DEF ApiRestart
<1>2. \A s \in Session : Begun(s) => Begun(s)'
  <2>1. \A s \in Session : stores[s] \in Store
    BY DEF IInv, Types, Good, DatedStores
  <2>2. \A s \in Store : Reconciled(s, now).session = s.session
    BY DEF Reconciled, Store
  <2> QED
    BY <1>1, <2>1, <2>2 DEF Begun
<1>3. Counted(commands')
  <2>1. CASE commands' = commands
    BY <2>1 DEF Vetted
  <2>2. CASE commands' = Disturbed(commands)
    <3>1. /\ IsFiniteSet(Disturbed(commands))
          /\ Cardinality(Disturbed(commands)) <= Cardinality(commands)
      BY DisturbedCounts DEF Vetted, Counted
    <3>2. Cardinality(Disturbed(commands)) \in Nat /\ Cardinality(commands) \in Nat
          /\ MaxAtOnce \in Nat
      BY <3>1, FS_CardinalityType, BeaconOK DEF Vetted, Counted
    <3> QED
      BY <2>2, <3>1, <3>2 DEF Vetted, Counted
  <2> QED
    BY <1>1, <2>1, <2>2
<1>4. ASSUME NEW x \in commands' PROVE Sound(x)'
  <2>1. PICK c \in commands : x = c \/ x = [c EXCEPT !.alone = FALSE]
    BY <1>1, <1>4 DEF Disturbed
  <2>2. c \in Issued /\ Sound(c) /\ c.session \in Session
    BY DEF IInv, Types, Issued, Vetted
  <2>3. x.name = c.name /\ x.session = c.session /\ x.step = c.step /\ x.status = c.status
    BY <2>1, <2>2 DEF Issued
  <2> QED
    BY <1>2, <2>2, <2>3 DEF Sound, Begun
<1>5. /\ \A s \in closed : Begun(s)'
      /\ file # NoFile => Begun(file.session)'
  BY <1>1, <1>2 DEF IInv, Types, Closed, File, Vetted, Begun
<1>6. vouched' \in BOOLEAN
  BY <1>1 DEF Vetted
<1> QED
  BY <1>1, <1>3, <1>4, <1>5, <1>6 DEF Vetted, Begun

(* Every value of the beacon stays one the program can have: the file names  *)
(* a session that the API knows, and no command waits for the verification   *)
(* of events that were refused.                                              *)
THEOREM TypeCorrect == Spec => []TypeOK
<1>1. Init => Vetted
  <2> SUFFICES ASSUME Init PROVE Vetted
    OBVIOUS
  <2>1. Counted({})
    BY FS_EmptySet, BeaconOK DEF Counted
  <2>2. /\ now = 1 /\ count = 0 /\ commands = {} /\ closed = {} /\ file = NoFile
        /\ vouched = FALSE
    BY DEF Init
  <2>3. now \in 1..MaxTime /\ count \in 0..MaxCommands
    BY <2>2, BeaconOK
  <2> QED
    BY <2>1, <2>2, <2>3 DEF Vetted
<1>2. IInv /\ Vetted /\ [Next]_vars => Vetted'
  <2> SUFFICES ASSUME IInv, Vetted, [Next]_vars PROVE Vetted'
    OBVIOUS
  <2>1. ASSUME NEW name \in Command, NEW force \in BOOLEAN, Run(name, "none", force)
        PROVE  Vetted'
    <3>1. name # "status"
      BY DEF Command
    <3> QED
      BY <2>1, <3>1, RunVets
  <2>2. ASSUME NEW name \in Heeding, NEW given \in PrimaryStatuses, NEW force \in BOOLEAN,
               Run(name, given, force)
        PROVE  Vetted'
    <3>1. given # "none" /\ name \in Command \cup {"status"}
      BY DEF PrimaryStatuses, ShownStatus, Heeding, Command
    <3> QED
      BY <2>2, <3>1, RunVets
  <2>3. ASSUME NEW c \in commands, Arrive(c) \/ Verify(c) \/ Finish(c) \/ Fail(c)
        PROVE  Vetted'
    BY <2>3, CommandVets
  <2>4. CASE TimePasses
    <3>1. now' \in 1..MaxTime /\ UNCHANGED <<file, stores, commands, count, closed, vouched>>
      BY <2>4, BeaconOK DEF TimePasses, Vetted
    <3> QED
      BY <3>1 DEF Vetted, Sound, Begun
  <2>5. CASE UNCHANGED vars
    BY <2>5 DEF vars, Vetted, Sound, Begun
  <2> QED
    BY <2>1, <2>2, <2>3, <2>4, <2>5, RestartVets DEF Next
<1>3. IInv /\ Vetted => TypeOK
  BY DEF IInv, Types, Closed, Vetted, Counted, Sound, Issued, File, TypeOK
<1> QED
  BY <1>1, <1>2, <1>3, Invariant, PTL DEF Spec

------------------------------------------------------------------------------
(* What the board shows of a session of the beacon.  The hint is what the   *)
(* traces add up to, unless the posted events know better (Told); the row   *)
(* and the hint together say a status; and it lasts from the last sign of   *)
(* life, but for a hint that the session runs, which does not age.          *)
Told(s) == StatusHint(s.traces) # "none" \/ ~Overrides(s.events)
SaysOf(s) == Says(RowOf(s), StatusHint(s.traces))
Signs(s, at) ==
  \E sign \in s.traces :
    sign.at >= at /\ Significance(sign.type) \in {"heartbeat", "meaningful_activity"}
Backed(s, status, at) ==
  /\ s.row # NoRow /\ Told(s) /\ SaysOf(s) = status
  /\ \/ status = "waiting_for_review"
     \/ status = "running" /\ StatusHint(s.traces) = "running"
     \/ Signs(s, at)

LEMMA RowIsDirect ==
  ASSUME Types, NEW at, NEW s \in Good(at), s.row # NoRow
  PROVE  /\ Direct(RowOf(s)) /\ Past(RowOf(s), now)
         /\ \A n : Board(s, n) = RuntimeItem(RowOf(s), Hint(s, n), n)
         /\ \A n : Hint(s, n) \in Hints
         /\ Told(s) => \A n : Hint(s, n) = StatusHint(s.traces)
<1> DEFINE row == RowOf(s)
<1>1. now \in Nat /\ LastId \in Nat /\ Dated(s, now, LastId) /\ s \in Store
  BY DEF Types, LastId, Good, DatedStores
<1>2. Past(row, now)
  <2>1. row.processAt \in 0..now
    BY <1>1, TimesAreDated DEF RowOf
  <2> QED
    BY <1>1, <2>1, HeardIs DEF Past
<1>3. Direct(row)
  <2>1. s.row \in Row
    BY <1>1 DEF Store
  <2>2. /\ s.row.owner = OwnerFor(Beacon) /\ ~s.row.child /\ s.processAt = 0
        /\ s.row.completedAt # 0 => s.row.status = "completed"
    BY DEF Good
  <2>3. ~OwnerFor(Beacon).mirror
    BY BeaconNamed DEF OwnerFor, IsDirect, Beacon
  <2>4. /\ row.status = s.row.status /\ row.mirror = s.row.owner.mirror
        /\ row.child = s.row.child /\ row.processAt = s.processAt
        /\ row.completedAt = s.row.completedAt
    BY DEF RowOf
  <2>5. row.status \in RuntimeStatus
    BY <2>1, <2>4 DEF Row
  <2>6. row.status \in Running => row.completedAt = 0
    BY <2>2, <2>4 DEF Running
  <2> HIDE DEF row
  <2> QED
    BY <2>2, <2>3, <2>4, <2>5, <2>6 DEF Direct
<1>4. ASSUME NEW n
      PROVE  /\ Hint(s, n) \in Hints
             /\ Told(s) => Hint(s, n) = StatusHint(s.traces)
  <2> DEFINE status == DeriveStatus([startedAt |-> s.session.startedAt, system |-> FALSE],
                                    s.events, FALSE, n)
  <2>1. Hint(s, n) =
        IF StatusHint(s.traces) # "none" \/ ~Overrides(s.events)
        THEN StatusHint(s.traces)
        ELSE IF status = "queued" THEN "none" ELSE status
    BY DEF Hint, CanonicalHint
  <2>2. status \in SessionStatus
    BY DEF DeriveStatus, SessionStatus
  <2> HIDE DEF status
  <2> QED
    BY <2>1, <2>2, StatusHintType DEF Told, Hints, SessionStatus
<1>5. \A n : Board(s, n) = RuntimeItem(row, Hint(s, n), n)
  BY DEF Board
<1> QED
  BY <1>2, <1>3, <1>4, <1>5

LEMMA SaysNoMore ==
  ASSUME NEW row, NEW hint
  PROVE  /\ Says(row, hint) \in ShownStatus \cup {"nothing"}
         /\ Says(row, hint) = "running" /\ hint # "none" => hint = "running"
  BY DEF Says, SaidByHint, SaidByStatus, ShownStatus, Running, Historical, Review, Degraded

(* A trace that is a sign of life is in the row's times. *)
LEMMA SignsAreHeard ==
  ASSUME Types, NEW at \in Nat, NEW s \in Good(now), s.row # NoRow, Signs(s, at)
  PROVE  /\ at <= LastHeartbeat(RowOf(s)) \/ at <= LastActivity(RowOf(s))
         /\ at <= LastSignal(RowOf(s))
<1> DEFINE row == RowOf(s)
<1>1. now \in Nat /\ LastId \in Nat /\ Dated(s, now, LastId)
  BY DEF Types, LastId, Good, DatedStores
<1>2. PICK sign \in s.traces :
        sign.at >= at /\ Significance(sign.type) \in {"heartbeat", "meaningful_activity"}
  BY DEF Signs
<1>3. \A significance : TimesOf(row, significance) \in SUBSET (0..now)
  BY <1>1, TimesAreDated
<1>4. sign.at \in TimesOf(row, Significance(sign.type)) /\ sign.at \in Nat
  BY <1>1, <1>2 DEF TimesOf, RowOf, Dated
<1>5. LastHeartbeat(row) \in 0..now /\ LastActivity(row) \in 0..now
  BY <1>1, HeardIs
<1>6. sign.at <= LastHeartbeat(row) \/ sign.at <= LastActivity(row)
  BY <1>1, <1>2, <1>3, <1>4, NewestIs DEF LastHeartbeat, LastActivity
<1>7. at <= LastHeartbeat(row) \/ at <= LastActivity(row)
  BY <1>2, <1>4, <1>5, <1>6
<1>8. at <= LastSignal(row)
  <2> DEFINE times == {LastHeartbeat(row), LastActivity(row), row.completedAt}
             signal == Newest(times)
  <2>1. row.completedAt \in 0..now /\ row.updatedAt \in 0..now
    BY <1>1, TimesAreDated DEF RowOf
  <2>2. times \in SUBSET (0..now)
    BY <1>5, <2>1
  <2>3. signal \in 0..now /\ \A t \in times : t <= signal
    BY <1>1, <2>2, NewestIs
  <2>4. at <= signal
    <3>1. LastHeartbeat(row) <= signal /\ LastActivity(row) <= signal
      BY <2>3
    <3> HIDE DEF signal, row
    <3> QED
      BY <1>1, <1>5, <1>7, <2>3, <3>1
  <2>5. LastSignal(row) = IF signal # 0 \/ row.status \in Running THEN signal ELSE row.updatedAt
    BY DEF LastSignal
  <2> HIDE DEF signal, row
  <2> QED
    BY <1>1, <2>1, <2>3, <2>4, <2>5
<1> QED
  BY <1>7, <1>8

(* What backs a status keeps it on the board for as long as it lasts. *)
LEMMA BackedShown ==
  ASSUME Types, ReviewStaleMs <= ActionableStaleMs, NEW s \in Good(now),
         NEW at \in 1..now, NEW status \in PrimaryStatuses, Backed(s, status, at),
         now - (IF status = "waiting_for_review" THEN LastSignal(RowOf(s)) ELSE at)
           <= Lasts(status)
  PROVE  Board(s, now).board /\ Board(s, now).primary = status
<1> DEFINE row == RowOf(s)
           hint == StatusHint(s.traces)
           item == Board(s, now)
<1>0. /\ now \in Nat /\ at \in Nat /\ at # 0 /\ s.row # NoRow
      /\ {ColdMs, ReviewStaleMs, ActionableStaleMs} \subseteq Nat
      /\ ColdMs < ActionableStaleMs
  BY Windows DEF Types, Backed
<1>1. /\ Direct(row) /\ Past(row, now) /\ hint \in Hints
      /\ item = RuntimeItem(row, hint, now)
  BY <1>0, RowIsDirect, StatusHintType DEF Backed
<1>2. Right(item, Says(row, hint), Unaged(row, hint, now))
  BY <1>0, <1>1, RowTells
<1>3. Says(row, hint) = status /\ status # "nothing"
  BY DEF Backed, SaysOf, PrimaryStatuses, ShownStatus
<1>4. /\ LastSignal(row) \in 0..now /\ LastHeartbeat(row) \in 0..now
      /\ LastActivity(row) \in 0..now
  BY <1>1 DEF Past
<1>5. ASSUME NEW sign \in 0..now, at <= sign, status # "waiting_for_review"
      PROVE  sign # 0 /\ Age(sign, now) <= Lasts(status)
  <2>1. Lasts(status) \in Nat /\ now - at <= Lasts(status)
    BY <1>0, <1>5 DEF Lasts
  <2> QED
    BY <1>0, <1>5, <2>1 DEF Age
<1>6. Lasts(status) \in Nat /\ Lasts(status) <= ActionableStaleMs
  BY <1>0 DEF Lasts
<1>7. Unaged(row, hint, now)
  <2> SUFFICES ASSUME hint # "running" \/ status = "waiting_for_review"
               PROVE  Unaged(row, hint, now)
    BY <1>3 DEF Unaged
  <2>1. CASE status = "waiting_for_review"
    <3>1. Age(LastSignal(row), now) <= ReviewStaleMs /\ Age(LastSignal(row), now) \in Nat
      BY <1>0, <1>4, <2>1 DEF Lasts, Age
    <3>2. ~IsStaleReview(LastSignal(row), now) /\ ~StaleRow(row, now)
      BY <1>0, <3>1 DEF IsStaleReview, StaleRow, IsStaleActionable, Older
    <3> QED
      BY <1>3, <2>1, <3>2 DEF Unaged
  <2>2. CASE status # "waiting_for_review" /\ hint # "running"
    <3>1. Signs(s, at)
      BY <2>2 DEF Backed
    <3>2. (at <= LastHeartbeat(row) \/ at <= LastActivity(row)) /\ at <= LastSignal(row)
      BY <1>0, <3>1, SignsAreHeard
    <3>3. ~StaleRow(row, now)
      <4>1. Age(LastSignal(row), now) <= Lasts(status) /\ Age(LastSignal(row), now) \in Nat
        BY <1>0, <1>4, <1>5, <2>2, <3>2 DEF Age
      <4> QED
        BY <1>0, <1>6, <4>1 DEF StaleRow, IsStaleActionable, Older
    <3>4. HasSignal(row, now)
      <4>1. PICK all : all = Newest({LastHeartbeat(row), LastActivity(row), LastSignal(row)})
        OBVIOUS
      <4>2. LastHeartbeat(row) <= all /\ LastActivity(row) <= all
        <5>1. LastId \in Nat /\ Dated(s, now, LastId)
          BY DEF Types, LastId, Good, DatedStores
        <5> QED
          BY <1>0, <4>1, <5>1, HeardIs
      <4>3. all # 0
        <5> HIDE DEF row
        <5> QED
          BY <1>0, <1>4, <3>2, <4>2
      <4> QED
        BY <4>1, <4>3 DEF HasSignal
    <3>5. status = "running" => Lively(row, now)
      <4>1. Lasts("running") = ColdMs
        BY DEF Lasts
      <4> QED
        BY <1>4, <1>5, <2>2, <3>2, <4>1 DEF Lively
    <3> QED
      BY <1>3, <2>2, <3>3, <3>4, <3>5 DEF Unaged
  <2> QED
    BY <2>1, <2>2
<1> HIDE DEF item, row, hint
<1> QED
  BY <1>2, <1>3, <1>7 DEF Right, Tells, item

------------------------------------------------------------------------------
(* The events of the beacon.                                                *)
Plain(e) ==
  e.type \in {EventTypeForCommand(name) : name \in Command} /\ e.note \in {"none", "acknowledged"}
Beat(e) == e.type = "session.heartbeat" /\ e.note = "none"
Newer(s, e) == \A f \in s.events \cup s.traces : f.at <= e.at /\ f.id < e.id
TraceOf(e) == [id |-> e.id, at |-> e.at, type |-> ToRuntimeEvent(e.type)]
RecordOf(e) == [id |-> e.id, type |-> e.type, note |-> e.note, at |-> e.at]

LEMMA PlainTypes ==
  ASSUME NEW e, Plain(e)
  PROVE  e.type \in {"session.started", "work.started", "session.heartbeat", "work.completed",
                     "input.requested", "input.resolved", "review.requested",
                     "review.resolved", "validation.passed", "validation.failed",
                     "session.ended", "session.parked", "session.error"}
<1>1. PICK name \in Command : e.type = EventTypeForCommand(name)
  BY DEF Plain
<1> QED
  BY <1>1 DEF Command, EventTypeForCommand

(* An event as late as anything the row has seen makes the row and a trace. *)
LEMMA PlainIngested ==
  ASSUME Types, NEW at \in Nat, NEW s \in Good(at), NEW e \in Kind(at), e.at = at, Plain(e),
         Newer(s, e)
  PROVE  LET t == Ingested(s, e)
         IN /\ t # Rejected /\ t \in Good(at)
            /\ t.row = MirroredRow(s, e) /\ t.row # NoRow
            /\ t.traces = s.traces \cup {TraceOf(e)}
            /\ t.events = s.events \cup {RecordOf(e)}
            /\ TraceOf(e).type = ToRuntimeEvent(e.type) /\ TraceOf(e).at = e.at
            /\ TraceOf(e).id = e.id
            /\ RecordOf(e).type = e.type /\ RecordOf(e).note = e.note
            /\ RecordOf(e).at = e.at /\ RecordOf(e).id = e.id
<1> DEFINE t == Ingested(s, e)
           f == AsStored(e)
<1>1. s \in Store /\ e \in PostedEvent
  BY DEF Good, Kind, DatedStores, DatedEvents
<1>2. f.type = e.type /\ f.note = e.note /\ f.at = e.at /\ f.from = Beacon /\ ~f.task
      /\ f.id = e.id
  <2>1. f = [e EXCEPT !.type = Normalized(e.type, e.note, e.from.writer)]
    BY DEF AsStored
  <2>2. Normalized(e.type, e.note, e.from.writer) = e.type
    BY PlainTypes DEF Plain, Normalized
  <2>3. f.type = Normalized(e.type, e.note, e.from.writer) /\ f.id = e.id
    BY <1>1, <2>1 DEF PostedEvent
  <2> QED
    BY <1>1, <2>2, <2>3, NormalizedType DEF Kind
<1>3. f = e
  <2>1. f = [e EXCEPT !.type = e.type]
    BY <1>1, <1>2 DEF AsStored, PostedEvent
  <2> QED
    BY <1>1, <2>1 DEF PostedEvent
<1>4. ~SameSwitch(s, f)
  BY <1>2, PlainTypes DEF SameSwitch
<1>5. t # Rejected
  <2>1. ~Orphan(s, f)
    BY <1>2 DEF Orphan
  <2> QED
    BY <1>1, <1>4, <2>1, EventTaken
<1>6. TakenIn(s, e, t)
  BY <1>1, <1>3, <1>4, <1>5, EventIngested
<1>7. MayWrite(e.from, s.row)
  <2>1. s.row # NoRow => s.row.owner.id = Beacon.id
    BY DEF Good, OwnerFor, Beacon, Unnamed
  <2> QED
    BY <1>2, <1>3, <2>1, BeaconNamed DEF MayWrite, IsDirect
<1>8. ~Late(s, e)
  <2>1. s.row # NoRow => s.row.updatedAt \in Nat
    BY <1>1 DEF Store, Row
  <2>2. e.at \in Nat
    BY <1>1 DEF PostedEvent
  <2> QED
    BY <2>1, <2>2 DEF Late, Good
<1>9. /\ t.row = MirroredRow(s, e)
      /\ t.traces = Replaced(s.traces, TraceOf(e))
      /\ t.events = Replaced(s.events, RecordOf(e))
  BY <1>6, <1>7, <1>8 DEF TakenIn, TraceOf, RecordOf
<1>10. t.row # NoRow
  BY <1>1, <1>9, RowType
<1>11. t \in Good(at)
  BY <1>5, GoodIngested
<1>12. /\ TraceOf(e).type = ToRuntimeEvent(e.type) /\ TraceOf(e).at = e.at /\ TraceOf(e).id = e.id
       /\ RecordOf(e).type = e.type /\ RecordOf(e).note = e.note /\ RecordOf(e).at = e.at
       /\ RecordOf(e).id = e.id
  BY DEF TraceOf, RecordOf
<1>13. \A g \in s.events \cup s.traces : g.id # e.id
  <2>1. \A g \in s.events \cup s.traces : g.id \in Nat
    BY <1>1 DEF Store, StoredEvent, TraceEvent
  <2>2. e.id \in Nat
    BY <1>1 DEF PostedEvent
  <2> QED
    BY <2>1, <2>2 DEF Newer
<1> HIDE DEF t, f
<1>14. t.traces = s.traces \cup {TraceOf(e)} /\ t.events = s.events \cup {RecordOf(e)}
  BY <1>9, <1>12, <1>13 DEF Replaced
<1> QED
  BY <1>5, <1>9, <1>10, <1>11, <1>12, <1>14 DEF t

(* A heartbeat is no part of what the traces add up to. *)
LEMMA LastIsKept ==
  ASSUME NEW traces, NEW beat, NEW raised, NEW cleared, beat.type \notin raised \cup cleared
  PROVE  LastIs(traces \cup {beat}, raised, cleared) <=> LastIs(traces, raised, cleared)
  BY DEF LastIs

LEMMA BeatKeepsHint ==
  ASSUME NEW traces, NEW beat, beat.type = "session.heartbeat"
  PROVE  StatusHint(traces \cup {beat}) = StatusHint(traces)
<1> DEFINE more == traces \cup {beat}
<1>1. /\ FailurePending(more) <=> FailurePending(traces)
      /\ InputPending(more) <=> InputPending(traces)
      /\ ReviewPending(more) <=> ReviewPending(traces)
      /\ IsParked(more) <=> IsParked(traces)
  BY LastIsKept DEF FailurePending, InputPending, ReviewPending, IsParked, Failures, Resets,
     InputRequests, InputAnswers, ReviewRequests, ReviewAnswers, Resumptions
<1>2. /\ LastIs(more, {"work.completed"}, Resumptions)
           <=> LastIs(traces, {"work.completed"}, Resumptions)
      /\ LastIs(more, Resumptions, {"work.completed"})
           <=> LastIs(traces, Resumptions, {"work.completed"})
  BY LastIsKept DEF Resumptions, InputAnswers, ReviewAnswers
<1> HIDE DEF more
<1> QED
  BY <1>1, <1>2 DEF StatusHint, more

(* The other reports of the beacon, when they are the last, decide it. *)
Telling == {"work.started", "work.completed", "input.requested", "input.resolved",
            "review.requested", "review.resolved", "validation.passed",
            "validation.failed", "session.error", "session.parked"}

LEMMA LastOneTells ==
  ASSUME NEW traces, NEW one \in traces, \A f \in traces : f = one \/ Before(f, one),
         one.type \in Telling
  PROVE  StatusHint(traces) # "none"
<1>1. \A raised, cleared : one.type \in raised => LastIs(traces, raised, cleared)
  BY DEF LastIs
<1>2. one.type \in {"validation.failed", "session.error"} => FailurePending(traces)
  BY <1>1 DEF FailurePending, Failures
<1>3. one.type = "input.requested" => InputPending(traces)
  BY <1>1 DEF InputPending, InputRequests
<1>4. one.type = "review.requested" => ReviewPending(traces)
  BY <1>1 DEF ReviewPending, ReviewRequests
<1>5. one.type = "session.parked" => IsParked(traces)
  BY <1>1 DEF IsParked
<1>6. one.type = "work.completed" => LastIs(traces, {"work.completed"}, Resumptions)
  BY <1>1
<1>7. one.type \in {"work.started", "input.resolved", "review.resolved", "validation.passed"}
        => LastIs(traces, Resumptions, {"work.completed"})
  BY <1>1 DEF Resumptions, InputAnswers, ReviewAnswers
<1> QED
  BY <1>2, <1>3, <1>4, <1>5, <1>6, <1>7 DEF StatusHint, Telling

LEMMA PlainTraces ==
  ASSUME NEW type
  PROVE  /\ type \in Telling \cup {"session.started", "session.heartbeat"} =>
              ToRuntimeEvent(type) = type
         /\ type \in (Telling \cup {"session.started"}) \ {"review.requested", "review.resolved"}
              => Significance(type) = "meaningful_activity"
         /\ Significance("session.heartbeat") = "heartbeat"
<1>1. type \in Telling \cup {"session.started", "session.heartbeat"} => ToRuntimeEvent(type) = type
  BY DEF ToRuntimeEvent, Renames, Passthrough, MeaningfulEvents, Telling
<1>2. type \in (Telling \cup {"session.started"}) \ {"review.requested", "review.resolved"}
        => Significance(type) = "meaningful_activity"
  BY DEF Significance, MeaningfulEvents, Telling, ContextEvents, ReviewStateEvents
<1> QED
  BY <1>1, <1>2 DEF Significance

LEMMA SaysKept ==
  ASSUME NEW row, NEW next, NEW hint, next.status = row.status,
         next.acknowledged => row.acknowledged, Says(row, hint) # "nothing"
  PROVE  Says(next, hint) = Says(row, hint)
<1>1. CASE hint = "running" /\ row.status \notin Historical
  BY <1>1 DEF Says, SaidByStatus, Historical
<1>2. CASE ~(hint = "running" /\ row.status \notin Historical) /\ row.status \in Running
           /\ hint # "none"
  BY <1>2 DEF Says
<1>3. CASE ~(hint = "running" /\ row.status \notin Historical)
           /\ ~(row.status \in Running /\ hint # "none")
  <2>1. Says(row, hint) = SaidByStatus(row) /\ Says(next, hint) = SaidByStatus(next)
    BY <1>3 DEF Says
  <2>2. row.status = "completed" => ~row.acknowledged /\ ~next.acknowledged
    BY <2>1 DEF SaidByStatus, Review, Degraded, Running
  <2> QED
    BY <2>1, <2>2 DEF SaidByStatus
<1> QED
  BY <1>1, <1>2, <1>3

(* A heartbeat takes back nothing that the session says.                    *)
LEMMA BeatKeeps ==
  ASSUME Types, NEW at \in Nat, NEW s \in Good(at), NEW e \in Kind(at), e.at = at, Plain(e),
         Newer(s, e), Beat(e)
  PROVE  LET t == Ingested(s, e)
         IN /\ t \in Good(at) /\ t.row # NoRow /\ Signs(t, at)
            /\ StatusHint(t.traces) = StatusHint(s.traces) /\ (Told(s) => Told(t))
            /\ \A n : Signs(s, n) => Signs(t, n)
            /\ \A status \in PrimaryStatuses : \A n : Backed(s, status, n) => Backed(t, status, n)
<1> DEFINE t == Ingested(s, e)
<1>1. /\ t \in Good(at) /\ t.row = MirroredRow(s, e) /\ t.row # NoRow
      /\ t.traces = s.traces \cup {TraceOf(e)}
      /\ t.events = s.events \cup {RecordOf(e)}
      /\ TraceOf(e).type = ToRuntimeEvent(e.type) /\ TraceOf(e).at = e.at
      /\ RecordOf(e).type = e.type /\ RecordOf(e).note = e.note
  BY PlainIngested
<1> HIDE DEF t
<1>2. TraceOf(e).type = "session.heartbeat"
  BY <1>1, PlainTraces DEF Beat
<1>3. StatusHint(t.traces) = StatusHint(s.traces)
  BY <1>1, <1>2, BeatKeepsHint
<1>4. Overrides(t.events) => Overrides(s.events)
  BY <1>1 DEF Overrides, Beat
<1>5. Told(s) => Told(t)
  BY <1>3, <1>4 DEF Told
<1>6. \A n : Signs(s, n) => Signs(t, n)
  BY <1>1 DEF Signs
<1>7. Signs(t, at)
  <2>1. TraceOf(e) \in t.traces /\ TraceOf(e).at >= at
    BY <1>1
  <2> QED
    BY <1>2, <2>1, PlainTraces DEF Signs
<1>8. ASSUME s.row # NoRow, SaysOf(s) # "nothing"
      PROVE  SaysOf(t) = SaysOf(s)
  <2>1. s.row \in Row
    BY <1>8 DEF Good, DatedStores, Store
  <2>2. MirrorStatus("session.heartbeat", e.note, s.row.status, "none") = s.row.status
    <3>1. s.row.status # "none"
      BY <2>1 DEF Row, RuntimeStatus, Running, NeedsAction, Review, Historical, Degraded
    <3> QED
      BY <3>1 DEF MirrorStatus, AsksForInput, KeepsStatus
  <2>3. t.row.status = s.row.status /\ ~t.row.acknowledged
    <3>1. t.row.status = MirrorStatus("session.heartbeat", e.note, s.row.status, "none")
      BY <1>1, <1>8, RowIs DEF Beat
    <3>2. t.row.acknowledged <=> e.note = "acknowledged"
      BY <1>1, RowIs
    <3> QED
      BY <2>2, <3>1, <3>2 DEF Beat
  <2>4. RowOf(t).status = t.row.status /\ RowOf(s).status = s.row.status
        /\ RowOf(t).acknowledged = t.row.acknowledged
    BY DEF RowOf
  <2> QED
    BY <1>3, <1>8, <2>3, <2>4, SaysKept DEF SaysOf
<1>9. \A status \in PrimaryStatuses : \A n : Backed(s, status, n) => Backed(t, status, n)
  <2>1. "nothing" \notin PrimaryStatuses
    BY DEF PrimaryStatuses, ShownStatus
  <2> QED
    BY <1>1, <1>3, <1>5, <1>6, <1>8, <2>1 DEF Backed
<1> QED
  BY <1>1, <1>3, <1>5, <1>6, <1>7, <1>9 DEF t

(* A report leaves a hint, or it is the first word of a session that runs.  *)
LEMMA ReportTells ==
  ASSUME Types, NEW at \in Nat, NEW s \in Good(at), NEW e \in Kind(at), e.at = at, Plain(e),
         Newer(s, e)
  PROVE  LET t == Ingested(s, e)
         IN /\ t \in Good(at) /\ t.row # NoRow
            /\ e.type \in Telling => Told(t) /\ StatusHint(t.traces) # "none"
            /\ e.type \in Telling \ {"review.requested", "review.resolved"} => Signs(t, at)
            /\ e.type = "session.started" /\ s = EmptyStore => Backed(t, "running", at)
<1> DEFINE t == Ingested(s, e)
<1>1. /\ t \in Good(at) /\ t.row = MirroredRow(s, e) /\ t.row # NoRow
      /\ t.traces = s.traces \cup {TraceOf(e)}
      /\ t.events = s.events \cup {RecordOf(e)}
      /\ TraceOf(e).type = ToRuntimeEvent(e.type) /\ TraceOf(e).at = e.at
      /\ TraceOf(e).id = e.id
      /\ RecordOf(e).type = e.type /\ RecordOf(e).note = e.note
  BY PlainIngested
<1> HIDE DEF t
<1>2. ASSUME e.type \in Telling
      PROVE  StatusHint(t.traces) # "none"
  <2>1. \A f \in t.traces : f = TraceOf(e) \/ Before(f, TraceOf(e))
    <3>1. \A f \in s.traces : f.at \in Nat /\ f.id \in Nat /\ f.at <= e.at /\ f.id < e.id
      BY DEF Newer, Good, DatedStores, Store, TraceEvent
    <3>2. e.at \in Nat /\ e.id \in Nat
      BY DEF Kind, DatedEvents, PostedEvent
    <3>3. \A f \in s.traces : Before(f, TraceOf(e))
      BY <1>1, <3>1, <3>2 DEF Before
    <3> QED
      BY <1>1, <3>3
  <2>2. TraceOf(e) \in t.traces /\ TraceOf(e).type \in Telling
    BY <1>1, <1>2, PlainTraces
  <2> QED
    BY <2>1, <2>2, LastOneTells
<1>3. ASSUME e.type \in (Telling \cup {"session.started"}) \ {"review.requested", "review.resolved"}
      PROVE  Signs(t, at)
  <2>1. TraceOf(e) \in t.traces /\ TraceOf(e).at >= at
    BY <1>1
  <2>2. Significance(TraceOf(e).type) = "meaningful_activity"
    BY <1>1, <1>3, PlainTraces
  <2> QED
    BY <2>1, <2>2 DEF Signs
<1>4. ASSUME e.type = "session.started", s = EmptyStore
      PROVE  Backed(t, "running", at)
  <2>1. s.traces = {} /\ s.events = {} /\ s.row = NoRow
    BY <1>4 DEF EmptyStore
  <2>2. TraceOf(e).type = "session.started"
    BY <1>1, <1>4, PlainTraces
  <2>3. StatusHint(t.traces) = "none"
    <3>1. \A f \in t.traces : f.type = "session.started"
      BY <1>1, <2>1, <2>2
    <3>2. \A raised, cleared : "session.started" \notin raised => ~LastIs(t.traces, raised, cleared)
      BY <3>1 DEF LastIs
    <3> QED
      BY <3>2 DEF StatusHint, FailurePending, InputPending, ReviewPending, IsParked, Failures,
         InputRequests, ReviewRequests, Resumptions, InputAnswers, ReviewAnswers
  <2>4. Told(t)
    <3>1. \A r \in t.events : r.type = "session.started"
      BY <1>1, <1>4, <2>1
    <3>2. ~Overrides(t.events)
      BY <3>1 DEF Overrides
    <3> QED
      BY <3>2 DEF Told
  <2>5. t.row.status = "running"
    <3>1. MirrorStatus("session.started", e.note, "none", "none") = "running"
      BY DEF MirrorStatus, AsksForInput, KeepsStatus
    <3> QED
      BY <1>1, <1>4, <2>1, <3>1, RowIs
  <2>6. SaysOf(t) = "running"
    <3>1. RowOf(t).status = "running"
      BY <2>5 DEF RowOf
    <3>2. Says(RowOf(t), "none") = SaidByStatus(RowOf(t))
      BY DEF Says
    <3>3. SaidByStatus(RowOf(t)) = "running"
      BY <3>1 DEF SaidByStatus, Review, Degraded, Running
    <3> QED
      BY <2>3, <3>2, <3>3 DEF SaysOf
  <2> QED
    BY <1>1, <1>3, <1>4, <2>4, <2>6 DEF Backed
<1>5. e.type \in Telling => Told(t)
  BY <1>2 DEF Told
<1> QED
  BY <1>1, <1>2, <1>3, <1>4, <1>5 DEF t

------------------------------------------------------------------------------
(* What a command by itself has done for the file by each of its steps, and *)
(* what the file is vouched for with.                                       *)
Main(s, c, e) ==
  \/ e.type = "session.started" /\ s = EmptyStore /\ c.status = "running"
  \/ /\ e.type \in Telling /\ c.name # "start"
     /\ e.type = "review.requested" => c.status = "waiting_for_review"
     /\ e.type = "review.resolved" => c.status = "running"
  \/ e.type = "session.ended" /\ c.name # "start" /\ c.status = "done_historical"
Follows(s, c, e) == e.at = c.at /\ Plain(e) /\ Newer(s, e)
Prepared(s, c) ==
  IF c.name = "heartbeat"
  THEN \E b : c.events = <<b>> /\ Follows(s, c, b) /\ Beat(b)
  ELSE \E e : /\ Follows(s, c, e) /\ Main(s, c, e)
              /\ \/ c.events = <<e>>
                 \/ \E b : c.events = <<e, b>> /\ Follows(s, c, b) /\ Beat(b) /\ e.id < b.id
Answered(s, c) ==
  /\ s.row # NoRow
  /\ c.status \in ShownStatus =>
       /\ Told(s)
       /\ \/ c.status = "waiting_for_review" \/ Signs(s, c.at)
          \/ c.status = "running" /\ StatusHint(s.traces) # "none"
  /\ c.name = "start" => Backed(s, c.status, c.at)

Forwards(s, c) ==
  /\ c.step = "posted" => Prepared(s, c)
  /\ c.name = "heartbeat" /\ c.step # "posted" => Signs(s, c.at)
  /\ c.name # "heartbeat" /\ c.step = "answered" => Answered(s, c)
  /\ c.name # "heartbeat" /\ c.step = "verified" => Backed(s, c.status, c.at)
Progress ==
  \A c \in commands : c.alone /\ ~Closing(c) =>
    /\ Forwards(stores[c.session], c)
    /\ c.name = "heartbeat" => /\ file # NoFile /\ c.session = file.session
                               /\ file.at <= c.at
VouchedFor ==
  vouched /\ file # NoFile /\ (\A c \in commands : c.alone /\ c.name = "heartbeat")
    => Backed(stores[file.session], file.status, file.at)

LEMMA BackedAnswers ==
  ASSUME NEW s, NEW c, Backed(s, "running", c.at), c.status = "running"
  PROVE  Answered(s, c)
  BY DEF Backed, Answered

LEMMA PostArrives ==
  ASSUME Types, NEW c, c.at \in Nat, c.events \in Seq(Kind(c.at)), NEW s \in Good(c.at),
         Prepared(s, c)
  PROVE  LET t == IngestEvents(s, c.events)
         IN IF c.name = "heartbeat"
            THEN /\ Signs(t, c.at)
                 /\ \A status \in PrimaryStatuses : \A n : Backed(s, status, n) => Backed(t, status, n)
            ELSE Answered(t, c)
<1> DEFINE t == IngestEvents(s, c.events)
<1>0. s # Rejected /\ \A r \in Good(c.at) : r \in Store /\ r # Rejected
  BY IngestOK DEF Good, DatedStores
<1>1. \A b : c.events = <<b>> => b \in Kind(c.at)
  <2> SUFFICES ASSUME NEW b, c.events = <<b>> PROVE b \in Kind(c.at)
    OBVIOUS
  <2>1. Len(c.events) = 1 /\ c.events[1] = b
    OBVIOUS
  <2> QED
    BY <2>1, ElementOfSeq
<1>2. \A a, b : c.events = <<a, b>> => a \in Kind(c.at) /\ b \in Kind(c.at)
  <2> SUFFICES ASSUME NEW a, NEW b, c.events = <<a, b>> PROVE a \in Kind(c.at) /\ b \in Kind(c.at)
    OBVIOUS
  <2>1. Len(c.events) = 2 /\ c.events[1] = a /\ c.events[2] = b
    OBVIOUS
  <2> QED
    BY <2>1, ElementOfSeq
<1>3. CASE c.name = "heartbeat"
  <2>1. PICK b : c.events = <<b>> /\ Follows(s, c, b) /\ Beat(b)
    BY <1>3 DEF Prepared
  <2>2. b \in Kind(c.at) /\ b.at = c.at /\ Plain(b) /\ Newer(s, b)
    BY <1>1, <2>1 DEF Follows
  <2> DEFINE r == Ingested(s, b)
  <2>3. /\ r \in Good(c.at) /\ Signs(r, c.at)
        /\ \A status \in PrimaryStatuses : \A n : Backed(s, status, n) => Backed(r, status, n)
    BY <2>1, <2>2, BeatKeeps
  <2>4. t = r
    BY <1>0, <2>1, <2>3, IngestOne
  <2> HIDE DEF r, t
  <2>5. Signs(t, c.at)
    BY <2>3, <2>4
  <2>6. \A status \in PrimaryStatuses : \A n : Backed(s, status, n) => Backed(t, status, n)
    BY <2>3, <2>4
  <2> QED
    BY <1>3, <2>5, <2>6 DEF t
<1>4. CASE c.name # "heartbeat"
  <2>1. PICK e : /\ Follows(s, c, e) /\ Main(s, c, e)
                 /\ \/ c.events = <<e>>
                    \/ \E b : c.events = <<e, b>> /\ Follows(s, c, b) /\ Beat(b) /\ e.id < b.id
    BY <1>4 DEF Prepared
  <2>2. e \in Kind(c.at) /\ e.at = c.at /\ Plain(e) /\ Newer(s, e)
    BY <1>1, <1>2, <2>1 DEF Follows
  <2> DEFINE r == Ingested(s, e)
  <2>3. /\ r \in Good(c.at) /\ r.row # NoRow
        /\ e.type \in Telling => Told(r) /\ StatusHint(r.traces) # "none"
        /\ e.type \in Telling \ {"review.requested", "review.resolved"} => Signs(r, c.at)
        /\ e.type = "session.started" /\ s = EmptyStore => Backed(r, "running", c.at)
    BY <2>2, ReportTells
  <2>4. /\ r.traces = s.traces \cup {TraceOf(e)} /\ r.events = s.events \cup {RecordOf(e)}
        /\ TraceOf(e).at = e.at /\ TraceOf(e).id = e.id
        /\ RecordOf(e).at = e.at /\ RecordOf(e).id = e.id
    BY <2>2, PlainIngested
  <2> HIDE DEF r, t
  <2>5. Answered(r, c)
    <3>1. CASE e.type = "session.started" /\ s = EmptyStore /\ c.status = "running"
      BY <2>3, <3>1, BackedAnswers
    <3>2. CASE /\ e.type \in Telling /\ c.name # "start"
               /\ e.type = "review.requested" => c.status = "waiting_for_review"
               /\ e.type = "review.resolved" => c.status = "running"
      BY <2>3, <3>2 DEF Answered
    <3>3. CASE e.type = "session.ended" /\ c.name # "start" /\ c.status = "done_historical"
      BY <2>3, <3>3 DEF Answered, ShownStatus
    <3> QED
      BY <2>1, <3>1, <3>2, <3>3 DEF Main
  <2>6. CASE c.events = <<e>>
    <3>1. t = r
      BY <1>0, <2>3, <2>6, IngestOne DEF t, r
    <3> QED
      BY <1>4, <2>5, <3>1 DEF t
  <2>7. ASSUME NEW b, c.events = <<e, b>>, Follows(s, c, b), Beat(b), e.id < b.id
        PROVE  Answered(t, c)
    <3>1. b \in Kind(c.at) /\ b.at = c.at /\ Plain(b)
      BY <1>2, <2>7 DEF Follows
    <3>2. Newer(r, b)
      <4>1. e.at \in Nat
        BY <2>2
      <4> QED
        BY <2>2, <2>4, <2>7, <3>1, <4>1 DEF Newer, Follows
    <3> DEFINE q == Ingested(r, b)
    <3>3. /\ q \in Good(c.at) /\ q.row # NoRow /\ Signs(q, c.at)
          /\ StatusHint(q.traces) = StatusHint(r.traces) /\ (Told(r) => Told(q))
          /\ \A status \in PrimaryStatuses : \A n : Backed(r, status, n) => Backed(q, status, n)
      BY <2>3, <2>7, <3>1, <3>2, BeatKeeps
    <3>4. t = q
      BY <1>0, <2>3, <2>7, <3>3, IngestTwo DEF t, r
    <3> HIDE DEF q
    <3>5. c.name = "start" => Backed(q, c.status, c.at)
      <4> SUFFICES ASSUME c.name = "start" PROVE Backed(q, c.status, c.at)
        OBVIOUS
      <4>1. e.type = "session.started" /\ s = EmptyStore /\ c.status = "running"
        BY <2>1 DEF Main
      <4>2. "running" \in PrimaryStatuses
        BY DEF PrimaryStatuses, ShownStatus
      <4> QED
        BY <2>3, <3>3, <4>1, <4>2
    <3> QED
      BY <2>5, <3>3, <3>4, <3>5 DEF Answered
  <2> QED
    BY <1>4, <2>1, <2>6, <2>7 DEF t
<1> QED
  BY <1>3, <1>4

(* What Mission Control shows of an answered command is what it says.       *)
LEMMA CheckBacks ==
  ASSUME Types, NEW c, c.session \in Session, c.status \in PrimaryStatuses, ~Closing(c),
         c.name # "heartbeat", Answered(stores[c.session], c), Verified(c)
  PROVE  Backed(stores[c.session], c.status, c.at)
<1> DEFINE s == stores[c.session]
           item == Board(s, now)
           hint == StatusHint(s.traces)
<1>1. CASE c.name = "start"
  BY <1>1 DEF Answered
<1>2. CASE c.name # "start"
  <2>1. item.board /\ item.primary = c.status
    BY <1>2 DEF Verified, Unverified, Closing
  <2>2. now \in Nat /\ s \in Good(now) /\ s.row # NoRow
    BY DEF Types, Answered
  <2>3. /\ Direct(RowOf(s)) /\ Past(RowOf(s), now) /\ Hint(s, now) \in Hints
        /\ item = RuntimeItem(RowOf(s), Hint(s, now), now)
        /\ Told(s) => Hint(s, now) = hint
    <3> HIDE DEF s
    <3> QED
      BY <2>2, RowIsDirect
  <2>4. Right(item, Says(RowOf(s), Hint(s, now)), Unaged(RowOf(s), Hint(s, now), now))
    BY <2>2, <2>3, RowTells
  <2> HIDE DEF item, s, hint
  <2>5. Says(RowOf(s), Hint(s, now)) = c.status
    BY <2>1, <2>4 DEF Right, Tells
  <2>6. c.status \in ShownStatus
    <3>1. "nothing" \notin PrimaryStatuses
      BY DEF PrimaryStatuses, ShownStatus
    <3> QED
      BY <2>5, <3>1, SaysNoMore
  <2>7. Answered(s, c)
    BY DEF s
  <2>8. Told(s) /\ Says(RowOf(s), hint) = c.status
    BY <2>3, <2>5, <2>6, <2>7 DEF Answered
  <2>9. \/ c.status = "waiting_for_review" \/ Signs(s, c.at)
        \/ c.status = "running" /\ hint # "none"
    BY <2>6, <2>7 DEF Answered, hint
  <2>10. c.status = "running" /\ hint # "none" => hint = "running"
    BY <2>8, SaysNoMore
  <2>11. Backed(s, c.status, c.at)
    BY <2>2, <2>8, <2>9, <2>10 DEF Backed, SaysOf, hint
  <2> QED
    BY <2>11 DEF s
<1> QED
  BY <1>1, <1>2

LEMMA BeaconTells ==
  ASSUME Types, NEW s \in Good(now), NEW i \in {1, 2}, NEW name \in Command,
         NEW acknowledged \in BOOLEAN
  PROVE  LET e == BeaconEvent(i, name, acknowledged)
         IN /\ e.at = now /\ e.id = 2 * count + i /\ Plain(e) /\ Newer(s, e)
            /\ e.type = EventTypeForCommand(name)
            /\ e.note = IF acknowledged THEN "acknowledged" ELSE "none"
<1> DEFINE e == BeaconEvent(i, name, acknowledged)
           note == IF acknowledged THEN "acknowledged" ELSE "none"
           type == EventTypeForCommand(name)
           id == 2 * count + i
<1>1. e = [id |-> id, at |-> now, type |-> type, note |-> note, from |-> Beacon, task |-> FALSE]
  BY DEF BeaconEvent
<1>2. note \in {"none", "acknowledged"} /\ type \in {EventTypeForCommand(n) : n \in Command}
  OBVIOUS
<1>3. id \in Nat /\ LastId \in Nat /\ LastId < id /\ now \in Nat
  BY DEF Types, LastId
<1> HIDE DEF e, note, type, id
<1>4. e.id = id /\ e.at = now /\ e.type = type /\ e.note = note
  BY <1>1
<1>5. Newer(s, e)
  <2>1. \A f \in s.events \cup s.traces : f.id \in 0..LastId /\ f.at \in 1..now
    BY DEF Good, DatedStores, Dated
  <2> QED
    BY <1>3, <1>4, <2>1 DEF Newer
<1> QED
  BY <1>2, <1>4, <1>5 DEF Plain, e, note, type, id

LEMMA Reports ==
  ASSUME NEW name \in Command \ {"start", "heartbeat"}
  PROVE  /\ name # "complete" => EventTypeForCommand(name) \in Telling
         /\ name = "complete" => EventTypeForCommand(name) = "session.ended"
         /\ EventTypeForCommand(name) = "review.requested" => name = "request-review"
         /\ EventTypeForCommand(name) = "review.resolved" => name = "review-resolved"
  BY DEF Command, EventTypeForCommand, Telling

(* A command that begins by itself has its events ready.                    *)
LEMMA RunPrepares ==
  ASSUME IInv, NEW name \in Command \cup {"status"}, NEW given \in PrimaryStatuses \cup {"none"},
         given = "none" \/ name \in Heeding, name = "status" => given # "none",
         NEW force \in BOOLEAN, Run(name, given, force),
         NEW c \in commands', c.alone, ~Closing(c)
  PROVE  /\ c.step = "posted" /\ Prepared(stores[c.session], c)
         /\ c.name = "heartbeat" => /\ file # NoFile /\ c.session = file.session
                                    /\ file.at <= c.at
<1> DEFINE opens == name = "start" \/ file = NoFile
           posts == IF name = "status" THEN CommandForCompatibilityStatus(given) ELSE name
           first == IF opens THEN "start" ELSE posts
           status == IF given # "none" THEN given
                     ELSE StatusForTelemetryCommand(name, file.status)
           session == IF opens THEN NextSession ELSE file.session
           one == BeaconEvent(1, first, name = "complete")
           two == BeaconEvent(2, "heartbeat", FALSE)
           rest == IF name = "begin" THEN <<two>> ELSE <<>>
           events == <<one>> \o rest
           s == stores[session]
<1>1. /\ file = NoFile => name \in {"start", "begin"}
      /\ opens => \E r \in Session : Fresh(r)
      /\ commands' = Disturbed(commands) \cup
           {[number |-> count, at |-> now, step |-> "posted", alone |-> commands = {},
             status |-> status, session |-> session, name |-> name, events |-> events]}
  BY DEF Run
<1>2. c \notin Disturbed(commands)
  <2>1. \A x \in commands : ~[x EXCEPT !.alone = FALSE].alone
    BY DisturbedIs DEF IInv, Types
  <2> QED
    BY <2>1 DEF Disturbed
<1>3. Types /\ now \in Nat
  BY DEF IInv, Types
<1>4. /\ s \in Good(now) /\ (opens => s = EmptyStore)
      /\ ~opens => file # NoFile /\ file \in File
  <2>1. CASE opens
    <3>1. NextSession \in Session /\ stores[NextSession] = EmptyStore
      BY <1>1, <1>3, <2>1, FreshSession DEF Fresh
    <3> QED
      BY <1>3, <2>1, <3>1 DEF Types
  <2>2. CASE ~opens
    BY <1>3, <2>2 DEF Types, File
  <2> QED
    BY <2>1, <2>2
<1>5. posts \in Command /\ first \in Command /\ "heartbeat" \in Command
      /\ (name = "complete") \in BOOLEAN
  BY DEF CommandForCompatibilityStatus, Command, PrimaryStatuses, ShownStatus
<1>6. /\ one.at = now /\ one.id = 2 * count + 1 /\ Plain(one) /\ Newer(s, one)
      /\ one.type = EventTypeForCommand(first)
      /\ name # "complete" => one.note = "none"
  <2> HIDE DEF s, first
  <2> QED
    BY <1>3, <1>4, <1>5, BeaconTells
<1>7. /\ two.at = now /\ two.id = 2 * count + 2 /\ Plain(two) /\ Newer(s, two) /\ Beat(two)
      /\ one.id < two.id
  <2>1. /\ two.at = now /\ two.id = 2 * count + 2 /\ Plain(two) /\ Newer(s, two)
        /\ two.type = EventTypeForCommand("heartbeat") /\ two.note = "none"
    <3> HIDE DEF s
    <3> QED
      BY <1>3, <1>4, <1>5, BeaconTells
  <2>2. count \in Nat
    BY <1>3 DEF Types
  <2> HIDE DEF one, two, s
  <2> QED
    BY <1>6, <2>1, <2>2 DEF Beat, EventTypeForCommand
<1> HIDE DEF one, two, s
<1>9. events = IF name = "begin" THEN <<one, two>> ELSE <<one>>
  BY Joined
<1> HIDE DEF events, session, status
<1>10. /\ c.at = now /\ c.step = "posted" /\ c.status = status /\ c.session = session
       /\ c.name = name /\ c.events = events
  BY <1>1, <1>2
<1>11. CASE c.name = "heartbeat"
  <2>1. name = "heartbeat" /\ ~opens /\ events = <<one>>
    BY <1>1, <1>9, <1>10, <1>11
  <2>2. one.type = "session.heartbeat" /\ one.note = "none"
    BY <1>6, <2>1 DEF EventTypeForCommand
  <2>3. Prepared(s, c)
    BY <1>6, <1>10, <1>11, <2>1, <2>2 DEF Prepared, Follows, Beat
  <2>4. c.session = file.session
    BY <1>10, <2>1 DEF session
  <2>5. file.at <= c.at
    BY <1>3, <1>4, <1>10, <2>1 DEF File
  <2> QED
    BY <1>4, <1>10, <2>1, <2>3, <2>4, <2>5 DEF s
<1>12. CASE c.name # "heartbeat"
  <2>1. Main(s, c, one)
    <3>1. CASE opens
      <4>1. one.type = "session.started" /\ s = EmptyStore
        BY <1>4, <1>6, <3>1 DEF EventTypeForCommand
      <4>2. name \in {"start", "begin"} /\ given = "none"
        BY <1>1, <3>1 DEF Heeding
      <4>3. c.status = "running"
        BY <1>10, <4>2 DEF status, StatusForTelemetryCommand
      <4> QED
        BY <4>1, <4>3 DEF Main
    <3>2. CASE ~opens /\ given = "none"
      <4>1. name \in Command \ {"start", "heartbeat", "complete"} /\ c.name = name
        BY <1>10, <1>12, <3>2 DEF Closing
      <4>2. one.type = EventTypeForCommand(name)
        BY <1>6, <3>2
      <4>3. c.status = StatusForTelemetryCommand(name, file.status)
        BY <1>10, <3>2 DEF status
      <4>4. /\ StatusForTelemetryCommand("request-review", file.status) = "waiting_for_review"
            /\ StatusForTelemetryCommand("review-resolved", file.status) = "running"
        BY DEF StatusForTelemetryCommand
      <4> QED
        BY <4>1, <4>2, <4>3, <4>4, Reports DEF Main
    <3>3. CASE ~opens /\ given # "none"
      <4>1. one.type = EventTypeForCommand(posts) /\ posts = CommandForCompatibilityStatus(given)
            /\ given \in PrimaryStatuses /\ c.status = given /\ c.name = "status"
        BY <1>6, <1>10, <1>12, <3>3 DEF status, Heeding
      <4>2. /\ posts \in Command \ {"start", "heartbeat", "review-resolved"}
            /\ posts = "request-review" => given = "waiting_for_review"
            /\ posts = "complete" => given = "done_historical"
        BY <4>1 DEF CommandForCompatibilityStatus, PrimaryStatuses, ShownStatus, Command
      <4> HIDE DEF posts
      <4> QED
        BY <4>1, <4>2, Reports DEF Main
    <3> QED
      BY <3>1, <3>2, <3>3
  <2>2. Follows(s, c, one)
    BY <1>6, <1>10 DEF Follows
  <2>3. Prepared(s, c)
    BY <1>7, <1>9, <1>10, <1>12, <2>1, <2>2 DEF Prepared, Follows
  <2> QED
    BY <1>10, <1>12, <2>3 DEF s
<1> QED
  BY <1>11, <1>12

LEMMA ProgressStep ==
  ASSUME IInv, Progress, [Next]_vars
  PROVE  Progress'
<1> DEFINE Kept(c) == /\ Forwards(stores[c.session], c)
                      /\ c.name = "heartbeat" => /\ file # NoFile /\ c.session = file.session
                                                 /\ file.at <= c.at
<1>0. Types /\ \A c \in commands : /\ c \in Issued /\ c.step \in Step /\ c.at \in Nat
                                   /\ c.session \in Session /\ c.status \in PrimaryStatuses
  BY DEF IInv, Types, Issued
<1>1. ASSUME NEW name \in Command \cup {"status"}, NEW given \in PrimaryStatuses \cup {"none"},
             given = "none" \/ name \in Heeding, name = "status" => given # "none",
         NEW force \in BOOLEAN, Run(name, given, force)
      PROVE  Progress'
  <2>1. UNCHANGED <<stores, file>>
    BY <1>1 DEF Run
  <2>2. ASSUME NEW c \in commands', c.alone, ~Closing(c)
        PROVE  Kept(c)
    <3>1. /\ c.step = "posted" /\ Prepared(stores[c.session], c)
          /\ c.name = "heartbeat" => /\ file # NoFile /\ c.session = file.session
                                     /\ file.at <= c.at
      BY <1>1, <2>2, RunPrepares
    <3> QED
      BY <3>1 DEF Forwards
  <2> QED
    BY <2>1, <2>2 DEF Progress, Closing
<1>2. ASSUME NEW c \in commands, Arrive(c)
      PROVE  Progress'
  <2> DEFINE d == [c EXCEPT !.step = "answered"]
             t == IngestEvents(stores[c.session], c.events)
  <2>1. /\ commands' = (commands \ {c}) \cup {d} /\ c.step = "posted" /\ file' = file
        /\ stores' = [stores EXCEPT ![c.session] = t]
    BY <1>2 DEF Arrive
  <2>2. /\ d.session = c.session /\ d.at = c.at /\ d.status = c.status /\ d.name = c.name
        /\ d.alone = c.alone /\ d.step = "answered"
    BY <1>0 DEF Issued
  <2> HIDE DEF d, t
  <2>3. stores'[c.session] = t
    BY <1>0, <2>1 DEF Types
  <2>4. ASSUME NEW x \in commands', x.alone, ~Closing(x)
        PROVE  /\ Forwards(stores'[x.session], x)
               /\ x.name = "heartbeat" => /\ file # NoFile /\ x.session = file.session
                                          /\ file.at <= x.at
    <3>1. CASE x = d
      <4>1. c.alone /\ ~Closing(c)
        BY <2>2, <2>4, <3>1 DEF Closing
      <4>2. Kept(c) /\ Prepared(stores[c.session], c)
        BY <2>1, <4>1 DEF Progress, Forwards
      <4>3. stores[c.session] \in Good(c.at) /\ c.events \in Seq(Kind(c.at))
        BY <4>1 DEF IInv, Alone, Types
      <4>4. IF c.name = "heartbeat" THEN Signs(t, c.at) ELSE Answered(t, c)
        BY <1>0, <4>2, <4>3, PostArrives DEF t
      <4>5. Answered(t, c) => Answered(t, d)
        BY <2>2 DEF Answered
      <4>6. Forwards(t, d)
        BY <2>2, <4>4, <4>5 DEF Forwards
      <4> QED
        BY <2>2, <2>3, <3>1, <4>2, <4>6
    <3>2. CASE x # d
      BY <2>1, <2>4, <3>2 DEF IInv, Alone
    <3> QED
      BY <3>1, <3>2
  <2> QED
    BY <2>1, <2>4 DEF Progress, Closing
<1>3. ASSUME NEW c \in commands, Verify(c)
      PROVE  Progress'
  <2> DEFINE d == [c EXCEPT !.step = "verified"]
  <2>1. /\ commands' = (commands \ {c}) \cup {d} /\ c.step = "answered" /\ file' = file
        /\ stores' = stores /\ Verified(c)
    BY <1>3 DEF Verify
  <2>2. /\ d.session = c.session /\ d.at = c.at /\ d.status = c.status /\ d.name = c.name
        /\ d.alone = c.alone /\ d.step = "verified"
    BY <1>0 DEF Issued
  <2> HIDE DEF d
  <2>4. ASSUME NEW x \in commands', x.alone, ~Closing(x)
        PROVE  Kept(x)
    <3>1. CASE x = d
      <4>1. c.alone /\ ~Closing(c)
        BY <2>2, <2>4, <3>1 DEF Closing
      <4>2. Kept(c)
        BY <4>1 DEF Progress
      <4>3. c.name # "heartbeat" => Backed(stores[c.session], c.status, c.at)
        <5> SUFFICES ASSUME c.name # "heartbeat"
                     PROVE  Backed(stores[c.session], c.status, c.at)
          OBVIOUS
        <5>1. Answered(stores[c.session], c)
          BY <2>1, <4>2 DEF Forwards
        <5> QED
          BY <1>0, <2>1, <4>1, <5>1, CheckBacks
      <4>4. Forwards(stores[c.session], d)
        BY <2>1, <2>2, <4>2, <4>3 DEF Forwards
      <4> QED
        BY <2>2, <3>1, <4>2, <4>4
    <3>2. CASE x # d
      BY <2>1, <2>4, <3>2 DEF IInv, Alone
    <3> QED
      BY <3>1, <3>2
  <2> QED
    BY <2>1, <2>4 DEF Progress, Closing
<1>4. ASSUME NEW c \in commands, Finish(c) \/ Fail(c)
      PROVE  Progress'
  <2>1. commands' = commands \ {c}
    BY <1>4 DEF Finish, Fail
  <2>2. \A x \in commands' : ~x.alone
    BY <2>1 DEF IInv, Alone
  <2> QED
    BY <2>2 DEF Progress
<1>5. CASE ApiRestart
  <2>1. UNCHANGED file /\ (stores' = stores => commands' = commands)
        /\ (stores' # stores => commands' = Disturbed(commands))
    BY <1>5 DEF ApiRestart
  <2>2. \A x \in Disturbed(commands) : ~x.alone
    BY <1>0, DisturbedIs DEF Disturbed
  <2>3. CASE stores' = stores
    BY <2>1, <2>3 DEF Progress, Closing
  <2>4. CASE stores' # stores
    BY <2>1, <2>2, <2>4 DEF Progress
  <2> QED
    BY <2>3, <2>4
<1>6. CASE TimePasses \/ UNCHANGED vars
  <2>1. UNCHANGED <<file, stores, commands>>
    BY <1>6 DEF TimePasses, vars
  <2> QED
    BY <2>1 DEF Progress, Closing
<1>7. ASSUME NEW name \in Command, NEW force \in BOOLEAN, Run(name, "none", force)
      PROVE  Progress'
  <2>1. name # "status"
    BY DEF Command
  <2> QED
    BY <1>1, <1>7, <2>1
<1>8. ASSUME NEW name \in Heeding, NEW given \in PrimaryStatuses, NEW force \in BOOLEAN,
             Run(name, given, force)
      PROVE  Progress'
  <2>1. given # "none" /\ name \in Command \cup {"status"}
    BY DEF PrimaryStatuses, ShownStatus, Heeding, Command
  <2> QED
    BY <1>1, <1>8, <2>1
<1> QED
  BY <1>2, <1>3, <1>4, <1>5, <1>6, <1>7, <1>8 DEF Next

LEMMA VouchedStep ==
  ASSUME IInv, Progress, VouchedFor, [Next]_vars
  PROVE  VouchedFor'
<1>0. /\ Types
      /\ file # NoFile => file.status \in PrimaryStatuses /\ file.session \in Session
      /\ \A c \in commands : /\ c \in Issued /\ c.at \in Nat
                             /\ c.session \in Session /\ c.status \in PrimaryStatuses
  BY DEF IInv, Types, Issued, File
<1>1. ASSUME NEW name, NEW given, NEW force, Run(name, given, force)
      PROVE  VouchedFor'
  <2>1. UNCHANGED <<stores, file>> /\ (vouched' => vouched /\ commands = {})
    BY <1>1 DEF Run
  <2> QED
    BY <2>1 DEF VouchedFor
<1>2. ASSUME NEW c \in commands, Arrive(c)
      PROVE  VouchedFor'
  <2> DEFINE d == [c EXCEPT !.step = "answered"]
             t == IngestEvents(stores[c.session], c.events)
  <2>1. /\ d \in commands' /\ c.step = "posted" /\ file' = file /\ vouched' = vouched
        /\ stores' = [stores EXCEPT ![c.session] = t]
    BY <1>2 DEF Arrive
  <2>2. d.name = c.name /\ d.alone = c.alone
    BY <1>0 DEF Issued
  <2> HIDE DEF d, t
  <2>3. stores'[c.session] = t
    BY <1>0, <2>1 DEF Types
  <2>4. ASSUME vouched', file' # NoFile, \A x \in commands' : x.alone /\ x.name = "heartbeat"
        PROVE  Backed(stores'[file'.session], file'.status, file'.at)
    <3>1. c.alone /\ c.name = "heartbeat" /\ ~Closing(c)
      BY <2>1, <2>2, <2>4 DEF Closing
    <3>2. commands = {c} /\ stores[c.session] \in Good(c.at) /\ c.events \in Seq(Kind(c.at))
      BY <3>1 DEF IInv, Alone, Types
    <3>3. c.session = file.session /\ Prepared(stores[c.session], c)
      BY <2>1, <3>1 DEF Progress, Forwards
    <3>4. Backed(stores[c.session], file.status, file.at)
      BY <2>1, <2>4, <3>1, <3>2, <3>3 DEF VouchedFor
    <3>5. \A status \in PrimaryStatuses : \A n :
            Backed(stores[c.session], status, n) => Backed(t, status, n)
      BY <1>0, <3>1, <3>2, <3>3, PostArrives DEF t
    <3> QED
      BY <1>0, <2>1, <2>3, <2>4, <3>3, <3>4, <3>5
  <2> QED
    BY <2>4 DEF VouchedFor
<1>3. ASSUME NEW c \in commands, Verify(c)
      PROVE  VouchedFor'
  <2> DEFINE d == [c EXCEPT !.step = "verified"]
  <2>1. /\ commands' = (commands \ {c}) \cup {d} /\ UNCHANGED <<file, stores, vouched>>
    BY <1>3 DEF Verify
  <2>2. d.name = c.name /\ d.alone = c.alone
    BY <1>0 DEF Issued
  <2> HIDE DEF d
  <2>3. (\A x \in commands' : x.alone /\ x.name = "heartbeat")
          => \A x \in commands : x.alone /\ x.name = "heartbeat"
    BY <2>1, <2>2
  <2> QED
    BY <2>1, <2>3 DEF VouchedFor
<1>4. ASSUME NEW c \in commands, Finish(c)
      PROVE  VouchedFor'
  <2> SUFFICES ASSUME vouched', file' # NoFile
               PROVE  Backed(stores'[file'.session], file'.status, file'.at)
    BY DEF VouchedFor
  <2>1. /\ c.step = "verified" /\ stores' = stores /\ c.alone /\ commands = {c}
        /\ c.name # "heartbeat" \/ (vouched /\ c.status = file.status)
    BY <1>4 DEF Finish, Vouches, IInv, Alone
  <2>2. ~Closing(c)
    BY <1>4 DEF Finish, Closing
  <2>3. file'.session = c.session /\ file'.status = c.status /\ file'.at = c.at
    BY <1>4, <2>2 DEF Finish, Closing
  <2>4. /\ c.name # "heartbeat" => Backed(stores[c.session], c.status, c.at)
        /\ c.name = "heartbeat" => /\ file # NoFile /\ c.session = file.session
                                   /\ Signs(stores[c.session], c.at)
    BY <2>1, <2>2 DEF Progress, Forwards
  <2>5. CASE c.name = "heartbeat"
    <3>1. Backed(stores[c.session], c.status, file.at)
      BY <2>1, <2>4, <2>5 DEF VouchedFor
    <3>2. Backed(stores[c.session], c.status, c.at)
      BY <2>4, <2>5, <3>1 DEF Backed
    <3> QED
      BY <2>1, <2>3, <3>2
  <2> QED
    BY <2>1, <2>3, <2>4, <2>5
<1>5. ASSUME NEW c \in commands, Fail(c)
      PROVE  VouchedFor'
  BY <1>5 DEF Fail, VouchedFor
<1>6. CASE ApiRestart
  <2>1. UNCHANGED file /\ (stores' = stores => UNCHANGED <<commands, vouched>>)
        /\ (stores' # stores => ~vouched')
    BY <1>6 DEF ApiRestart
  <2> QED
    BY <2>1 DEF VouchedFor
<1>7. CASE TimePasses \/ UNCHANGED vars
  BY <1>7 DEF TimePasses, vars, VouchedFor
<1> QED
  BY <1>1, <1>2, <1>3, <1>4, <1>5, <1>6, <1>7 DEF Next

(* What the file says of its session is what Mission Control shows, until it *)
(* ages: whatever commands failed or were killed before, and whatever they   *)
(* posted, the next verified command that runs by itself sets it right, and  *)
(* a heartbeat goes on vouching for it.  A review must not outlast a demand  *)
(* (in the source both last 24 hours): a session that asks for an input and  *)
(* then for a review leaves the board when the demand has aged.              *)
THEOREM FileTellsTheBoard ==
  ASSUME ReviewStaleMs <= ActionableStaleMs
  PROVE  Spec => []FileIsShown
<1>1. Init => Progress /\ VouchedFor
  BY DEF Init, Progress, VouchedFor
<1>2. IInv /\ Progress /\ VouchedFor /\ [Next]_vars => Progress' /\ VouchedFor'
  BY ProgressStep, VouchedStep
<1>3. IInv /\ Progress /\ VouchedFor => FileIsShown
  <2> SUFFICES ASSUME IInv, VouchedFor, vouched, Current, commands = {}
               PROVE  LET item == Board(stores[file.session], now)
                      IN item.board /\ item.primary = file.status
    BY DEF FileIsShown
  <2>1. /\ Types /\ file # NoFile /\ file.status \in PrimaryStatuses
        /\ file.at \in 1..now /\ stores[file.session] \in Good(now)
    BY DEF IInv, Types, File, Current
  <2>2. Backed(stores[file.session], file.status, file.at)
    BY <2>1 DEF VouchedFor
  <2>3. now - (IF file.status = "waiting_for_review"
               THEN LastSignal(RowOf(stores[file.session])) ELSE file.at)
          <= Lasts(file.status)
    BY DEF Current, Since
  <2> QED
    BY <2>1, <2>2, <2>3, BackedShown
<1> QED
  BY <1>1, <1>2, <1>3, Invariant, PTL DEF Spec

=============================================================================
