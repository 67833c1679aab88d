----------------------------- MODULE AndonApiProofs -----------------------------
(***************************************************************************)
(* Proofs about AndonApi, for any reports, senders, events of the runtime  *)
(* service, windows and numbers of events: its type invariant, that a      *)
(* second delivery is harmless and a late event rewinds no row, that what  *)
(* is asked for is shown, and what time alone may do to a card.            *)
(***************************************************************************)
EXTENDS AndonApi, AndonIngestProofs

LEMMA TypeParts ==
  TypeOK <=> /\ now \in 1..MaxTime /\ posts \in 0..MaxPosts
             /\ inFlight \subseteq PostedEvent
             /\ \A e \in inFlight : e.id \in 1..posts /\ e.at \in 1..now
             /\ Dated(store, now, posts)
  BY DEF TypeOK, Dated

LEMMA InitTyped == Init => TypeOK
<1> SUFFICES ASSUME Init PROVE TypeOK
  OBVIOUS
<1>1. 1 \in 1..MaxTime /\ 0 \in 0..MaxPosts
  BY ApiOK
<1>2. Dated(EmptyStore, 1, 0)
  BY DEF Dated, EmptyStore, Store
<1>3. ASSUME NEW type \in EventType, NEW note \in Note
      PROVE  Dated(OldStore(type, note), 1, 0)
  <2>1. [id |-> 0, type |-> type, note |-> note, at |-> 1] \in StoredEvent
    BY DEF StoredEvent
  <2>2. /\ OldStore(type, note) \in Store
        /\ OldStore(type, note).session =
             [known |-> TRUE, startedAt |-> 1, endedAt |-> 0, lastEventAt |-> 1]
        /\ OldStore(type, note).events =
             {[id |-> 0, type |-> type, note |-> note, at |-> 1]}
        /\ OldStore(type, note).row = NoRow /\ OldStore(type, note).traces = {}
        /\ OldStore(type, note).processAt = 0
    BY <2>1 DEF OldStore, EmptyStore, Store
  <2> QED
    BY <2>2 DEF Dated
<1>4. /\ {"agent.question_asked", "command.finished"} \subseteq EventType
      /\ {"unresolved", "none"} \subseteq Note
  BY DEF EventType, Note
<1>5. Dated(store, 1, 0)
  BY <1>2, <1>3, <1>4 DEF Init
<1> QED
  BY <1>1, <1>5, TypeParts DEF Init

(* What a report or a callback becomes. *)
LEMMA EventType_ ==
  ASSUME TypeOK, CanHappen,
         NEW r \in [type : EventType, note : Note, from : Sender, task : BOOLEAN]
  PROVE  /\ Event(r) \in PostedEvent
         /\ Event(r).at = now /\ Event(r).id = posts + 1 /\ posts + 1 \in 1..MaxPosts
  BY ApiOK DEF Event, PostedEvent, TypeOK, CanHappen

LEMMA CallbackType ==
  ASSUME NEW type \in {"session.ended", "user.resumed"}
  PROVE  [type |-> type, note |-> "none", from |-> Operator, task |-> FALSE]
           \in [type : EventType, note : Note, from : Sender, task : BOOLEAN]
<1>1. type \in EventType /\ "none" \in Note
  BY DEF EventType, Note
<1>2. Operator \in Sender
  BY IngestOK DEF Operator, Sender, Unnamed
<1> QED
  BY <1>1, <1>2

LEMMA ServiceStatus ==
  ASSUME NEW type, NEW old \in RuntimeStatus
  PROVE  StatusFromEventType(type, old) \in RuntimeStatus
  BY DEF StatusFromEventType, RuntimeStatus, Running, Review, Historical, Degraded

LEMMA TypeStep == TypeOK /\ [Next]_vars => TypeOK'
<1> SUFFICES ASSUME TypeOK, [Next]_vars PROVE TypeOK'
  OBVIOUS
<1>1. /\ now \in 1..MaxTime /\ posts \in 0..MaxPosts /\ now \in Nat /\ posts \in Nat
      /\ inFlight \subseteq PostedEvent
      /\ \A e \in inFlight : e.id \in 1..posts /\ e.at \in 1..now
      /\ Dated(store, now, posts) /\ MaxPosts \in Nat /\ MaxTime \in Nat
  BY TypeParts, ApiOK
<1>2. TypeOK' <=>
        /\ now' \in 1..MaxTime /\ posts' \in 0..MaxPosts
        /\ inFlight' \subseteq PostedEvent
        /\ \A e \in inFlight' : e.id \in 1..posts' /\ e.at \in 1..now'
        /\ Dated(store', now', posts')
  BY DEF TypeOK, Dated
<1>3. ASSUME NEW r \in Reports, Post(r) PROVE TypeOK'
  <2>1. r \in [type : EventType, note : Note, from : Sender, task : BOOLEAN]
    BY ApiOK
  <2>2. /\ Event(r) \in PostedEvent /\ Event(r).at = now /\ Event(r).id = posts + 1
        /\ posts + 1 \in 1..MaxPosts
    BY <1>3, <2>1, EventType_ DEF Post
  <2>3. Dated(store, now, posts + 1)
    BY <1>1, DatedLater
  <2>4. /\ inFlight' = inFlight \cup {Event(r)} /\ posts' = posts + 1
        /\ now' = now /\ store' = store
    BY <1>3 DEF Post
  <2>5. \A e \in inFlight' : e.id \in 1..posts' /\ e.at \in 1..now'
    BY <1>1, <2>2, <2>4
  <2> QED
    BY <1>1, <1>2, <2>2, <2>3, <2>4, <2>5
<1>4. ASSUME NEW e \in inFlight, Deliver(e) PROVE TypeOK'
  <2>1. /\ store' = IngestEvents(store, <<e>>) /\ inFlight' = inFlight \ {e}
        /\ now' = now /\ posts' = posts
    BY <1>4 DEF Deliver
  <2>2. Dated(store', now, posts)
    BY <1>1, <2>1, IngestDated
  <2> QED
    BY <1>1, <1>2, <2>1, <2>2
<1>5. ASSUME NEW type \in {"session.ended", "user.resumed"}, Callback(type) PROVE TypeOK'
  <2> DEFINE e == Event([type |-> type, note |-> "none", from |-> Operator, task |-> FALSE])
  <2>1. /\ e \in PostedEvent /\ e.at = now /\ e.id = posts + 1
        /\ posts + 1 \in 1..MaxPosts
    BY <1>5, EventType_, CallbackType DEF Callback
  <2>2. /\ store' = IngestEvents(store, <<e>>) /\ inFlight' = inFlight
        /\ now' = now /\ posts' = posts + 1
    BY <1>5 DEF Callback
  <2> HIDE DEF e
  <2>3. Dated(store, now, posts + 1)
    BY <1>1, DatedLater
  <2>4. Dated(store', now, posts + 1)
    BY <1>1, <2>1, <2>2, <2>3, IngestDated
  <2> QED
    BY <1>1, <1>2, <2>1, <2>2, <2>4
<1>6. ASSUME NEW child \in BOOLEAN, ServiceStart(child) PROVE TypeOK'
  <2>1. CanHappen /\ posts' = posts + 1 /\ now' = now /\ inFlight' = inFlight
        /\ store = EmptyStore
    BY <1>6 DEF ServiceStart
  <2> DEFINE row == [status |-> "running", updatedAt |-> now, completedAt |-> 0,
                     owner |-> Blank, child |-> child, acknowledged |-> FALSE]
             trace == [id |-> posts + 1, type |-> "session.started", at |-> now]
  <2>2. row \in Row /\ row # NoRow
    <3>1. Blank \in Owner /\ "running" \in RuntimeStatus
      BY IngestOK DEF Blank, Owner, Unnamed, RuntimeStatus, Running
    <3>2. row \in Row
      BY <3>1, <1>1 DEF Row
    <3> QED
      BY <3>2, IngestOK
  <2>3. trace \in TraceEvent
    BY <1>1 DEF TraceEvent, RuntimeEventType, Passthrough, MeaningfulEvents
  <2>4. store' = [EmptyStore EXCEPT !.row = row, !.traces = {trace}, !.processAt = now]
    BY <1>6, <2>1 DEF ServiceStart, Trace, EmptyStore
  <2>5. row.updatedAt = now /\ row.completedAt = 0 /\ trace.id = posts + 1 /\ trace.at = now
    OBVIOUS
  <2> HIDE DEF row, trace
  <2>6. /\ store' \in Store /\ store'.session = EmptyStore.session
        /\ store'.events = {} /\ store'.row = row /\ store'.traces = {trace}
        /\ store'.processAt = now
    BY <1>1, <2>2, <2>3, <2>4 DEF EmptyStore, Store
  <2>7. Dated(store', now, posts + 1)
    <3>1. /\ ~store'.session.known
          /\ {store'.session.startedAt, store'.session.endedAt,
              store'.session.lastEventAt, store'.processAt} \subseteq 0..now
      BY <1>1, <2>6 DEF EmptyStore
    <3> QED
      BY <1>1, <2>2, <2>5, <2>6, <3>1 DEF Dated
  <2> QED
    BY <1>1, <1>2, <2>1, <2>7 DEF CanHappen
<1>7. ASSUME NEW type \in ServiceTypes, ServiceEvent(type) PROVE TypeOK'
  <2> DEFINE status == StatusFromEventType(type, store.row.status)
             ended == status \in {"completed", "failed", "cancelled"}
             trace == [id |-> posts + 1, type |-> type, at |-> now]
             traces == store.traces \cup {trace}
             completedAt == IF ended /\ store.row.completedAt = 0 THEN now
                            ELSE store.row.completedAt
  <2>1. /\ CanHappen /\ posts' = posts + 1 /\ now' = now /\ inFlight' = inFlight
        /\ store.processAt # 0
    BY <1>7 DEF ServiceEvent
  <2>2. store \in Store /\ store.row \in Row
    BY <1>1, <2>1 DEF Dated, Store
  <2>3. status \in RuntimeStatus
    BY <2>2, ServiceStatus DEF Row
  <2>4. trace \in TraceEvent /\ trace.id = posts + 1 /\ trace.at = now
    BY <1>1, ApiOK DEF TraceEvent
  <2>5. completedAt \in 0..now
    BY <1>1, <2>1 DEF Dated
  <2> DEFINE row == [store.row EXCEPT !.status = status, !.updatedAt = now,
                                      !.completedAt = completedAt]
  <2>6. store' = [store EXCEPT !.row = row, !.traces = traces, !.processAt = now]
    <3>1. store' = [store EXCEPT
                      !.row.status = status, !.row.updatedAt = now,
                      !.row.completedAt = IF ended /\ @ = 0 THEN now ELSE @,
                      !.traces = Trace(type), !.processAt = now]
      BY <1>7 DEF ServiceEvent
    <3>2. Trace(type) = traces
      BY DEF Trace
    <3> HIDE DEF status, traces
    <3> QED
      BY <3>1, <3>2, <2>2 DEF Store, Row
  <2> HIDE DEF status, trace, completedAt
  <2>7. row \in Row /\ row.updatedAt = now /\ row.completedAt = completedAt
    <3>1. completedAt \in Nat
      BY <2>5, <1>1
    <3> HIDE DEF Dated
    <3> QED
      BY <2>2, <2>3, <3>1, <1>1 DEF Row
  <2>8. row # NoRow
    BY <2>7, IngestOK
  <2> HIDE DEF row
  <2>9. Dated(store, now, posts + 1)
    BY <1>1, DatedLater
  <2>10. Dated(store', now, posts + 1)
    <3>1. store' \in Store
      BY <2>2, <2>4, <2>6, <2>7, <1>1 DEF Store
    <3>2. /\ store'.session = store.session /\ store'.events = store.events
          /\ store'.row = row /\ store'.traces = traces /\ store'.processAt = now
      BY <2>2, <2>6 DEF Store
    <3>3. \A g \in traces : g.id \in 0..(posts + 1) /\ g.at \in 1..now
      BY <2>4, <2>9, <1>1 DEF Dated
    <3>4. now \in 0..now
      BY <1>1
    <3> HIDE DEF traces
    <3> QED
      BY <3>1, <3>2, <3>3, <3>4, <2>5, <2>7, <2>8, <2>9, <1>1 DEF Dated
  <2> QED
    BY <1>1, <1>2, <2>1, <2>10 DEF CanHappen
<1>8. ASSUME NEW type \in {"approval.granted", "approval.denied"}, ServiceAnswer(type)
      PROVE  TypeOK'
  <2> DEFINE trace == [id |-> posts + 1, type |-> type, at |-> now]
             traces == store.traces \cup {trace}
  <2>1. /\ CanHappen /\ posts' = posts + 1 /\ now' = now /\ inFlight' = inFlight
        /\ store' = [store EXCEPT !.traces = traces] /\ store.row # NoRow
    BY <1>8 DEF ServiceAnswer, Trace
  <2>2. trace \in TraceEvent /\ trace.id = posts + 1 /\ trace.at = now
    BY <1>1 DEF TraceEvent, RuntimeEventType, ReviewStateEvents
  <2> HIDE DEF trace
  <2>3. Dated(store, now, posts + 1) /\ store \in Store
    BY <1>1, DatedLater DEF Dated
  <2>4. /\ store' \in Store /\ store'.session = store.session
        /\ store'.events = store.events /\ store'.row = store.row
        /\ store'.traces = traces /\ store'.processAt = store.processAt
    BY <2>1, <2>2, <2>3 DEF Store
  <2>5. \A g \in traces : g.id \in 0..(posts + 1) /\ g.at \in 1..now
    BY <2>2, <2>3, <1>1 DEF Dated
  <2> HIDE DEF traces
  <2>6. Dated(store', now, posts + 1)
    BY <2>1, <2>3, <2>4, <2>5 DEF Dated
  <2> QED
    BY <1>1, <1>2, <2>1, <2>6 DEF CanHappen
<1>9. CASE Restart
  <2>1. store' = store \/ (store.row # NoRow /\ store' = [store EXCEPT !.row.status = "parked"])
    BY <1>9 DEF Restart, Reconciled
  <2>2. CASE store.row # NoRow /\ store' = [store EXCEPT !.row.status = "parked"]
    <3>1. store \in Store /\ store.row \in Row
      BY <1>1, <2>2 DEF Dated, Store
    <3> DEFINE row == [store.row EXCEPT !.status = "parked"]
    <3>2. store' = [store EXCEPT !.row = row]
      BY <2>2, <3>1 DEF Store
    <3>3. /\ row \in Row /\ row # NoRow /\ row.updatedAt = store.row.updatedAt
          /\ row.completedAt = store.row.completedAt
      <4>1. row \in Row
        BY <3>1 DEF Row, RuntimeStatus, Historical
      <4> QED
        BY <4>1, <3>1, IngestOK DEF Row
    <3> HIDE DEF row
    <3>4. /\ store' \in Store /\ store'.session = store.session
          /\ store'.events = store.events /\ store'.row = row
          /\ store'.traces = store.traces /\ store'.processAt = store.processAt
      BY <3>1, <3>2, <3>3 DEF Store
    <3>5. Dated(store', now, posts)
      BY <1>1, <2>2, <3>3, <3>4 DEF Dated
    <3> QED
      BY <1>1, <1>2, <1>9, <3>5 DEF Restart
  <2>3. CASE store' = store
    BY <1>1, <1>2, <1>9, <2>3 DEF Restart
  <2> QED
    BY <2>1, <2>2, <2>3
<1>10. CASE TimePasses
  <2>1. /\ now' = now + 1 /\ now' \in 1..MaxTime /\ store' = store
        /\ inFlight' = inFlight /\ posts' = posts
    BY <1>1, <1>10 DEF TimePasses
  <2>2. Dated(store, now', posts)
    BY <1>1, <2>1, DatedLater
  <2> QED
    BY <1>1, <1>2, <2>1, <2>2
<1>11. CASE UNCHANGED vars
  BY <1>1, <1>2, <1>11 DEF vars
<1> QED
  BY <1>3, <1>4, <1>5, <1>6, <1>7, <1>8, <1>9, <1>10, <1>11 DEF Next

LEMMA StoreDated ==
  TypeOK => now \in Nat /\ posts \in Nat /\ Dated(store, now, posts)
  BY TypeParts, ApiOK

(* For any reports, senders and events of the service: what is stored stays *)
(* in its type, dated and numbered by what has happened, and there are no   *)
(* traces and no process without a row.                                     *)
THEOREM TypeCorrect == Spec => []TypeOK
  BY InitTyped, TypeStep, PTL DEF Spec

(* An event of any kind, from any sender, on any row: when it has been      *)
(* taken in, taking it in again changes nothing.                            *)
THEOREM RedeliveryIsHarmless == Spec => []RedeliveryHarmless
<1>1. TypeOK => RedeliveryHarmless
  <2> SUFFICES ASSUME TypeOK, NEW e \in inFlight
               PROVE  IngestEvents(IngestEvents(store, <<e>>), <<e>>) = IngestEvents(store, <<e>>)
    BY DEF RedeliveryHarmless
  <2>1. store \in Store /\ e \in PostedEvent
    BY DEF TypeOK
  <2> QED
    BY <2>1, IngestAgain
<1> QED
  BY <1>1, TypeCorrect, PTL

------------------------------------------------------------------------------
(* Numbers: events have ids of their own, and one on its way is not stored  *)
(* yet.                                                                     *)
Numbered ==
  /\ \A e, f \in inFlight : e.id = f.id => e = f
  /\ \A e \in inFlight, f \in store.events \cup store.traces : e.id # f.id
  /\ \A e, f \in store.events : e.id = f.id => e = f

LEMMA NumberedInit == Init => Numbered
<1> SUFFICES ASSUME Init PROVE Numbered
  OBVIOUS
<1>1. inFlight = {} /\ store.traces = {}
  <2>1. \A type, note : OldStore(type, note).traces = {}
    BY DEF OldStore, EmptyStore
  <2> QED
    BY <2>1 DEF Init, EmptyStore
<1>2. \A e, f \in store.events : e = f
  <2>1. CASE store = EmptyStore
    BY <2>1 DEF EmptyStore
  <2>2. ASSUME NEW type, NEW note, store = OldStore(type, note)
        PROVE  \A e, f \in store.events : e = f
    <3>1. store.events = {[id |-> 0, type |-> type, note |-> note, at |-> 1]}
      BY <2>2 DEF OldStore, EmptyStore
    <3> QED
      BY <3>1
  <2> QED
    BY <2>1, <2>2 DEF Init
<1> QED
  BY <1>1, <1>2 DEF Numbered

LEMMA NumberedStep == TypeOK /\ Numbered /\ [Next]_vars => Numbered'
<1> SUFFICES ASSUME TypeOK, Numbered, [Next]_vars PROVE Numbered'
  OBVIOUS
<1>1. /\ posts \in Nat /\ store \in Store /\ inFlight \subseteq PostedEvent
      /\ \A e \in inFlight : e.id \in 1..posts
      /\ \A e \in store.events \cup store.traces : e.id \in 0..posts
  BY ApiOK DEF TypeOK
<1>2. ASSUME store'.events = store.events, inFlight' = inFlight,
             \A g \in store'.traces : g \in store.traces \/ g.id = posts + 1
      PROVE  Numbered'
  BY <1>1, <1>2 DEF Numbered
<1>3. ASSUME NEW r \in Reports, Post(r) PROVE Numbered'
  <2>1. /\ Event(r).id = posts + 1 /\ store' = store
        /\ inFlight' = inFlight \cup {Event(r)}
    BY <1>3 DEF Post, Event
  <2> QED
    BY <1>1, <2>1 DEF Numbered
<1>4. ASSUME NEW e \in inFlight, Deliver(e) PROVE Numbered'
  <2>1. store' = IngestEvents(store, <<e>>) /\ inFlight' = inFlight \ {e}
    BY <1>4 DEF Deliver
  <2>2. /\ \A g \in store'.events \cup store'.traces :
             g \in store.events \cup store.traces \/ g.id = e.id
        /\ \A g, h \in store'.events : g.id = h.id => g = h
    BY <1>1, <2>1, IngestNumbers DEF Numbered
  <2> QED
    BY <2>1, <2>2 DEF Numbered
<1>5. ASSUME NEW type \in {"session.ended", "user.resumed"}, Callback(type) PROVE Numbered'
  <2> DEFINE e == Event([type |-> type, note |-> "none", from |-> Operator, task |-> FALSE])
  <2>1. e \in PostedEvent /\ e.id = posts + 1
    BY <1>5, EventType_, CallbackType DEF Callback
  <2>2. store' = IngestEvents(store, <<e>>) /\ inFlight' = inFlight
    BY <1>5 DEF Callback
  <2> HIDE DEF e
  <2>3. /\ \A g \in store'.events \cup store'.traces :
             g \in store.events \cup store.traces \/ g.id = posts + 1
        /\ \A g, h \in store'.events : g.id = h.id => g = h
    BY <1>1, <2>1, <2>2, IngestNumbers DEF Numbered
  <2> QED
    BY <1>1, <2>2, <2>3 DEF Numbered
<1>6. ASSUME NEW child \in BOOLEAN, ServiceStart(child) PROVE Numbered'
  <2>1. /\ inFlight' = inFlight /\ store'.events = store.events
        /\ store'.traces = Trace("session.started")
    BY <1>1, <1>6 DEF ServiceStart, Store
  <2> QED
    BY <1>2, <2>1 DEF Trace
<1>7. ASSUME NEW type \in ServiceTypes, ServiceEvent(type) PROVE Numbered'
  <2>1. /\ inFlight' = inFlight /\ store'.events = store.events
        /\ store'.traces = Trace(type)
    BY <1>1, <1>7 DEF ServiceEvent, Store
  <2> QED
    BY <1>2, <2>1 DEF Trace
<1>8. ASSUME NEW type \in {"approval.granted", "approval.denied"}, ServiceAnswer(type)
      PROVE  Numbered'
  <2>1. /\ inFlight' = inFlight /\ store'.events = store.events
        /\ store'.traces = Trace(type)
    BY <1>1, <1>8 DEF ServiceAnswer, Store
  <2> QED
    BY <1>2, <2>1 DEF Trace
<1>9. CASE Restart
  <2>1. /\ inFlight' = inFlight /\ store'.events = store.events
        /\ store'.traces = store.traces
    BY <1>1, <1>9 DEF Restart, Reconciled, Store
  <2> QED
    BY <1>2, <2>1
<1>10. CASE TimePasses \/ UNCHANGED vars
  BY <1>2, <1>10 DEF TimePasses, vars
<1> QED
  BY <1>3, <1>4, <1>5, <1>6, <1>7, <1>8, <1>9, <1>10 DEF Next

(* What NoRewind says of a step. *)
Rewinds ==
  store.row # NoRow /\ store'.row # NoRow =>
    /\ store'.row.updatedAt >= store.row.updatedAt
    /\ store'.row.updatedAt = store.row.updatedAt /\ store'.traces = store.traces =>
         store'.row.status \in {store.row.status, "parked"}

LEMMA RewindStep == TypeOK /\ Numbered /\ [Next]_vars => Rewinds
<1> SUFFICES ASSUME TypeOK, Numbered, [Next]_vars, store.row # NoRow, store'.row # NoRow
             PROVE  /\ store'.row.updatedAt >= store.row.updatedAt
                    /\ store'.traces = store.traces =>
                         store'.row.status \in {store.row.status, "parked"}
  BY DEF Rewinds
<1>1. /\ posts \in Nat /\ store \in Store /\ inFlight \subseteq PostedEvent
      /\ \A e \in store.events \cup store.traces : e.id \in 0..posts
      /\ store.row \in Row /\ store.row.updatedAt \in Nat /\ now \in Nat
      /\ store.row.updatedAt <= now
  BY ApiOK DEF TypeOK, Store, Row
<1>2. CASE store'.row = store.row
  BY <1>1, <1>2
<1>3. ASSUME NEW r \in Reports, Post(r)
      PROVE  store'.row = store.row
  BY <1>3 DEF Post
<1>4. ASSUME NEW e \in inFlight, Deliver(e)
      PROVE  store'.row.updatedAt >= store.row.updatedAt
             /\ (store'.traces = store.traces => store'.row = store.row)
  <2>1. e \in PostedEvent /\ \A g \in store.traces : g.id # e.id
    BY <1>1 DEF Numbered
  <2> QED
    BY <1>1, <1>4, <2>1, IngestRewindsNothing DEF Deliver
<1>5. ASSUME NEW type \in {"session.ended", "user.resumed"}, Callback(type)
      PROVE  store'.row.updatedAt >= store.row.updatedAt
             /\ (store'.traces = store.traces => store'.row = store.row)
  <2> DEFINE e == Event([type |-> type, note |-> "none", from |-> Operator, task |-> FALSE])
  <2>1. e \in PostedEvent /\ e.id = posts + 1
    BY <1>5, EventType_, CallbackType DEF Callback
  <2>2. \A g \in store.traces : g.id # e.id
    <3> HIDE DEF e
    <3> QED
      BY <1>1, <2>1
  <2>3. store' = IngestEvents(store, <<e>>)
    BY <1>5 DEF Callback
  <2> HIDE DEF e
  <2> QED
    BY <1>1, <2>1, <2>2, <2>3, IngestRewindsNothing
<1>6. ASSUME NEW child \in BOOLEAN, ServiceStart(child) PROVE FALSE
  BY <1>6 DEF ServiceStart, EmptyStore
<1>7. ASSUME NEW type \in ServiceTypes, ServiceEvent(type)
      PROVE  store'.row.updatedAt >= store.row.updatedAt /\ store'.traces # store.traces
  <2>1. store'.row.updatedAt = now /\ store'.traces = Trace(type)
    BY <1>1, <1>7 DEF ServiceEvent, Store, Row
  <2>2. [id |-> posts + 1, type |-> type, at |-> now] \notin store.traces
    BY <1>1
  <2> QED
    BY <1>1, <2>1, <2>2 DEF Trace
<1>8. ASSUME NEW type \in {"approval.granted", "approval.denied"}, ServiceAnswer(type)
      PROVE  store'.row = store.row
  BY <1>1, <1>8 DEF ServiceAnswer, Store
<1>9. CASE Restart
  <2>1. store'.row = store.row \/ store'.row = [store.row EXCEPT !.status = "parked"]
    BY <1>1, <1>9 DEF Restart, Reconciled, Store
  <2> QED
    BY <1>1, <2>1 DEF Row
<1>10. CASE TimePasses \/ UNCHANGED vars
  BY <1>2, <1>10 DEF TimePasses, vars
<1> QED
  BY <1>2, <1>3, <1>4, <1>5, <1>6, <1>7, <1>8, <1>9, <1>10 DEF Next

LEMMA AlwaysNumbered == Spec => []Numbered
  BY InitTyped, TypeStep, NumberedInit, NumberedStep, PTL DEF Spec

(* Whatever arrives late, twice or by another sender's hand: the time of a  *)
(* row never goes back, and its status changes with a new trace only, but   *)
(* for the parking at a start of the API.                                   *)
THEOREM LateEventsRewindNothing == Spec => NoRewind
<1>1. TypeOK /\ Numbered /\ [Next]_vars => Rewinds
  BY RewindStep
<1>2. NoRewind <=> [][Rewinds]_vars
  BY PTL DEF NoRewind, Rewinds
<1> QED
  BY <1>1, <1>2, TypeCorrect, AlwaysNumbered, PTL DEF Spec

------------------------------------------------------------------------------
(* The two statuses: the row's, which the ingest and the service keep, and  *)
(* the one that is read off the traces.  They can only be compared where    *)
(* the row has a status: one that says nothing has heard of no request, no  *)
(* failure and no process.                                                  *)
Silent(s) ==
  s.row # NoRow /\ s.row.status = "unknown" =>
    /\ s.processAt = 0
    /\ \A e \in s.traces : e.type \notin InputRequests \cup Failures
Agree == Silent(store)

LEMMA UnknownStatus ==
  ASSUME NEW type, NEW note, NEW old \in RuntimeStatus \cup {"none"},
         MirrorStatus(type, note, old, "none") = "unknown"
  PROVE  /\ old \in {"none", "unknown"}
         /\ ToRuntimeEvent(type) \notin InputRequests \cup Failures
<1>1. /\ old \in {"none", "unknown"}
      /\ type \in KeepsStatus \cup {"review.resolved", "validation.passed", "input.resolved"}
  BY DEF MirrorStatus, KeepsStatus, RuntimeStatus, Running, NeedsAction, Review,
         Historical, Degraded
<1>2. type \in Passthrough /\ Renames(type) = type
  BY <1>1 DEF KeepsStatus, Passthrough, ContextEvents, MeaningfulEvents, Renames
<1>3. type \notin InputRequests \cup Failures
  BY <1>1 DEF KeepsStatus, InputRequests, Failures
<1> QED
  BY <1>1, <1>2, <1>3 DEF ToRuntimeEvent

LEMMA IngestSilent ==
  ASSUME NEW s \in Store, NEW e \in PostedEvent, NEW t, t = IngestEvents(s, <<e>>),
         Silent(s), s.row = NoRow => s.traces = {} /\ s.processAt = 0
  PROVE  Silent(t)
<1>1. CASE t = s
  BY <1>1
<1>2. CASE t # s
  <2> DEFINE f == AsStored(e)
             old == IF s.row = NoRow THEN "none" ELSE s.row.status
             trace == [id |-> f.id, at |-> f.at, type |-> ToRuntimeEvent(f.type)]
  <2>1. TakenIn(s, f, t)
    BY <1>2, IngestOne, EventIngested
  <2>2. CASE t.row = s.row /\ t.traces = s.traces
    BY <2>1, <2>2 DEF TakenIn, Silent
  <2>3. CASE t.row = MirroredRow(s, f) /\ t.traces = Replaced(s.traces, trace)
    <3> SUFFICES ASSUME t.row.status = "unknown" PROVE Silent(t)
      BY DEF Silent
    <3>1. old \in RuntimeStatus \cup {"none"}
      BY DEF Store, Row
    <3>2. MirrorStatus(f.type, f.note, old, "none") = "unknown"
      BY <2>3 DEF MirroredRow
    <3>3. /\ old \in {"none", "unknown"}
          /\ ToRuntimeEvent(f.type) \notin InputRequests \cup Failures
      <4> HIDE DEF old, f
      <4> QED
        BY <3>1, <3>2, UnknownStatus
    <3>4. trace.type \notin InputRequests \cup Failures
      BY <3>3
    <3>5. /\ s.processAt = 0
          /\ \A g \in s.traces : g.type \notin InputRequests \cup Failures
      <4>1. s.row # NoRow => s.row.status # "none"
        BY DEF Store, Row, RuntimeStatus, Running, NeedsAction, Review, Historical, Degraded
      <4> QED
        BY <3>3, <4>1 DEF Silent
    <3>6. t.processAt = s.processAt
      BY <2>1 DEF TakenIn
    <3> HIDE DEF trace, f
    <3> QED
      BY <2>3, <3>4, <3>5, <3>6 DEF Silent, Replaced
  <2> QED
    BY <2>1, <2>2, <2>3 DEF TakenIn
<1> QED
  BY <1>1, <1>2

LEMMA AgreeStep == TypeOK /\ Agree /\ [Next]_vars => Agree'
<1> SUFFICES ASSUME TypeOK, Agree, [Next]_vars PROVE Silent(store')
  BY DEF Agree
<1>1. /\ store \in Store /\ inFlight \subseteq PostedEvent /\ Silent(store)
      /\ store.row = NoRow => store.traces = {} /\ store.processAt = 0
  BY DEF TypeOK, Agree
<1>2. CASE store' = store
  BY <1>1, <1>2
<1>3. ASSUME NEW e \in inFlight, Deliver(e) PROVE Silent(store')
  BY <1>1, <1>3, IngestSilent DEF Deliver
<1>4. ASSUME NEW type \in {"session.ended", "user.resumed"}, Callback(type)
      PROVE  Silent(store')
  <2> DEFINE e == Event([type |-> type, note |-> "none", from |-> Operator, task |-> FALSE])
  <2>1. e \in PostedEvent /\ store' = IngestEvents(store, <<e>>)
    BY <1>4, EventType_, CallbackType DEF Callback
  <2> HIDE DEF e
  <2> QED
    BY <1>1, <2>1, IngestSilent
<1>5. ASSUME NEW child \in BOOLEAN, ServiceStart(child) PROVE Silent(store')
  <2>1. store'.row.status = "running"
    BY <1>1, <1>5 DEF ServiceStart, Store
  <2> QED
    BY <2>1 DEF Silent
<1>6. ASSUME NEW type \in ServiceTypes, ServiceEvent(type) PROVE Silent(store')
  <2>1. /\ store.processAt # 0 /\ store.row # NoRow /\ store.row \in Row
        /\ store'.row.status = StatusFromEventType(type, store.row.status)
    BY <1>1, <1>6 DEF ServiceEvent, Store, Row
  <2>2. store.row.status # "unknown"
    BY <1>1, <2>1 DEF Silent
  <2>3. store'.row.status # "unknown"
    BY <2>1, <2>2 DEF StatusFromEventType
  <2> QED
    BY <2>3 DEF Silent
<1>7. ASSUME NEW type \in {"approval.granted", "approval.denied"}, ServiceAnswer(type)
      PROVE  Silent(store')
  <2>1. /\ store'.row = store.row /\ store'.processAt = store.processAt
        /\ store'.traces = Trace(type)
    BY <1>1, <1>7 DEF ServiceAnswer, Store
  <2>2. type \notin InputRequests \cup Failures
    BY DEF InputRequests, Failures
  <2> QED
    BY <1>1, <2>1, <2>2 DEF Silent, Trace
<1>8. CASE Restart
  <2>1. store' = store \/ store'.row.status = "parked"
    BY <1>1, <1>8 DEF Restart, Reconciled, Store, Row
  <2> QED
    BY <1>1, <2>1 DEF Silent
<1>9. ASSUME NEW r \in Reports, Post(r) PROVE Silent(store')
  BY <1>1, <1>9 DEF Post
<1>10. CASE TimePasses \/ UNCHANGED vars
  BY <1>1, <1>10 DEF TimePasses, vars
<1> QED
  BY <1>3, <1>4, <1>5, <1>6, <1>7, <1>8, <1>9, <1>10 DEF Next

LEMMA AgreeInit == Init => Agree
<1>1. \A type, note : OldStore(type, note).row = NoRow
  BY DEF OldStore, EmptyStore
<1> QED
  BY <1>1 DEF Init, EmptyStore, Agree, Silent

LEMMA AlwaysAgree == Spec => []Agree
  BY InitTyped, TypeStep, AgreeInit, AgreeStep, PTL DEF Spec

LEMMA DemandShown ==
  ASSUME NEW row, NEW hint \in {"blocked", "needs_input"}, NEW at,
         row.status \in RuntimeStatus \ (Historical \cup {"paused", "unknown"}),
         ~row.mirror, ~row.child, hint = "blocked" => HasSignal(row, at)
  PROVE  LET item == RuntimeItem(row, hint, at)
         IN (item.board /\ item.action) \/ item.reason \in AgedOut
<1> DEFINE card == ProjectRuntime(row, hint, at)
           item == Shows(row, card, at)
<1>1. RuntimeItem(row, hint, at) = item
  BY DEF RuntimeItem, Shows
<1> SUFFICES (item.board /\ item.action) \/ item.reason \in AgedOut
  BY <1>1
<1> USE DEF Running, NeedsAction, Review, Historical, Degraded
<1>2. CASE card \in {Gone(reason) : reason \in AgedOut}
  BY <1>2, AgedOutShows
<1>3. CASE row.status \in Running /\ ~StaleRow(row, at)
  <2>1. card = IF hint = "blocked" THEN Card("degraded_active", "blocked_or_failed")
               ELSE Card("needs_action", "waiting_for_input")
    BY <1>3 DEF ProjectRuntime, ProjectHinted, StaleRow
  <2> QED
    BY <1>3, <2>1, WaitingShows, DegradedShows
<1>4. CASE row.status \in NeedsAction /\ ~StaleRow(row, at)
  <2>1. card = Card("needs_action", IF row.status = "awaiting_assignment"
                                    THEN "awaiting_assignment" ELSE "waiting_for_input")
    BY <1>4 DEF ProjectRuntime, ProjectByStatus, ProjectWaiting, StaleRow
  <2> QED
    BY <1>4, <2>1, WaitingShows, AssignmentShows
<1>5. CASE row.status \in Review /\ ~StaleRow(row, at)
  <2>1. card \in {Gone("stale_review"), Card("review", "awaiting_review")}
    BY <1>5 DEF ProjectRuntime, ProjectByStatus, ReviewCard, StaleRow
  <2>2. CASE card = Gone("stale_review")
    BY <1>2, <2>2 DEF AgedOut
  <2>3. CASE card = Card("review", "awaiting_review")
    <3>1. row.status \in RuntimeStatus \ {"awaiting_assignment"}
      BY <1>5
    <3> QED
      BY <2>3, <3>1, ReviewShows
  <2> QED
    BY <2>1, <2>2, <2>3
<1>6. CASE row.status \in Degraded /\ ~StaleRow(row, at)
  <2>1. card = Card("degraded_active", "blocked_or_failed")
    BY <1>6 DEF ProjectRuntime, ProjectByStatus, ProjectDegraded, StaleRow
  <2> QED
    BY <1>6, <2>1, DegradedShows
<1>7. CASE StaleRow(row, at)
  <2>1. card \in {Gone("stale_degraded"), Gone("stale_needs_action")}
    BY <1>7 DEF ProjectRuntime, StaleRow
  <2> QED
    BY <1>2, <2>1 DEF AgedOut
<1> QED
  BY <1>3, <1>4, <1>5, <1>6, <1>7 DEF RuntimeStatus

(* A request for input or a failure that is not settled is on the board,    *)
(* with an action, in whatever order the reports came, whoever sent them    *)
(* and whatever the service wrote in between, until it is older than a week *)
(* or a day: the two statuses never drift so far apart that the board sees  *)
(* neither.                                                                 *)
THEOREM DemandsAreShown == Spec => []RequestsAreShown
<1>1. TypeOK /\ Agree => RequestsAreShown
  <2> SUFFICES ASSUME TypeOK, Agree,
                      store.row # NoRow, ~store.row.owner.mirror, ~store.row.child,
                      store.row.status \notin Historical \cup {"paused"},
                      InputPending(store.traces) \/ FailurePending(store.traces)
               PROVE  (Answer.board /\ Answer.action) \/ Answer.reason \in AgedOut
    BY DEF RequestsAreShown
  <2> DEFINE row == RowOf(store)
             hint == IF FailurePending(store.traces) THEN "blocked" ELSE "needs_input"
  <2>1. /\ row.status = store.row.status /\ row.mirror = store.row.owner.mirror
        /\ row.child = store.row.child /\ row.events = store.traces
    BY DEF RowOf
  <2>2. PICK e \in store.traces :
          e.type \in (IF FailurePending(store.traces) THEN Failures ELSE InputRequests)
    BY DEF InputPending, FailurePending, LastIs
  <2>3. row.status \in RuntimeStatus \ (Historical \cup {"paused", "unknown"})
    <3>1. store.row.status \in RuntimeStatus
      BY DEF TypeOK, Store, Row
    <3> QED
      BY <2>1, <2>2, <3>1 DEF Agree, Silent
  <2>4. Hint(store, now) = hint
    <3>1. StatusHint(store.traces) = hint
      BY DEF StatusHint
    <3> QED
      BY <3>1 DEF Hint, CanonicalHint
  <2>5. hint = "blocked" => HasSignal(row, now)
    <3> SUFFICES ASSUME hint = "blocked"
                 PROVE  Newest({LastHeartbeat(row), LastActivity(row), LastSignal(row)}) # 0
      BY DEF HasSignal
    <3>1. Significance(e.type) = "meaningful_activity"
      BY <2>2, FailuresAreActivity
    <3>2. e.at \in TimesOf(row, "meaningful_activity")
      BY <2>1, <3>1 DEF TimesOf
    <3>3. e.at <= LastActivity(row)
      BY <3>2, StoreDated, TimesAreDated, NewestIs DEF LastActivity
    <3>4. e.at \in 1..now /\ now \in Nat
      BY ApiOK DEF TypeOK
    <3> HIDE DEF row
    <3> QED
      BY <3>3, <3>4, StoreDated, HeardIs, NewestIs DEF row
  <2>6. Answer = RuntimeItem(row, hint, now)
    BY <2>4 DEF Answer, Board
  <2> HIDE DEF row
  <2> QED
    BY <2>1, <2>3, <2>5, <2>6, DemandShown
<1> QED
  BY <1>1, TypeCorrect, AlwaysAgree, PTL

------------------------------------------------------------------------------
(* The board as time passes. *)

(* What TimeDemandsNothing and DemandsLeaveByAge say of a step. *)
DemandsNothing ==
  now' # now =>
    LET later == Board(store, now')
    IN /\ later.action => Answer.action \/ WaitsUnseen
       /\ later.board => Answer.board \/ WaitsUnseen \/ later.primary = "running"
LeavesByAge ==
  now' # now /\ Answer.board /\ Answer.action =>
    LET later == Board(store, now')
    IN ~later.board =>
         \/ later.reason = "stale_review" /\ Older(Heard, now', ReviewStaleMs)
         \/ /\ later.reason \in AgedOut \ {"stale_review"}
            /\ Older(Heard, now', ActionableStaleMs)
            /\ store.row = NoRow \/ Alive(RowOf(store), now') # "yes"

LEMMA TimeStep ==
  ASSUME TypeOK, [Next]_vars, now' # now
  PROVE  now' = now + 1 /\ now \in Nat
<1>1. now \in Nat
  BY ApiOK DEF TypeOK
<1> QED
  BY <1>1 DEF Next, Post, Deliver, Callback, ServiceStart, ServiceEvent, ServiceAnswer,
     Restart, TimePasses, vars

(* For any windows, reports and events of the service: no tick of the clock *)
(* asks for the operator, but for the one wait the hint had hidden.         *)
THEOREM TimeAsksForNobody == Spec => TimeDemandsNothing
<1>1. TypeOK /\ Numbered /\ [Next]_vars => DemandsNothing
  <2> SUFFICES ASSUME TypeOK, Numbered, [Next]_vars, now' # now
               PROVE  LET later == Board(store, now')
                      IN /\ later.action => Answer.action \/ WaitsUnseen
                         /\ later.board => Answer.board \/ WaitsUnseen
                                             \/ later.primary = "running"
    BY DEF DemandsNothing
  <2>1. now' = now + 1
    BY TimeStep
  <2>2. CASE store.row = NoRow
    BY <2>1, <2>2, StoreDated, LegacyLater DEF Answer
  <2>3. CASE store.row # NoRow
    BY <2>1, <2>3, StoreDated, RowLater DEF Answer, Fades, HiddenWait, WaitsUnseen, Numbered
  <2> QED
    BY <2>2, <2>3
<1>2. TimeDemandsNothing <=> [][DemandsNothing]_vars
  BY PTL DEF TimeDemandsNothing, DemandsNothing
<1> QED
  BY <1>1, <1>2, TypeCorrect, AlwaysNumbered, PTL DEF Spec

(* And no tick takes a demand away before its time, unheard or without the  *)
(* reason.                                                                  *)
THEOREM TimeHidesNothingEarly == Spec => DemandsLeaveByAge
<1>1. TypeOK /\ Numbered /\ [Next]_vars => LeavesByAge
  <2> SUFFICES ASSUME TypeOK, Numbered, [Next]_vars, now' # now, Answer.board, Answer.action,
                      ~Board(store, now').board
               PROVE  LET later == Board(store, now')
                      IN \/ later.reason = "stale_review" /\ Older(Heard, now', ReviewStaleMs)
                         \/ /\ later.reason \in AgedOut \ {"stale_review"}
                            /\ Older(Heard, now', ActionableStaleMs)
                            /\ store.row = NoRow \/ Alive(RowOf(store), now') # "yes"
    BY DEF LeavesByAge
  <2>1. now' = now + 1
    BY TimeStep
  <2>2. CASE store.row = NoRow
    BY <2>1, <2>2, StoreDated, LegacyLater DEF Answer, Heard, AgedOut
  <2>3. CASE store.row # NoRow
    BY <2>1, <2>3, StoreDated, RowLater DEF Answer, Fades, Heard, StaleRow, IsStaleActionable,
       Numbered
  <2> QED
    BY <2>2, <2>3
<1>2. DemandsLeaveByAge <=> [][LeavesByAge]_vars
  BY PTL DEF DemandsLeaveByAge, LeavesByAge
<1> QED
  BY <1>1, <1>2, TypeCorrect, AlwaysNumbered, PTL DEF Spec
=============================================================================
