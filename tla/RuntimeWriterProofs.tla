-------------------------- MODULE RuntimeWriterProofs --------------------------
(***************************************************************************)
(* Proofs about RuntimeWriter, for any agents, hooks, sessions, windows    *)
(* and numbers of ticks, changes and faults: its type invariant, and that  *)
(* the writer's heartbeats keep a session alive by its own signals only.   *)
(***************************************************************************)
EXTENDS RuntimeWriter, AndonIngestProofs, FiniteSetTheorems

(* How late a session's heartbeats may be: the active one's are tied to its *)
(* own signals, a former one's have only happened.                          *)
Signals ==
  {session.updatedAt, sidecar[Shared].at, sidecar[AgentOf[session.id]].at}
Limit(s) == IF s = session.id THEN StaleSessionMs + Newest(Signals) ELSE now

(* No event of a time has a greater id. *)
LastId == now * 9 + 8

Saved == [started : Session \cup {0}, beatAt : 0..now, lifecycle : Turn \cup {"none"},
          assertedAt : 0..now]

Sessions(n) == [id : Session \cup {0}, startedAt : 0..n, updatedAt : 0..n,
                completion : BOOLEAN]
Watches == [changed : BOOLEAN, turn : Turn \cup {"none"}]

Times ==
  /\ now \in 1..MaxTime /\ polled \in BOOLEAN /\ changes \in 0..MaxChanges
  /\ faults \in 0..MaxFaults
  /\ session \in Sessions(now)
  /\ session.id # 0 => session.startedAt \in 1..now
  /\ sidecar \in [Agent \cup {Shared} -> {NoTurn} \cup [turn : Turn, at : 1..now]]
  /\ watched \in Watches
  /\ saved \in Saved

(* What is stored and what is on its way, of each session: dated, and no    *)
(* heartbeat later than its limit.                                          *)
Good(s) == DatedStores(now, LastId, Limit(s))
Kind(s) == DatedEvents(now, LastId, Limit(s))
Waits(t) ==
  /\ t \in [session : Session, at : 1..now, events : Seq(PostedEvent),
             saving : Saved, answered : BOOLEAN]
  /\ t.events \in Seq(Kind(t.session))
  /\ Len(t.events) \in 1..3

Bounded ==
  /\ DOMAIN stores = Session /\ stores = [s \in Session |-> stores[s]]
  /\ \A s \in Session : stores[s] \in Good(s)
  /\ \A t \in ticks : Waits(t)

IInv == Times /\ Bounded

LEMMA SessionsAreNumbers == \A s \in Session : s \in Nat /\ s # 0
<1>1. Cardinality(Session) \in Nat
  BY WriterOK, FS_CardinalityType
<1> QED
  BY <1>1, WriterOK

LEMMA TurnTimes ==
  ASSUME NEW n \in Nat,
         NEW car \in [Agent \cup {Shared} -> {NoTurn} \cup [turn : Turn, at : 1..n]],
         NEW a \in Agent \cup {Shared}
  PROVE  car[a] \in {NoTurn} \cup [turn : Turn, at : 1..n] /\ car[a].at \in 0..n
<1>1. \A x \in {NoTurn} \cup [turn : Turn, at : 1..n] : x.at \in 0..n
  BY DEF NoTurn
<1> QED
  BY <1>1

LEMMA TurnsAre ==
  ASSUME Times, session.id # 0
  PROVE  /\ AgentOf[session.id] \in Agent /\ now \in Nat
         /\ TurnSignal \in {sidecar[AgentOf[session.id]], sidecar[Shared]}
         /\ TurnSignal \in {NoTurn} \cup [turn : Turn, at : 1..now]
         /\ Signals \in SUBSET (0..now) /\ Newest(Signals) \in 0..now
<1>1. session.id \in Session /\ now \in Nat
  BY WriterOK DEF Times, Sessions
<1>2. AgentOf[session.id] \in Agent
  BY <1>1, WriterOK
<1>3. \A a \in Agent \cup {Shared} :
        sidecar[a] \in {NoTurn} \cup [turn : Turn, at : 1..now] /\ sidecar[a].at \in 0..now
  BY <1>1, TurnTimes DEF Times
<1>4. session.updatedAt \in 0..now
  BY DEF Times, Sessions
<1>5. Signals \in SUBSET (0..now)
  BY <1>2, <1>3, <1>4 DEF Signals
<1> QED
  BY <1>1, <1>2, <1>3, <1>5, NewestIs DEF TurnSignal, TurnOf

LEMMA LimitType ==
  ASSUME Times, NEW s \in Session
  PROVE  Limit(s) \in Nat /\ now \in Nat /\ LastId \in Nat
<1>1. now \in Nat /\ StaleSessionMs \in Nat
  BY WriterOK DEF Times, Sessions
<1>2. s = session.id => Newest(Signals) \in 0..now
  BY SessionsAreNumbers, TurnsAre
<1> QED
  BY <1>1, <1>2 DEF Limit, LastId

(* What may be posted at a time n. *)
LEMMA PostedType ==
  ASSUME NEW n \in Nat, NEW limit \in Nat, NEW at \in 1..n, NEW from \in {Writer, Cli},
         NEW type \in {Kinds[i] : i \in DOMAIN Kinds}, NEW note \in {"none", "signal"},
         type = "session.heartbeat" => at <= limit,
         type = "agent.summary_emitted" => from = Cli
  PROVE  Posted(type, note, from, at) \in DatedEvents(n, n * 9 + 8, limit)
<1> DEFINE e == Posted(type, note, from, at)
<1>1. PICK i \in 1..8 : Kinds[i] = type
  BY DEF Kinds
<1>2. Rank(type) \in 1..8
  <2>1. DOMAIN Kinds = 1..8
    BY DEF Kinds
  <2>2. \E j \in DOMAIN Kinds : Kinds[j] = type
    BY <1>1, <2>1
  <2> QED
    BY <2>1, <2>2 DEF Rank
<1>3. type \in {"session.ended", "session.started", "task.started",
                "session.checkpoint_created", "agent.summary_emitted",
                "session.needs_input", "work.started", "session.heartbeat"}
  BY DEF Kinds
<1>4. type \in EventType /\ note \in Note /\ from \in Sender
  BY <1>3, SendersOK DEF EventType, Passthrough, MeaningfulEvents, Note
<1>5. PICK id \in 0..(n * 9 + 8) :
        e = [id |-> id, at |-> at, type |-> type, note |-> note, from |-> from, task |-> FALSE]
  <2>1. Len(Kinds) = 8
    BY DEF Kinds
  <2>2. 0 \in 0..(n * 9 + 8) /\ at * 9 + Rank(type) \in 0..(n * 9 + 8)
    BY <1>2
  <2> DEFINE number == IF type = "session.started" /\ from = Writer THEN 0
                       ELSE at * 9 + Rank(type)
  <2>3. e = [id |-> number, at |-> at, type |-> type, note |-> note, from |-> from,
             task |-> FALSE]
    BY <2>1 DEF Posted
  <2>4. number \in 0..(n * 9 + 8)
    BY <2>2
  <2> HIDE DEF number, e
  <2> QED
    BY <2>3, <2>4
<1> HIDE DEF e
<1>6. /\ e \in PostedEvent /\ e.id = id /\ e.at = at /\ e.type = type /\ e.note = note
      /\ e.from = from
  <2>1. id \in Nat /\ at \in Nat
    OBVIOUS
  <2> QED
    BY <1>4, <1>5, <2>1 DEF PostedEvent
<1>7. AsStored(e).type = "session.heartbeat" => type = "session.heartbeat"
  <2>1. AsStored(e).type = Normalized(type, note, from.writer)
    BY <1>6 DEF AsStored, PostedEvent
  <2>2. /\ type = "agent.summary_emitted" => ~from.writer
        /\ note # "branch" /\ note # "heartbeat"
    BY DEF Cli
  <2>3. CASE type = "agent.summary_emitted"
    <3>1. from.writer = FALSE
      BY <2>3 DEF Cli
    <3>2. Normalized(type, note, from.writer) = "agent.summary_emitted"
      BY <2>2, <2>3, <3>1 DEF Normalized
    <3> QED
      BY <2>1, <3>2
  <2>4. CASE type # "agent.summary_emitted"
    BY <2>1, <2>2, <2>4 DEF Normalized
  <2> QED
    BY <2>3, <2>4
<1> QED
  BY <1>5, <1>6, <1>7 DEF DatedEvents, e

------------------------------------------------------------------------------
(* The parts of a step: a tick that begins, and a command's posts. *)

(* Three optional events. *)
LEMMA ThreeEvents ==
  ASSUME NEW S, NEW a \in {<<x>> : x \in S} \cup {<<>>},
         NEW b \in {<<x>> : x \in S} \cup {<<>>}, NEW c \in {<<x>> : x \in S} \cup {<<>>}
  PROVE  a \o b \o c \in Seq(S) /\ Len(a \o b \o c) \in 0..3
<1>1. ASSUME NEW d \in {<<x>> : x \in S} \cup {<<>>}
      PROVE  d \in Seq(S) /\ \E n \in {0, 1} : Len(d) = n
  <2>1. CASE d = <<>>
    BY <2>1, EmptySeq
  <2>2. CASE d # <<>>
    <3>1. PICK x \in S : d = <<x>>
      BY <2>2
    <3>2. <<x>> \in Seq(S) /\ Len(<<x>>) = 1
      OBVIOUS
    <3> QED
      BY <3>1, <3>2
  <2> QED
    BY <2>1, <2>2
<1>2. PICK i \in {0, 1}, j \in {0, 1}, k \in {0, 1} :
        Len(a) = i /\ Len(b) = j /\ Len(c) = k
  BY <1>1
<1>3. a \o b \in Seq(S) /\ Len(a \o b) = i + j
  BY <1>1, <1>2, ConcatProperties
<1>4. a \o b \o c \in Seq(S) /\ Len(a \o b \o c) = (i + j) + k
  BY <1>1, <1>2, <1>3, ConcatProperties
<1>5. (i + j) + k \in 0..3
  OBVIOUS
<1> QED
  BY <1>4, <1>5

LEMMA EventsDueType ==
  ASSUME Times, session.id # 0, Fresh
  PROVE  EventsDue \in Seq(Kind(session.id)) /\ Len(EventsDue) \in 0..3
<1> DEFINE S == DatedEvents(now, LastId, Limit(session.id))
           started == Posted("session.started", "none", Writer, session.startedAt)
           turn == Posted(IF Desired = "waiting" THEN "session.needs_input" ELSE "work.started",
                          "none", Writer, now)
           beat == Posted("session.heartbeat", "none", Writer, now)
<1>1. session.id \in Session /\ now \in Nat /\ now \in 1..now /\ session.startedAt \in 1..now
  BY WriterOK DEF Times, Sessions
<1>2. Limit(session.id) \in Nat /\ LastId = now * 9 + 8
  BY <1>1, LimitType DEF LastId
<1>3. now <= Limit(session.id)
  <2>1. {session.updatedAt, TurnSignal.at} \in SUBSET Signals
    BY TurnsAre DEF Signals
  <2>2. Newest({session.updatedAt, TurnSignal.at}) <= Newest(Signals)
    <3>1. \A x \in {session.updatedAt, TurnSignal.at} : x \in 0..now /\ x <= x
      BY <2>1, TurnsAre
    <3>2. \A x \in {session.updatedAt, TurnSignal.at} : \E y \in Signals : x <= y
      BY <2>1, <3>1
    <3> QED
      BY <1>1, <2>1, <3>1, <3>2, TurnsAre, NewestGrows
  <2>3. Newest({session.updatedAt, TurnSignal.at}) \in 0..now
    BY <1>1, <2>1, TurnsAre, NewestIs
  <2> QED
    BY <1>1, <2>2, <2>3, TurnsAre, WriterOK DEF Fresh, Limit
<1>4. \A type \in {"session.ended", "session.started", "task.started",
                   "session.checkpoint_created", "agent.summary_emitted",
                   "session.needs_input", "work.started", "session.heartbeat"} :
        type \in {Kinds[i] : i \in DOMAIN Kinds}
  BY DEF Kinds
<1> HIDE DEF Kinds
<1>5. started \in S /\ turn \in S /\ beat \in S
  <2>1. started \in S
    BY <1>1, <1>2, <1>4, PostedType
  <2>2. turn \in S
    BY <1>1, <1>2, <1>4, PostedType
  <2>3. beat \in S
    BY <1>1, <1>2, <1>3, <1>4, PostedType
  <2> QED
    BY <2>1, <2>2, <2>3
<1>6. EventsDue = (IF StartDue THEN <<started>> ELSE <<>>) \o
                  (IF AssertDue THEN <<turn>> ELSE <<>>) \o
                  (IF BeatDue THEN <<beat>> ELSE <<>>)
  BY DEF EventsDue
<1> HIDE DEF S, started, turn, beat
<1> DEFINE S1 == {<<x>> : x \in S} \cup {<<>>}
<1>7. /\ (IF StartDue THEN <<started>> ELSE <<>>) \in S1
      /\ (IF AssertDue THEN <<turn>> ELSE <<>>) \in S1
      /\ (IF BeatDue THEN <<beat>> ELSE <<>>) \in S1
  BY <1>5
<1>8. EventsDue \in Seq(S) /\ Len(EventsDue) \in 0..3
  BY <1>6, <1>7, ThreeEvents
<1> QED
  BY <1>8 DEF S, Kind

LEMMA SavingType ==
  ASSUME Times, session.id # 0
  PROVE  Saving \in Saved
<1>1. session.id \in Session /\ now \in 0..now /\ now \in Nat
  BY WriterOK DEF Times, Sessions
<1>2. Desired \in Turn
  <2>1. TurnSignal.turn \in Turn \cup {"none"}
    BY TurnsAre DEF NoTurn
  <2> QED
    BY <2>1 DEF Desired, Turn
<1> QED
  BY <1>1, <1>2 DEF Saving, Saved, Times

LEMMA BeginStep ==
  ASSUME IInv, Begin
  PROVE  /\ saved' \in Saved
         /\ \A t \in ticks' : t \in ticks \/ Waits(t)
<1>1. saved \in Saved /\ now \in Nat /\ now \in 1..now
  BY WriterOK DEF IInv, Times, Sessions
<1>2. CASE Active /\ Fresh /\ EventsDue # <<>>
  <2> DEFINE new == [session |-> session.id, at |-> now, events |-> EventsDue,
                     saving |-> Saving, answered |-> FALSE]
  <2>1. ticks' = ticks \cup {new} /\ saved' = saved
    BY <1>2 DEF Begin
  <2>2. Saving \in Saved /\ session.id \in Session
    BY <1>2, SavingType DEF IInv, Active, Times, Sessions
  <2>3. EventsDue \in Seq(Kind(session.id)) /\ Len(EventsDue) \in 0..3
    BY <1>2, EventsDueType DEF IInv, Active
  <2>4. EventsDue \in Seq(PostedEvent)
    <3>1. Kind(session.id) \subseteq PostedEvent
      BY DEF Kind, DatedEvents
    <3> QED
      BY <2>3, <3>1, SeqMonotonic
  <2>5. Len(EventsDue) \in 1..3
    <3>1. Len(EventsDue) \in Nat \ {0}
      BY <1>2, <2>3, EmptySeq
    <3> QED
      BY <2>3, <3>1
  <2> HIDE DEF EventsDue, Saving
  <2>6. /\ new.session = session.id /\ new.events = EventsDue
        /\ new \in [session : Session, at : 1..now, events : Seq(PostedEvent),
                    saving : Saved, answered : BOOLEAN]
    BY <1>1, <2>2, <2>4
  <2> HIDE DEF new
  <2> QED
    BY <1>1, <2>1, <2>3, <2>5, <2>6 DEF Waits
<1>3. CASE ~(Active /\ Fresh /\ EventsDue # <<>>)
  <2>1. ticks' = ticks /\ saved' = IF Active /\ Fresh THEN Saving ELSE saved
    BY <1>3 DEF Begin
  <2> QED
    BY <1>1, <2>1, SavingType DEF IInv, Active
<1> QED
  BY <1>2, <1>3

LEMMA MayPostStep ==
  ASSUME IInv, NEW s \in Session, NEW batch \in Seq(Kind(s)),
         NEW len \in 0..3, Len(batch) = len, MayPost(s, batch)
  PROVE  /\ faults' \in 0..MaxFaults
         /\ DOMAIN stores' = Session /\ stores' = [r \in Session |-> stores'[r]]
         /\ \A r \in Session : stores'[r] \in Good(r)
<1>1. IngestEvents(stores[s], batch) \in Good(s)
  <2>1. now \in Nat /\ LastId \in Nat /\ Limit(s) \in Nat
    BY LimitType DEF IInv
  <2>2. stores[s] \in Good(s)
    BY DEF IInv, Bounded
  <2> QED
    BY <2>1, <2>2, BatchKeepsDates DEF Good, Kind
<1>2. faults \in 0..MaxFaults /\ MaxFaults \in Nat
  BY WriterOK DEF IInv, Times, Sessions
<1>3. CASE stores' = [stores EXCEPT ![s] = IngestEvents(@, batch)] /\ UNCHANGED faults
  <2> HIDE DEF Good
  <2> QED
    BY <1>1, <1>2, <1>3 DEF IInv, Bounded
<1>4. CASE faults < MaxFaults /\ faults' = faults + 1 /\ UNCHANGED stores
  BY <1>2, <1>4 DEF IInv, Bounded
<1> QED
  BY <1>3, <1>4 DEF MayPost

(* What a command posts is no heartbeat. *)
LEMMA CommandsPost ==
  ASSUME IInv, NEW s \in Session,
         NEW type \in {"session.ended", "session.started", "task.started",
                       "session.checkpoint_created", "agent.summary_emitted"},
         NEW note \in {"none", "signal"}
  PROVE  Posted(type, note, Cli, now) \in Kind(s)
<1>1. now \in Nat /\ now \in 1..now /\ Limit(s) \in Nat /\ LastId = now * 9 + 8
  BY LimitType DEF IInv, Times, LastId
<1>2. type \in {Kinds[i] : i \in DOMAIN Kinds}
  BY DEF Kinds
<1>3. type # "session.heartbeat"
  OBVIOUS
<1> HIDE DEF Kinds
<1> QED
  BY <1>1, <1>2, <1>3, PostedType DEF Kind

(* The commands. *)
Command ==
  \/ StartNew \/ Handoff \/ \E completion \in BOOLEAN : Checkpoint(completion)

LEMMA CommandStep ==
  ASSUME IInv, Command
  PROVE  /\ faults' \in 0..MaxFaults
         /\ DOMAIN stores' = Session /\ stores' = [r \in Session |-> stores'[r]]
         /\ \A r \in Session : stores'[r] \in Good(r)
<1> HIDE DEF Cli, Kind, Good, MayPost, Posted
<1>1. CASE StartNew
  <2> DEFINE s == session.id + 1
             a == Posted("session.started", "none", Cli, now)
             b == Posted("task.started", "none", Cli, now)
  <2>1. s \in Session /\ MayPost(s, <<a, b>>)
    BY <1>1 DEF StartNew
  <2>2. a \in Kind(s) /\ b \in Kind(s)
    BY <2>1, CommandsPost
  <2> HIDE DEF a, b, s
  <2>3. <<a, b>> \in Seq(Kind(s)) /\ Len(<<a, b>>) = 2
    BY <2>2
  <2>4. 2 \in 0..3
    OBVIOUS
  <2> QED
    BY <2>1, <2>3, <2>4, MayPostStep
<1>2. CASE Handoff
  <2> DEFINE s == session.id
             a == Posted("session.ended", "none", Cli, now)
  <2>1. s \in Session /\ MayPost(s, <<a>>)
    BY <1>2 DEF Handoff, Active, IInv, Times, Sessions
  <2>2. a \in Kind(s)
    BY <2>1, CommandsPost
  <2> HIDE DEF a, s
  <2>3. <<a>> \in Seq(Kind(s)) /\ Len(<<a>>) = 1
    BY <2>2
  <2>4. 1 \in 0..3
    OBVIOUS
  <2> QED
    BY <2>1, <2>3, <2>4, MayPostStep
<1>3. ASSUME NEW completion \in BOOLEAN, Checkpoint(completion)
      PROVE  /\ faults' \in 0..MaxFaults
             /\ DOMAIN stores' = Session /\ stores' = [r \in Session |-> stores'[r]]
             /\ \A r \in Session : stores'[r] \in Good(r)
  <2> DEFINE s == session.id
             a == Posted("session.checkpoint_created", "none", Cli, now)
             b == Posted("agent.summary_emitted", "signal", Cli, now)
             rest == IF completion THEN <<b>> ELSE <<>>
  <2>1. s \in Session /\ MayPost(s, <<a>> \o rest)
    BY <1>3 DEF Checkpoint, Active, IInv, Times, Sessions
  <2>2. a \in Kind(s) /\ b \in Kind(s)
    BY <2>1, CommandsPost
  <2> HIDE DEF a, b, s
  <2> DEFINE S1 == {<<x>> : x \in Kind(s)} \cup {<<>>}
  <2>3. <<>> \in S1 /\ <<a>> \in S1 /\ rest \in S1
    BY <2>2
  <2>4. /\ <<>> \o <<a>> \o rest \in Seq(Kind(s))
        /\ \E len \in 0..3 : Len(<<>> \o <<a>> \o rest) = len
    BY <2>3, ThreeEvents
  <2>5. <<>> \o <<a>> = <<a>>
    OBVIOUS
  <2> HIDE DEF rest
  <2>6. <<a>> \o rest \in Seq(Kind(s)) /\ \E len \in 0..3 : Len(<<a>> \o rest) = len
    BY <2>4, <2>5
  <2> QED
    BY <2>1, <2>6, MayPostStep
<1> QED
  BY <1>1, <1>2, <1>3 DEF Command

------------------------------------------------------------------------------
(* A step. *)

LEMMA SignalsStep ==
  ASSUME IInv, [Next]_vars
  PROVE  /\ now' \in 1..MaxTime /\ now <= now'
         /\ session' \in {session, NoSession, Started(session.id + 1)}
                \cup {[session EXCEPT !.updatedAt = now, !.completion = c] : c \in BOOLEAN}
         /\ \/ sidecar' = sidecar
            \/ \E a \in Agent \cup {Shared}, turn \in Turn :
                 sidecar' = [sidecar EXCEPT ![a] = [turn |-> turn, at |-> now]]
<1>1. now \in 1..MaxTime /\ now \in Nat /\ MaxTime \in Nat
  BY WriterOK DEF IInv, Times, Sessions
<1>2. CASE StartNew
  BY <1>1, <1>2 DEF StartNew
<1>3. CASE Handoff
  BY <1>1, <1>3 DEF Handoff
<1>4. ASSUME NEW completion \in BOOLEAN, Checkpoint(completion)
      PROVE  /\ now' = now /\ sidecar' = sidecar
             /\ session' = [session EXCEPT !.updatedAt = now, !.completion = completion]
  BY <1>4 DEF Checkpoint
<1>5. ASSUME NEW a \in Hooks, NEW turn \in Turn, Hook(a, turn)
      PROVE  /\ now' = now /\ session' = session /\ a \in Agent \cup {Shared}
             /\ sidecar' = [sidecar EXCEPT ![a] = [turn |-> turn, at |-> now]]
  BY <1>5, WriterOK DEF Hook
<1>6. ASSUME Poll \/ Watch \/ Restart \/ \E t \in ticks : Arrive(t) \/ Save(t) \/ Fail(t)
      PROVE  now' = now /\ session' = session /\ sidecar' = sidecar
  <2>1. CASE Poll
    BY <2>1 DEF Poll
  <2>2. CASE Watch
    BY <2>2 DEF Watch
  <2>3. CASE Restart
    BY <2>3 DEF Restart
  <2>4. ASSUME NEW t \in ticks, Arrive(t) \/ Save(t) \/ Fail(t)
        PROVE  now' = now /\ session' = session /\ sidecar' = sidecar
    BY <2>4 DEF Arrive, Save, Fail
  <2> QED
    BY <1>6, <2>1, <2>2, <2>3, <2>4
<1>7. CASE TimePasses
  BY <1>1, <1>7 DEF TimePasses
<1>8. CASE UNCHANGED vars
  BY <1>1, <1>8 DEF vars
<1>9. now' = now => now' \in 1..MaxTime /\ now <= now'
  BY <1>1
<1> QED
  <2>1. CASE \E completion \in BOOLEAN : Checkpoint(completion)
    BY <1>4, <1>9, <2>1
  <2>2. CASE \E a \in Hooks, turn \in Turn : Hook(a, turn)
    BY <1>5, <1>9, <2>2
  <2>3. CASE Poll \/ Watch \/ Restart \/ \E t \in ticks : Arrive(t) \/ Save(t) \/ Fail(t)
    BY <1>6, <1>9, <2>3
  <2> QED
    BY <1>2, <1>3, <1>7, <1>8, <2>1, <2>2, <2>3 DEF Next

(* The limit of a session's heartbeats comes down only to the present. *)
LEMMA LimitStep ==
  ASSUME IInv, Times', [Next]_vars, NEW s \in Session
  PROVE  Limit(s)' \in Nat /\ (Limit(s) <= Limit(s)' \/ now <= Limit(s)')
<1>1. now \in Nat /\ now' \in Nat /\ now <= now' /\ s \in Nat /\ s # 0
  <2>1. now \in Nat /\ MaxTime \in Nat
    BY WriterOK DEF IInv, Times, Sessions
  <2>2. now' \in 1..MaxTime /\ now <= now'
    BY SignalsStep
  <2> QED
    BY <2>1, <2>2, SessionsAreNumbers
<1>2. CASE s # session'.id
  BY <1>1, <1>2 DEF Limit
<1>3. CASE s = session'.id
  <2>1. Limit(s)' = StaleSessionMs + Newest(Signals') /\ StaleSessionMs \in Nat
    BY <1>3, WriterOK DEF Limit
  <2>2. AgentOf[s] \in Agent
    BY WriterOK
  <2>3. Signals' = {session'.updatedAt, sidecar'[Shared].at, sidecar'[AgentOf[s]].at}
    BY <1>3 DEF Signals
  <2>4. \A a \in Agent \cup {Shared} : sidecar[a].at \in 0..now /\ sidecar'[a].at \in 0..now'
    BY <1>1, TurnTimes DEF IInv, Times, Sessions
  <2>5. session'.updatedAt \in 0..now'
    BY DEF Times, Sessions
  <2>6. Signals' \in SUBSET (0..now')
    BY <2>2, <2>3, <2>4, <2>5
  <2>7. Newest(Signals') \in 0..now' /\ \A x \in Signals' : x <= Newest(Signals')
    BY <1>1, <2>6, NewestIs
  <2> Limit(s)' \in Nat
    BY <1>1, <2>1, <2>7
  <2>8. CASE session'.updatedAt = now
    <3>1. now <= Newest(Signals')
      BY <2>3, <2>7, <2>8
    <3> QED
      BY <1>1, <2>1, <2>7, <3>1
  <2>9. CASE session' = session
    <3>1. Signals \in SUBSET (0..now) /\ Newest(Signals) \in 0..now
      BY <1>1, <1>3, <2>9, TurnsAre DEF IInv
    <3>2. \A a \in Agent \cup {Shared} : sidecar[a].at <= sidecar'[a].at
      <4>1. CASE sidecar' = sidecar
        BY <2>4, <4>1
      <4>2. ASSUME NEW a \in Agent \cup {Shared}, NEW turn \in Turn,
                   sidecar' = [sidecar EXCEPT ![a] = [turn |-> turn, at |-> now]]
            PROVE  \A b \in Agent \cup {Shared} : sidecar[b].at <= sidecar'[b].at
        <5>1. sidecar'[a].at = now /\ \A b \in Agent \cup {Shared} :
                                       b # a => sidecar'[b] = sidecar[b]
          BY <4>2 DEF IInv, Times, Sessions
        <5> QED
          BY <2>4, <5>1
      <4> QED
        BY <4>1, <4>2, SignalsStep
    <3>3. Signals = {session.updatedAt, sidecar[Shared].at, sidecar[AgentOf[s]].at}
      BY <1>3, <2>9 DEF Signals
    <3>4. \A x \in Signals : \E y \in Signals' : x <= y
      <4>1. session.updatedAt \in 0..now /\ session.updatedAt <= session'.updatedAt
        BY <2>9 DEF IInv, Times, Sessions
      <4> QED
        BY <2>2, <2>3, <3>2, <3>3, <4>1
    <3>5. Signals \in SUBSET (0..now')
      BY <1>1, <3>1
    <3>6. Newest(Signals) <= Newest(Signals')
      BY <1>1, <2>6, <3>4, <3>5, NewestGrows
    <3>7. Limit(s) = StaleSessionMs + Newest(Signals)
      BY <1>3, <2>9 DEF Limit
    <3> QED
      BY <1>1, <2>1, <2>7, <3>1, <3>6, <3>7
  <2>10. session' = session \/ session'.updatedAt = now
    <3>1. session' # NoSession
      BY <1>1, <1>3 DEF NoSession
    <3>2. Started(session.id + 1).updatedAt = now
      BY DEF Started
    <3>3. \A c \in BOOLEAN : [session EXCEPT !.updatedAt = now, !.completion = c].updatedAt = now
      BY DEF IInv, Times, Sessions
    <3> QED
      BY <3>1, <3>2, <3>3, SignalsStep
  <2> QED
    BY <2>8, <2>9, <2>10
<1> QED
  BY <1>2, <1>3

(* Records with a truth value. *)
LEMMA SessionRecord ==
  ASSUME NEW n \in Nat, NEW i \in Session \cup {0}, NEW a \in 0..n, NEW b \in 0..n,
         NEW c \in BOOLEAN
  PROVE  [id |-> i, startedAt |-> a, updatedAt |-> b, completion |-> c] \in Sessions(n)
  BY DEF Sessions

LEMMA WatchRecord ==
  ASSUME NEW c \in BOOLEAN, NEW turn \in Turn \cup {"none"}
  PROVE  /\ [changed |-> c, turn |-> turn] \in Watches
         /\ \A w \in Watches : [w EXCEPT !.changed = c] \in Watches
  BY DEF Watches

LEMMA TimesStep ==
  ASSUME IInv, [Next]_vars
  PROVE  Times'
<1>1. now \in 1..MaxTime /\ MaxTime \in Nat /\ MaxChanges \in Nat /\ MaxFaults \in Nat
  BY WriterOK DEF IInv, Times
<1>2. now' \in 1..MaxTime /\ now <= now'
  BY SignalsStep
<1>3. now \in 1..now /\ 1..now \subseteq 1..now' /\ 0..now \subseteq 0..now'
  BY <1>1, <1>2
<1>4. /\ session' \in Sessions(now)
      /\ session'.id # 0 => session'.startedAt \in 1..now
  <2>1. CASE session' \in {session, NoSession}
    <3>1. session \in Sessions(now) /\ (session.id # 0 => session.startedAt \in 1..now)
      BY DEF IInv, Times
    <3>2. NoSession \in Sessions(now) /\ NoSession.id = 0
      <4>1. now \in Nat /\ 0 \in Session \cup {0} /\ 0 \in 0..now /\ FALSE \in BOOLEAN
        BY <1>1
      <4> QED
        BY <4>1, SessionRecord, Zenon DEF NoSession
    <3> QED
      BY <2>1, <3>1, <3>2
  <2>2. ASSUME NEW c \in BOOLEAN,
               session' = [session EXCEPT !.updatedAt = now, !.completion = c]
        PROVE  /\ session' \in Sessions(now)
               /\ session'.id # 0 => session'.startedAt \in 1..now
    <3>1. session \in Sessions(now) /\ (session.id # 0 => session.startedAt \in 1..now)
      BY DEF IInv, Times
    <3> QED
      <4>1. now \in Nat /\ 0 \in Session \cup {0} /\ now \in 0..now
        BY <1>1
      <4> DEFINE x == session
      <4>2. x \in Sessions(now)
        BY <3>1
      <4> HIDE DEF x
      <4>3. /\ [x EXCEPT !.updatedAt = now, !.completion = c] \in Sessions(now)
            /\ [x EXCEPT !.updatedAt = now, !.completion = c].id = x.id
            /\ [x EXCEPT !.updatedAt = now, !.completion = c].startedAt = x.startedAt
        BY <4>1, <4>2 DEF Sessions
      <4> QED
        BY <2>2, <3>1, <4>3, Zenon DEF x
  <2>3. CASE session' = Started(session.id + 1)
    <3>1. CASE StartNew
      <4>1. /\ now \in Nat /\ now \in 0..now /\ now \in 1..now /\ FALSE \in BOOLEAN
            /\ session.id + 1 \in Session \cup {0}
        BY <1>1, <3>1 DEF StartNew
      <4>2. Started(session.id + 1) \in Sessions(now)
        BY <4>1, SessionRecord, Zenon DEF Started
      <4>3. Started(session.id + 1).startedAt = now
        BY DEF Started
      <4> QED
        BY <2>3, <4>1, <4>2, <4>3
    <3>2. CASE session' # session /\ ~StartNew
      <4>1. CASE Handoff
        BY <2>1, <4>1 DEF Handoff
      <4>2. ASSUME NEW c \in BOOLEAN, Checkpoint(c)
            PROVE  session' = [session EXCEPT !.updatedAt = now, !.completion = c]
        BY <4>2 DEF Checkpoint
      <4> QED
        BY <2>2, <3>2, <4>1, <4>2
           DEF Next, Hook, Poll, Watch, Arrive, Save, Fail, Restart, TimePasses, vars
    <3> QED
      BY <2>1, <3>1, <3>2
  <2> QED
    BY <2>1, <2>2, <2>3, SignalsStep
<1>5. sidecar' \in [Agent \cup {Shared} -> {NoTurn} \cup [turn : Turn, at : 1..now]]
  <2>1. sidecar \in [Agent \cup {Shared} -> {NoTurn} \cup [turn : Turn, at : 1..now]]
    BY DEF IInv, Times
  <2>2. \A turn \in Turn : [turn |-> turn, at |-> now] \in [turn : Turn, at : 1..now]
    BY <1>3
  <2> QED
    BY <2>1, <2>2, SignalsStep
<1>6. /\ polled' \in BOOLEAN /\ changes' \in 0..MaxChanges /\ faults' \in 0..MaxFaults
      /\ watched' \in Watches
      /\ saved' \in Saved
  <2>0. /\ polled \in BOOLEAN /\ changes \in 0..MaxChanges /\ faults \in 0..MaxFaults
        /\ watched \in Watches
        /\ saved \in Saved
    BY DEF IInv, Times
  <2>1. CASE Command
    <3>1. faults' \in 0..MaxFaults
      BY <2>1, CommandStep
    <3>2. Change /\ UNCHANGED <<watched, saved, polled>>
      BY <2>1 DEF Command, StartNew, Handoff, Checkpoint
    <3> QED
      BY <1>1, <2>0, <3>1, <3>2 DEF Change
  <2>2. ASSUME NEW a \in Hooks, NEW turn \in Turn, Hook(a, turn)
        PROVE  /\ changes' \in 0..MaxChanges /\ UNCHANGED <<faults, saved, polled>>
               /\ watched' \in Watches
    <3>1. changes' \in 0..MaxChanges /\ UNCHANGED <<faults, saved, polled>>
      BY <1>1, <2>0, <2>2 DEF Hook, Change
    <3>2. watched' = [watched EXCEPT !.changed = TRUE]
      BY <2>2 DEF Hook
    <3> QED
      BY <2>0, <3>1, <3>2, WatchRecord
  <2>3. CASE Poll
    <3>1. saved' \in Saved
      BY <2>3, BeginStep DEF Poll
    <3> QED
      BY <2>0, <2>3, <3>1 DEF Poll
  <2>4. CASE Watch
    <3>1. saved' \in Saved
      BY <2>0, <2>4, BeginStep DEF Watch
    <3>2. watched' \in Watches
      <4>1. \A a \in Agent \cup {Shared} : sidecar[a].turn \in Turn \cup {"none"}
        <5>1. \A x \in {NoTurn} \cup [turn : Turn, at : 1..now] : x.turn \in Turn \cup {"none"}
          BY DEF NoTurn
        <5> QED
          BY <1>1, <5>1, TurnTimes DEF IInv, Times
      <4>2. Active => TurnSignal.turn \in Turn \cup {"none"}
        BY <4>1, TurnsAre DEF Active, IInv
      <4> HIDE DEF TurnSignal
      <4> QED
        BY <2>0, <2>4, <4>1, <4>2, WatchRecord DEF Watch
    <3> QED
      BY <2>0, <2>4, <3>1, <3>2 DEF Watch
  <2>5. ASSUME NEW t \in ticks, Arrive(t)
        PROVE  UNCHANGED <<polled, changes, faults, watched, saved>>
    BY <2>5 DEF Arrive
  <2>6. ASSUME NEW t \in ticks, Save(t)
        PROVE  UNCHANGED <<polled, changes, faults, watched>> /\ saved' \in Saved
    <3>1. t.saving \in Saved
      BY DEF IInv, Bounded, Waits
    <3> QED
      BY <2>6, <3>1 DEF Save
  <2>7. ASSUME NEW t \in ticks, Fail(t)
        PROVE  UNCHANGED <<polled, changes, watched, saved>> /\ faults' \in 0..MaxFaults
    BY <1>1, <2>0, <2>7 DEF Fail
  <2>8. CASE Restart
    <3>1. changes' = changes /\ faults' \in 0..MaxFaults /\ saved' = saved
      BY <1>1, <2>0, <2>8 DEF Restart
    <3>2. polled' \in BOOLEAN
      BY <2>8 DEF Restart
    <3>3. watched' = [changed |-> FALSE, turn |-> "none"]
      BY <2>8 DEF Restart
    <3>4. [changed |-> FALSE, turn |-> "none"] \in Watches
      <4>1. FALSE \in BOOLEAN /\ "none" \in Turn \cup {"none"}
        OBVIOUS
      <4> QED
        BY <4>1, WatchRecord, Zenon
    <3> QED
      BY <2>0, <3>1, <3>2, <3>3, <3>4
  <2>9. CASE TimePasses
    BY <2>0, <2>9 DEF TimePasses
  <2>10. CASE UNCHANGED vars
    BY <2>0, <2>10 DEF vars
  <2> QED
    BY <2>0, <2>1, <2>2, <2>3, <2>4, <2>5, <2>6, <2>7, <2>8, <2>9, <2>10 DEF Next, Command
<1> QED
  <2>1. session' \in Sessions(now')
        /\ (session'.id # 0 => session'.startedAt \in 1..now')
    BY <1>3, <1>4 DEF Sessions
  <2>2. sidecar' \in [Agent \cup {Shared} -> {NoTurn} \cup [turn : Turn, at : 1..now']]
    <3>1. [turn : Turn, at : 1..now] \subseteq [turn : Turn, at : 1..now']
      BY <1>3
    <3> QED
      BY <1>5, <3>1
  <2>3. saved' \in [started : Session \cup {0}, beatAt : 0..now', lifecycle : Turn \cup {"none"},
                    assertedAt : 0..now']
    BY <1>3, <1>6 DEF Saved
  <2> QED
    BY <1>2, <1>6, <2>1, <2>2, <2>3 DEF Times, Saved

(* What was good before a step is good after it. *)
LEMMA Carried ==
  ASSUME IInv, Times', [Next]_vars
  PROVE  /\ \A s \in Session : Good(s) \subseteq Good(s)' /\ Kind(s) \subseteq Kind(s)'
         /\ \A t : Waits(t) => Waits(t)'
<1>1. now \in Nat /\ now' \in Nat /\ now <= now'
  <2>1. now \in Nat /\ MaxTime \in Nat
    BY WriterOK DEF IInv, Times
  <2>2. now' \in 1..MaxTime /\ now <= now'
    BY SignalsStep
  <2> QED
    BY <2>1, <2>2
<1>2. LastId \in Nat /\ LastId' \in Nat /\ LastId <= LastId'
  <2>1. \A n \in Nat, m \in Nat : n * 9 + 8 \in Nat /\ (n <= m => n * 9 + 8 <= m * 9 + 8)
    OBVIOUS
  <2> QED
    BY <1>1, <2>1 DEF LastId
<1>3. ASSUME NEW s \in Session
      PROVE  Good(s) \subseteq Good(s)' /\ Kind(s) \subseteq Kind(s)'
  <2>1. Limit(s) \in Nat
    BY LimitType DEF IInv
  <2>2. Limit(s)' \in Nat /\ (Limit(s) <= Limit(s)' \/ now <= Limit(s)')
    BY LimitStep
  <2> DEFINE limit == Limit(s)
             later == Limit(s)'
             p == LastId
             q == LastId'
  <2>3. limit \in Nat /\ later \in Nat /\ (limit <= later \/ now <= later)
        /\ p \in Nat /\ q \in Nat /\ p <= q
    BY <1>2, <2>1, <2>2
  <2> HIDE DEF limit, later, p, q
  <2>4. /\ DatedStores(now, p, limit) \subseteq DatedStores(now', q, later)
        /\ DatedEvents(now, p, limit) \subseteq DatedEvents(now', q, later)
    <3>1. CASE limit <= later
      BY <1>1, <2>3, <3>1, DatesLater
    <3>2. CASE now <= later
      BY <1>1, <2>3, <3>2, DatesLater
    <3> QED
      BY <2>3, <3>1, <3>2
  <2> QED
    BY <2>4 DEF Good, Kind, limit, later, p, q
<1>4. ASSUME NEW t, Waits(t)
      PROVE  Waits(t)'
  <2>1. t \in [session : Session, at : 1..now', events : Seq(PostedEvent),
               saving : Saved', answered : BOOLEAN]
    <3>1. 1..now \subseteq 1..now' /\ 0..now \subseteq 0..now'
      BY <1>1
    <3>2. Saved \subseteq Saved'
      BY <3>1 DEF Saved
    <3> QED
      BY <1>4, <3>1, <3>2 DEF Waits
  <2>2. t.session \in Session
    BY <1>4 DEF Waits
  <2>3. t.events \in Seq(Kind(t.session)')
    BY <1>3, <1>4, <2>2, SeqMonotonic DEF Waits
  <2> QED
    BY <1>4, <2>1, <2>3 DEF Waits
<1> QED
  BY <1>3, <1>4

LEMMA BoundedStep ==
  ASSUME IInv, Times', [Next]_vars
  PROVE  Bounded'
<1> DEFINE Keeps == /\ DOMAIN stores' = Session /\ stores' = [s \in Session |-> stores'[s]]
                    /\ \A s \in Session : stores'[s] \in Good(s)
           Waiting == \A t \in ticks' : Waits(t)
           Quiet == stores' = stores /\ \A t \in ticks' : t \in ticks \/ Waits(t)
<1>0. Quiet => Keeps /\ Waiting
  BY DEF IInv, Bounded
<1>1. \A t \in ticks : Waits(t)
  BY DEF IInv, Bounded
<1>2. ASSUME Command
      PROVE  Keeps /\ Waiting
  <2>1. ticks' = ticks
    BY <1>2 DEF Command, StartNew, Handoff, Checkpoint
  <2>2. Waiting
    BY <1>1, <2>1
  <2>3. Keeps
    BY <1>2, CommandStep
  <2> QED
    BY <2>2, <2>3
<1>3. ASSUME NEW a \in Hooks, NEW turn \in Turn, Hook(a, turn)
      PROVE  Quiet
  BY <1>3 DEF Hook
<1>4. ASSUME Poll
      PROVE  Keeps /\ Waiting
  <2>1. Quiet
    BY <1>4, BeginStep DEF Poll
  <2> QED
    BY <1>0, <2>1
<1>5. ASSUME Watch
      PROVE  Keeps /\ Waiting
  <2>1. Quiet
    <3>1. CASE Begin
      BY <1>5, <3>1, BeginStep DEF Watch
    <3>2. CASE ~Begin
      BY <1>5, <3>2 DEF Watch
    <3> QED
      BY <3>1, <3>2
  <2> QED
    BY <1>0, <2>1
<1>6. ASSUME NEW t \in ticks, Arrive(t)
      PROVE  Keeps /\ Waiting
  <2> DEFINE s == t.session
  <2>1. s \in Session /\ t.events \in Seq(Kind(s)) /\ Len(t.events) \in 1..3
    BY <1>1 DEF Waits
  <2>2. IngestEvents(stores[s], t.events) \in Good(s)
    <3>1. now \in Nat /\ LastId \in Nat /\ Limit(s) \in Nat
      BY <2>1, LimitType DEF IInv
    <3>2. stores[s] \in Good(s)
      BY <2>1 DEF IInv, Bounded
    <3>3. PICK len \in 0..3 : Len(t.events) = len
      BY <2>1
    <3> QED
      BY <2>1, <3>1, <3>2, <3>3, BatchKeepsDates DEF Good, Kind
  <2>3. Keeps
    <3>1. stores' = [stores EXCEPT ![s] = IngestEvents(@, t.events)]
      BY <1>6 DEF Arrive
    <3> HIDE DEF Good, s
    <3> QED
      BY <2>1, <2>2, <3>1 DEF IInv, Bounded
  <2>4. Waits([t EXCEPT !.answered = TRUE])
    <3> DEFINE u == [t EXCEPT !.answered = TRUE]
    <3>1. t \in [session : Session, at : 1..now, events : Seq(PostedEvent),
                 saving : Saved, answered : BOOLEAN]
      BY <1>1 DEF Waits
    <3>2. TRUE \in BOOLEAN
      OBVIOUS
    <3>3. /\ u \in [session : Session, at : 1..now, events : Seq(PostedEvent),
                    saving : Saved, answered : BOOLEAN]
          /\ u.session = t.session /\ u.events = t.events
      BY <3>1, <3>2
    <3> HIDE DEF u
    <3>4. Waits(u)
      BY <2>1, <3>3 DEF Waits
    <3> QED
      BY <3>4 DEF u
  <2>5. Waiting
    BY <1>1, <1>6, <2>4 DEF Arrive
  <2> QED
    BY <2>3, <2>5
<1>7. ASSUME NEW t \in ticks, Save(t) \/ Fail(t)
      PROVE  Quiet
  <2> HIDE DEF Waits
  <2> QED
    BY <1>7 DEF Save, Fail
<1>8. ASSUME Restart
      PROVE  Keeps /\ Waiting
  <2>1. Quiet
    BY <1>8 DEF Restart
  <2> QED
    BY <1>0, <2>1
<1>9. ASSUME TimePasses
      PROVE  Keeps /\ Waiting
  <2>1. Quiet
    BY <1>9 DEF TimePasses
  <2> QED
    BY <1>0, <2>1
<1>10. ASSUME UNCHANGED vars
      PROVE  Keeps /\ Waiting
  <2>1. Quiet
    BY <1>10 DEF vars
  <2> QED
    BY <1>0, <2>1
<1>11. Keeps /\ Waiting
  <2> HIDE DEF Keeps, Waiting, Quiet
  <2> QED
    BY <1>0, <1>2, <1>3, <1>4, <1>5, <1>6, <1>7, <1>8, <1>9, <1>10 DEF Next, Command
<1> QED
  BY <1>11, Carried DEF Bounded

LEMMA Start ==
  ASSUME Init
  PROVE  IInv
<1>1. now = 1 /\ now \in 1..MaxTime /\ 1 \in Session /\ MaxChanges \in Nat /\ MaxFaults \in Nat
  <2>1. MaxTime \in Nat /\ MaxTime # 0
    BY WriterOK
  <2>2. 1 \in 1..MaxTime
    BY <2>1
  <2> QED
    BY <2>2, WriterOK DEF Init
<1>2. Times
  <2>1. Started(1) \in Sessions(now) /\ Started(1).startedAt = now
    <3>1. /\ now \in Nat /\ 1 \in Session \cup {0} /\ now \in 0..now /\ FALSE \in BOOLEAN
      BY <1>1
    <3>2. Started(1).startedAt = now
      BY DEF Started
    <3> QED
      BY <3>1, <3>2, SessionRecord, Zenon DEF Started
  <2>2. [changed |-> FALSE, turn |-> "none"] \in Watches
    <3>1. FALSE \in BOOLEAN /\ "none" \in Turn \cup {"none"}
      OBVIOUS
    <3> QED
      BY <3>1, WatchRecord, Zenon
  <2>3. session = Started(1) /\ watched = [changed |-> FALSE, turn |-> "none"]
    BY DEF Init
  <2>4. sidecar \in [Agent \cup {Shared} -> {NoTurn} \cup [turn : Turn, at : 1..now]]
    BY DEF Init
  <2>5. saved \in Saved
    BY <1>1 DEF Init, Saved
  <2>6. polled \in BOOLEAN /\ changes \in 0..MaxChanges /\ faults \in 0..MaxFaults
    <3>1. polled = FALSE /\ changes = 0 /\ faults = 0
      BY DEF Init
    <3>2. FALSE \in BOOLEAN /\ 0 \in 0..MaxChanges /\ 0 \in 0..MaxFaults
      BY <1>1
    <3> QED
      BY <3>1, <3>2, Zenon
  <2>7. session.startedAt \in 1..now
    BY <1>1, <2>1, <2>3
  <2> QED
    BY <1>1, <2>1, <2>2, <2>3, <2>4, <2>5, <2>6, <2>7 DEF Times
<1>3. ASSUME NEW s \in Session
      PROVE  stores[s] = EmptyStore /\ stores[s] \in Good(s)
  <2>1. stores[s] = EmptyStore
    BY <1>3 DEF Init
  <2>2. now \in Nat /\ LastId \in Nat
    BY <1>2, LimitType
  <2>3. Dated(EmptyStore, now, LastId) /\ EmptyStore.traces = {} /\ EmptyStore \in Store
    BY <2>2, EmptyIsDated
  <2> QED
    BY <2>1, <2>3 DEF Good, DatedStores
<1> QED
  BY <1>2, <1>3 DEF Init, IInv, Bounded

THEOREM Invariant == Spec => []IInv
<1>1. Init => IInv
  BY Start
<1>2. IInv /\ [Next]_vars => IInv'
  BY TimesStep, BoundedStep DEF IInv
<1> QED
  BY <1>1, <1>2, PTL DEF Spec

(* Every value of the writer's and of the stores it posts to stays one the  *)
(* program can have, at times that have been: in particular no tick waits   *)
(* with an empty batch, and a session that anything was heard of has a row  *)
(* that somebody dated.                                                     *)
THEOREM TypeCorrect == Spec => []TypeOK
<1>1. ASSUME IInv
      PROVE  TypeOK
  <2>1. Times /\ Bounded
    BY <1>1 DEF IInv
  <2>2. session.id \in Session \cup {0} /\ session.completion \in BOOLEAN
        /\ {session.startedAt, session.updatedAt} \subseteq 0..now
    BY <2>1 DEF Times, Sessions
  <2>3. \A a \in Agent \cup {Shared} :
          sidecar[a] = NoTurn \/ sidecar[a] \in [turn : Turn, at : 1..now]
    BY <2>1 DEF Times
  <2>4. watched.turn \in Turn \cup {"none"}
    BY <2>1 DEF Times, Watches
  <2>5. /\ saved.started \in 0..session.id \cup Session
        /\ saved.lifecycle \in Turn \cup {"none"} /\ {saved.beatAt, saved.assertedAt} \subseteq 0..now
    <3>1. 0 \in 0..session.id
      BY <2>2, SessionsAreNumbers
    <3> QED
      BY <2>1, <3>1 DEF Times, Saved
  <2>6. \A t \in ticks : t.session \in Session /\ t.at \in 1..now /\ t.events # <<>>
    <3>1. ASSUME NEW t \in ticks PROVE t.events # <<>>
      <4>1. Len(t.events) # 0
        <5>1. PICK k \in 1..3 : Len(t.events) = k
          BY <2>1, <3>1 DEF Bounded, Waits
        <5> QED
          BY <5>1
      <4> QED
        BY <4>1, EmptySeq
    <3> QED
      BY <2>1, <3>1 DEF Bounded, Waits
  <2>7. \A s \in Session : stores[s].traces # {} => stores[s].row.updatedAt \in 1..now
    BY <2>1 DEF Bounded, Good, DatedStores, Dated
  <2> QED
    BY <2>1, <2>2, <2>3, <2>4, <2>5, <2>6, <2>7 DEF TypeOK, Times
<1> QED
  BY <1>1, Invariant, PTL

(* A session is kept alive by its own signals only, whatever other agents   *)
(* do, whatever is lost or restarted and in whatever order the ticks come   *)
(* back.                                                                    *)
THEOREM OwnSignalsOnly == Spec => []LivenessIsOwned
<1>1. ASSUME IInv
      PROVE  LivenessIsOwned
  <2> SUFFICES ASSUME session.id # 0
               PROVE  LastHeartbeat(RowOf(stores[session.id])) <= StaleSessionMs + Newest(Signals)
    BY DEF LivenessIsOwned, Active, Signals
  <2>1. session.id \in Session
    BY <1>1 DEF IInv, Times, Sessions
  <2>2. now \in Nat /\ LastId \in Nat /\ Limit(session.id) \in Nat
    BY <1>1, <2>1, LimitType DEF IInv
  <2>3. stores[session.id] \in Good(session.id)
    BY <1>1, <2>1 DEF IInv, Bounded
  <2>4. LastHeartbeat(RowOf(stores[session.id])) <= Limit(session.id)
    BY <2>2, <2>3, BeatIs DEF Good
  <2> QED
    BY <2>4 DEF Limit
<1> QED
  BY <1>1, Invariant, PTL

=============================================================================
