-------------------------------- MODULE AndonApi --------------------------------
(***************************************************************************)
(* services/andon-api over the life of one session: reports posted to      *)
(* /events by processes that do not wait for each other, the operator's    *)
(* buttons, what services/runtime-service writes into the same database,   *)
(* restarts of the API, and time.  A request is answered in one step, for  *)
(* the handlers and node:sqlite are synchronous; between its posting and   *)
(* its ingest a report can be overtaken or lost, and nobody retries it.    *)
(***************************************************************************)
EXTENDS AndonIngest

CONSTANTS
  Reports,       \* what is posted: [type, note, from, task]
  ServiceTypes,  \* events of a task the runtime service can run, {} for none
  MaxPosts,      \* bound: events of all kinds
  LastPost,      \* bound: when the last of them happens
  MaxTime        \* bound: the clock

ASSUME ApiOK ==
  /\ Reports \subseteq [type : EventType, note : Note, from : Sender, task : BOOLEAN]
  /\ ServiceTypes \subseteq RuntimeEventType
  /\ {MaxPosts, LastPost} \subseteq Nat /\ MaxTime \in Nat \ {0}

VARIABLES
  now,
  store,
  inFlight,  \* reports on their way to /events; a lost one stays here
  posts      \* how many events there have been; the next one's id

vars == <<now, store, inFlight, posts>>

Operator == [writer |-> FALSE, id |-> Unnamed, kind |-> Unnamed]
CanHappen == posts < MaxPosts /\ now <= LastPost
Event(report) == [id |-> posts + 1, at |-> now, type |-> report.type,
                  note |-> report.note, from |-> report.from, task |-> report.task]

(* The store's parts stay in their types, and nothing is dated later than   *)
(* now or numbered like an event to come.  A row that was never a task of   *)
(* the service has no process.                                              *)
TypeOK ==
  /\ now \in 1..MaxTime /\ posts \in 0..MaxPosts
  /\ inFlight \subseteq PostedEvent
  /\ \A e \in inFlight : e.id \in 1..posts /\ e.at \in 1..now
  /\ store \in Store
  /\ {store.session.startedAt, store.session.endedAt, store.session.lastEventAt,
      store.processAt} \subseteq 0..now
  /\ store.session.known <=> store.events # {}
  /\ \A e \in store.events \cup store.traces : e.id \in 0..posts /\ e.at \in 1..now
  /\ store.row # NoRow => store.row.updatedAt \in 1..now /\ store.row.completedAt \in 0..now
  /\ store.row = NoRow => store.traces = {} /\ store.processAt = 0

(* The database is new, or its session was stored before rows were made     *)
(* from events.                                                             *)
OldStore(type, note) ==
  [EmptyStore EXCEPT
     !.session = [known |-> TRUE, startedAt |-> 1, endedAt |-> 0, lastEventAt |-> 1],
     !.events = {[id |-> 0, type |-> type, note |-> note, at |-> 1]}]

Init ==
  /\ now = 1 /\ inFlight = {} /\ posts = 0
  /\ store \in {EmptyStore, OldStore("agent.question_asked", "unresolved"),
                OldStore("command.finished", "none")}

------------------------------------------------------------------------------
(* Posted events. *)

Post(report) ==
  /\ CanHappen
  /\ inFlight' = inFlight \cup {Event(report)}
  /\ posts' = posts + 1
  /\ UNCHANGED <<now, store>>

Deliver(event) ==
  /\ event \in inFlight
  /\ store' = IngestEvents(store, <<event>>)
  /\ inFlight' = inFlight \ {event}
  /\ UNCHANGED <<now, posts>>

(* POST /sessions/:id/callbacks/:action: approve and pause both end the     *)
(* session.                                                                 *)
Callback(type) ==
  /\ CanHappen /\ posts' = posts + 1
  /\ store' = IngestEvents(store, <<Event([type |-> type, note |-> "none",
                                         from |-> Operator, task |-> FALSE])>>)
  /\ UNCHANGED <<now, inFlight>>

------------------------------------------------------------------------------
(* The runtime service writes past the ingest. *)

StatusFromEventType(type, current) ==
  CASE type = "session.paused" -> "paused"
    [] type \in {"session.started", "session.heartbeat", "session.resumed",
                 "approval.granted", "approval.denied"} -> "running"
    [] type = "session.failed" -> "failed"
    [] type = "session.cancelled" -> "cancelled"
    [] type = "session.completed" -> "completed"
    [] type = "approval.requested" -> "waiting_for_approval"
    [] OTHER -> current

Trace(type) == store.traces \cup {[id |-> posts + 1, type |-> type, at |-> now]}

(* POST /runtime/tasks, for a session of its own. *)
ServiceStart(child) ==
  /\ ServiceTypes # {} /\ store = EmptyStore /\ CanHappen
  /\ store' = [store EXCEPT
                 !.row = [status |-> "running", updatedAt |-> now, completedAt |-> 0,
                          owner |-> Blank, child |-> child, acknowledged |-> FALSE],
                 !.traces = Trace("session.started"), !.processAt = now]
  /\ posts' = posts + 1
  /\ UNCHANGED <<now, inFlight>>

(* consumeAdapterStream *)
ServiceEvent(type) ==
  /\ store.processAt # 0 /\ CanHappen
  /\ LET status == StatusFromEventType(type, store.row.status)
         ended == status \in {"completed", "failed", "cancelled"}
     IN store' = [store EXCEPT
                    !.row.status = status, !.row.updatedAt = now,
                    !.row.completedAt = IF ended /\ @ = 0 THEN now ELSE @,
                    !.traces = Trace(type), !.processAt = now]
  /\ posts' = posts + 1
  /\ UNCHANGED <<now, inFlight>>

(* POST /runtime/sessions/:id/approve or deny: no adapter and no row hears  *)
(* of the answer.                                                           *)
ServiceAnswer(type) ==
  /\ ServiceTypes # {} /\ store.row # NoRow /\ CanHappen
  /\ store' = [store EXCEPT !.traces = Trace(type)]
  /\ posts' = posts + 1
  /\ UNCHANGED <<now, inFlight>>

------------------------------------------------------------------------------
Restart ==
  /\ store' = Reconciled(store, now)
  /\ UNCHANGED <<now, inFlight, posts>>

TimePasses ==
  /\ now < MaxTime
  /\ now' = now + 1
  /\ UNCHANGED <<store, inFlight, posts>>

Next ==
  \/ \E r \in Reports : Post(r)
  \/ \E e \in inFlight : Deliver(e)
  \/ \E type \in {"session.ended", "user.resumed"} : Callback(type)
  \/ \E child \in BOOLEAN : ServiceStart(child)
  \/ \E type \in ServiceTypes : ServiceEvent(type)
  \/ \E type \in {"approval.granted", "approval.denied"} : ServiceAnswer(type)
  \/ Restart
  \/ TimePasses

Spec == Init /\ [][Next]_vars

------------------------------------------------------------------------------
Answer == Board(store, now)

(* What an agent asks of its operator, or reports as failed, is on the      *)
(* board with an action until it is settled or has aged out: the status     *)
(* the ingest keeps and the status the board reads off the traces agree on  *)
(* it, in any order of delivery.  It is about rows a source keeps itself.   *)
RequestsAreShown ==
  /\ store.row # NoRow /\ ~store.row.owner.mirror /\ ~store.row.child
  /\ store.row.status \notin Historical \cup {"paused"}
  /\ InputPending(store.traces) \/ FailurePending(store.traces)
  => (Answer.board /\ Answer.action) \/ Answer.reason \in AgedOut

(* Nobody is called to a card because time has passed, and no card comes    *)
(* back by itself, unless to say that its session runs (its process went    *)
(* cold, and what was posted since counts).  What breaks this is a session  *)
(* that waits for its operator while its hint, read off the posted events,  *)
(* says that it runs: the card is set aside until the hint lapses.          *)
WaitsUnseen ==
  store.row # NoRow /\ store.row.status = "waiting_for_input" /\ Hint(store, now) = "running"
TimeDemandsNothing ==
  [][now' # now =>
       LET later == Board(store, now')
       IN /\ later.action => Answer.action \/ WaitsUnseen
          /\ later.board => Answer.board \/ WaitsUnseen \/ later.primary = "running"]_vars

(* Not kept: a session that waits for its operator is on the board.  A      *)
(* question or the end of a turn is not among the events the hint is made   *)
(* of, so a start of work before it, or recent activity, hides the card.    *)
WaitingIsShown ==
  store.row # NoRow /\ ~store.row.child /\ store.row.status = "waiting_for_input"
    => (Answer.board /\ Answer.action) \/ Answer.reason \in AgedOut

(* Time alone takes no demand off the board before it has been silent for   *)
(* as long as its kind allows, nor if its process shows a sign of life, and *)
(* the card then says why it is gone.                                       *)
Heard == IF store.row = NoRow THEN store.session.lastEventAt
         ELSE LastSignal(RowOf(store))
DemandsLeaveByAge ==
  [][now' # now /\ Answer.board /\ Answer.action =>
       LET later == Board(store, now')
       IN ~later.board =>
            \/ later.reason = "stale_review" /\ Older(Heard, now', ReviewStaleMs)
            \/ /\ later.reason \in AgedOut \ {"stale_review"}
               /\ Older(Heard, now', ActionableStaleMs)
               /\ store.row = NoRow \/ Alive(RowOf(store), now') # "yes"]_vars

(* An event that is delivered twice in a row changes nothing the second     *)
(* time: no count goes up, nothing is asked, answered or revived again.     *)
RedeliveryHarmless ==
  \A e \in inFlight :
    LET once == IngestEvents(store, <<e>>) IN IngestEvents(once, <<e>>) = once

(* An event older than its row is no news to the row. *)
NoRewind ==
  [][store.row # NoRow /\ store'.row # NoRow =>
       /\ store'.row.updatedAt >= store.row.updatedAt
       /\ store'.row.updatedAt = store.row.updatedAt /\ store'.traces = store.traces =>
            store'.row.status \in {store.row.status, "parked"}]_vars

=============================================================================
