------------------------------ MODULE AndonIngest ------------------------------
(***************************************************************************)
(* What services/andon-api stores for one session and how a posted event   *)
(* changes it (ingestEvents, repository.ts): the sessions row, the posted  *)
(* events, the task, the row of runtime_sessions, the runtime events       *)
(* ("traces") and the time of the process's last heartbeat.  A store is a  *)
(* record, an operation a function of it, and Board is what Mission        *)
(* Control answers for the session at a time.                              *)
(*                                                                         *)
(* Two branch switches are the same switch, and two events with a task     *)
(* name the same task.                                                     *)
(***************************************************************************)
EXTENDS OperationalProjection, StatusEngine, Sequences

CONSTANT NoRow, Rejected

(* The records of the database, and a posted event. *)
Sender == [writer : BOOLEAN, id : STRING, kind : STRING]
Owner == [mirror : BOOLEAN, writer : BOOLEAN, id : STRING, kind : STRING]
PostedEvent == [id : Nat, at : Nat, type : EventType, note : Note, from : Sender,
                task : BOOLEAN]
StoredEvent == [id : Nat, type : EventType, note : Note, at : Nat]
TraceEvent == [id : Nat, at : Nat, type : RuntimeEventType]
Row == [status : RuntimeStatus, updatedAt : Nat, completedAt : Nat, owner : Owner,
        child : BOOLEAN, acknowledged : BOOLEAN]
Store ==
  [session : [known : BOOLEAN, startedAt : Nat, endedAt : Nat, lastEventAt : Nat],
   events : SUBSET StoredEvent, task : {"none", "active", "completed"},
   row : Row \cup {NoRow}, traces : SUBSET TraceEvent, processAt : Nat]

(* A store without a row and a batch that is refused are no data, and a     *)
(* literal is a string (which the provers do not know).                     *)
ASSUME IngestOK ==
  NoRow \notin Row /\ Rejected \notin Store /\ {"", "default"} \subseteq STRING

(* Who posts: the runtime writer, a source that names itself by its id, by  *)
(* its kind or by both, or a process of Holistic that says nothing ("").    *)
Unnamed == ""
IsDirect(sender) == sender.id # Unnamed \/ sender.kind # Unnamed

(* Who a row belongs to.  The runtime service leaves it blank, and whoever  *)
(* posts without a name gets a default one.                                 *)
Blank == [mirror |-> FALSE, writer |-> FALSE, id |-> Unnamed, kind |-> Unnamed]
OwnerFor(sender) ==
  [mirror |-> ~sender.writer /\ ~IsDirect(sender),
   writer |-> sender.writer,
   id |-> IF sender.id # Unnamed THEN sender.id ELSE "default",
   kind |-> IF sender.kind # Unnamed THEN sender.kind ELSE "default"]

MayWrite(sender, row) ==
  \/ row = NoRow
  \/ row.owner.mirror \/ row.owner.writer \/ sender.writer
  \/ IsDirect(sender) /\ (row.owner.id = sender.id \/ row.owner.kind = sender.kind)

EmptyStore ==
  [session |-> [known |-> FALSE, startedAt |-> 0, endedAt |-> 0, lastEventAt |-> 0],
   events |-> {}, task |-> "none", row |-> NoRow, traces |-> {}, processAt |-> 0]

------------------------------------------------------------------------------
(* One event, in the order of the statements of ingestEvents. *)

SameSwitch(store, event) ==
  event.type = "context.branch_changed"
    /\ \E stored \in store.events : stored.type = event.type

(* ensureSession: last_event_at is the event's time, be it older or not. *)
Seen(store, event) ==
  [store EXCEPT
     !.session = [known |-> TRUE,
                  startedAt |-> IF @.known THEN @.startedAt ELSE event.at,
                  endedAt |-> IF event.type = "session.ended" THEN event.at
                              ELSE @.endedAt,
                  lastEventAt |-> event.at]]

WithTask(store, event) ==
  IF event.task /\ event.type \in {"task.started", "task.completed"}
  THEN [store EXCEPT !.task = IF event.type = "task.completed" THEN "completed"
                              ELSE "active"]
  ELSE store

(* An event of a task nobody has started violates a foreign key. *)
Orphan(store, event) == event.task /\ WithTask(store, event).task = "none"

Replaced(records, record) == {r \in records : r.id # record.id} \cup {record}
Stored(store, event) ==
  [store EXCEPT !.events = Replaced(@, [id |-> event.id, type |-> event.type,
                                       note |-> event.note, at |-> event.at])]

(* maybeUpsertMirrorRuntimeFromLegacyEvent: nothing by somebody else's     *)
(* hand, nothing older than the row; else the row, whoever owned it, is    *)
(* the sender's, and the event becomes a trace.                            *)

(* Mutant: order of arrival is order. *)
NeverLate(store, event) == FALSE

Late(store, event) == store.row # NoRow /\ event.at < store.row.updatedAt
MirroredRow(store, event) ==
  LET old == IF store.row = NoRow THEN "none" ELSE store.row.status
      status == MirrorStatus(event.type, event.note, old, "none")
  IN [status |-> status, updatedAt |-> event.at,
      completedAt |-> IF status = "completed" THEN event.at ELSE 0,
      owner |-> OwnerFor(event.from), child |-> FALSE,
      acknowledged |-> event.note = "acknowledged"]

(* Mutant: a trace gets an id of its own instead of its event's. *)
MirroredAnew(store, event) ==
  IF ~MayWrite(event.from, store.row) \/ Late(store, event) THEN store
  ELSE [store EXCEPT
          !.row = MirroredRow(store, event),
          !.traces = @ \cup {[id |-> Cardinality(@), at |-> event.at,
                             type |-> ToRuntimeEvent(event.type)]}]

Mirrored(store, event) ==
  IF ~MayWrite(event.from, store.row) \/ Late(store, event) THEN store
  ELSE [store EXCEPT
          !.row = MirroredRow(store, event),
          !.traces = Replaced(@, [id |-> event.id, at |-> event.at,
                                  type |-> ToRuntimeEvent(event.type)])]

Ingested(store, posted) ==
  LET event == [posted EXCEPT !.type = Normalized(posted.type, posted.note,
                                                  posted.from.writer)]
  IN IF SameSwitch(store, event) THEN store
     ELSE IF Orphan(store, event) THEN Rejected
     ELSE Mirrored(Stored(WithTask(Seen(store, event), event), event), event)

(* A batch is one transaction. *)
IngestEvents(store, batch) ==
  LET After(sofar, event) == IF sofar = Rejected THEN sofar ELSE Ingested(sofar, event)
      result[i \in 0..Len(batch)] ==
        IF i = 0 THEN store ELSE LET sofar == result[i - 1] IN After(sofar, batch[i])
      last == result[Len(batch)]
  IN IF last = Rejected THEN store ELSE last

------------------------------------------------------------------------------
(* What the API answers. *)

RowOf(store) ==
  [status |-> store.row.status, completedAt |-> store.row.completedAt,
   updatedAt |-> store.row.updatedAt, mirror |-> store.row.owner.mirror,
   child |-> store.row.child, acknowledged |-> store.row.acknowledged,
   events |-> store.traces, processAt |-> store.processAt]

Hint(store, now) ==
  CanonicalHint([startedAt |-> store.session.startedAt, system |-> FALSE],
                store.traces, store.events, now)

Board(store, now) ==
  IF store.row # NoRow THEN RuntimeItem(RowOf(store), Hint(store, now), now)
  ELSE LegacyItem([endedAt |-> store.session.endedAt, events |-> store.events,
                   lastEventAt |-> store.session.lastEventAt], now)

(* reconcileRuntimeSessionsOnStartup: a row that says running, with no     *)
(* sign of life, is parked.  Its other columns keep their values.          *)
Reconciled(store, now) ==
  LET row == RowOf(store)
      heard == Newest({LastHeartbeat(row), row.processAt})
  IN IF /\ store.row # NoRow /\ row.status \in Running /\ Alive(row, now) # "yes"
        /\ Older(IF heard # 0 THEN heard ELSE row.updatedAt, now, ColdMs)
     THEN [store EXCEPT !.row.status = "parked"]
     ELSE store

=============================================================================
