------------------------------ MODULE RuntimeTask ------------------------------
(***************************************************************************)
(* packages/runtime-local and services/runtime-service: one task, from     *)
(* POST /runtime/tasks to the end of its process.  The adapter turns the   *)
(* child's output, its exit and a timer into events; the service consumes  *)
(* them into the session's row of the database, and the API's pause,       *)
(* resume and stop write the adapter's session over that row.              *)
(*                                                                         *)
(* Both run on one thread, and between a push and its consumption there    *)
(* are only promise continuations, so a callback with the consumption of   *)
(* what it pushes is one step.  The child runs beside it: its exit can be  *)
(* reported before all of its output is.  Any statement of the database,   *)
(* which other services write too, may fail.                               *)
(***************************************************************************)
EXTENDS Naturals, Sequences

CONSTANTS
  NoStatus,
  MaxOutput,    \* bound: events the child writes and the adapter has not read
  Restarts      \* whether the service can be restarted

Terminal == {"completed", "failed", "cancelled"}
Status == {"running", "paused", "waiting_for_approval"} \cup Terminal

(* The events a child can write that tell the states apart. *)
Output == {"tool.completed", "approval.requested", "approval.granted",
           "session.completed", "session.failed", "session.cancelled"}

ASSUME TaskOK ==
  /\ MaxOutput \in Nat
  /\ Restarts \in BOOLEAN
  /\ NoStatus \notin Status

VARIABLES
  child,    \* the process: "none", "unspawned", "running", "exited", "reaped"
  output,   \* what it has written and the adapter has not read
  adapter,  \* the adapter's session: status, completedAt set, ended; NoStatus if unknown
  row,      \* the row of runtime_sessions: status, completed_at set; NoRow if none
  listening \* whether the service still reads the adapter's stream

taskVars == <<child, output, adapter, row, listening>>

Events == Output \cup {"session.started", "session.heartbeat", "session.paused",
                      "session.resumed"}
Child == {"none", "unspawned", "running", "exited", "reaped"}
Session == [status : Status, completed : BOOLEAN, ended : BOOLEAN]
Row == [status : Status, completed : BOOLEAN]
NoSession == [status |-> NoStatus, completed |-> FALSE, ended |-> TRUE]
NoRow == [status |-> NoStatus, completed |-> FALSE]

(* Types; and the stream of a task is read only if the task has its row. *)
TaskTypeOK ==
  /\ child \in Child
  /\ output \in Seq(Output) /\ Len(output) <= MaxOutput
  /\ adapter \in Session \cup {NoSession}
  /\ row \in Row \cup {NoRow}
  /\ listening \in BOOLEAN
  /\ child = "none" => row = NoRow
  /\ listening => row # NoRow

TaskInit ==
  /\ child = "none" /\ output = <<>>
  /\ adapter = NoSession /\ row = NoRow /\ listening = FALSE

Known == adapter # NoSession

------------------------------------------------------------------------------
StatusOf(event, current) ==
  CASE event = "session.paused" -> "paused"
    [] event \in {"session.started", "session.heartbeat", "session.resumed",
                  "approval.granted"} -> "running"
    [] event = "session.failed" -> "failed"
    [] event = "session.cancelled" -> "cancelled"
    [] event = "session.completed" -> "completed"
    [] event = "approval.requested" -> "waiting_for_approval"
    [] OTHER -> current

(* Mutant: completed_at is only kept. *)
ConsumedUnstamped(from, event) ==
  [status |-> StatusOf(event, from.status), completed |-> from.completed]

(* consumeAdapterStream, one event: what it makes of the row it reads. *)
Consumed(from, event) ==
  LET status == StatusOf(event, from.status)
  IN  [status |-> status, completed |-> from.completed \/ status \in Terminal]

(* The loop around it.  A statement that fails, before the row is written   *)
(* or after, leaves the loop for good, and nobody is told.                 *)
Take(from, event) ==
  \/ /\ row' = Consumed(from, event)
     /\ UNCHANGED listening
  \/ /\ row' \in {from, Consumed(from, event)}
     /\ listening' = FALSE

(* Mutant: a closed queue still delivers. *)
PushAlways(from, event) ==
  IF listening THEN Take(from, event) ELSE row' = from /\ UNCHANGED listening

(* RuntimeEventQueue.push: what comes after close is dropped, and what      *)
(* nobody reads stays in the queue.                                        *)
Push(from, event) ==
  IF listening /\ ~adapter.ended
  THEN Take(from, event)
  ELSE row' = from /\ UNCHANGED listening

Written(session) == [status |-> session.status, completed |-> session.completed]

------------------------------------------------------------------------------
(* POST /runtime/tasks: startTask, and the two events it queues.  When the *)
(* process cannot be spawned there will be no exit event; when a statement *)
(* fails the task runs all the same, and its stream is never read.         *)
Start ==
  /\ child = "none"
  /\ child' \in {"running", "unspawned"}
  /\ adapter' = [status |-> "running", completed |-> FALSE, ended |-> FALSE]
  /\ listening' \in BOOLEAN
  /\ \/ row' = Written(adapter')
     \/ row' = NoRow /\ ~listening'
  /\ UNCHANGED output

(* The child writes a line, or ends. *)
Write(event) ==
  /\ child = "running" /\ Len(output) < MaxOutput
  /\ output' = IF Known THEN Append(output, event) ELSE output
  /\ UNCHANGED <<child, adapter, row, listening>>

Exit ==
  /\ child = "running"
  /\ child' = "exited"
  /\ UNCHANGED <<output, adapter, row, listening>>

(* handleChunk, for one line.  It reads on after the session has ended. *)
HandleChunk ==
  /\ Known /\ output # <<>>
  /\ LET event == Head(output)
     IN  /\ adapter' = IF event \in {"session.completed", "session.failed"}
                       THEN [adapter EXCEPT !.status = StatusOf(event, @),
                                            !.completed = TRUE]
                       ELSE adapter
         /\ Push(row, event)
  /\ output' = Tail(output)
  /\ UNCHANGED child

(* Mutant: the exit of the process is noted and not reported. *)
HandleExitSilently ==
  /\ Known /\ child = "exited"
  /\ child' = "reaped"
  /\ adapter' = [adapter EXCEPT !.completed = TRUE, !.ended = TRUE]
  /\ UNCHANGED <<row, output, listening>>

(* handleExit *)
HandleExit ==
  /\ Known /\ child = "exited"
  /\ child' = "reaped"
  /\ \/ /\ adapter.ended
        /\ UNCHANGED <<adapter, row, listening>>
     \/ /\ ~adapter.ended
        /\ \E event \in {"session.completed", "session.failed"} :
             /\ adapter' = [status |-> StatusOf(event, adapter.status),
                            completed |-> TRUE, ended |-> TRUE]
             /\ Push(row, event)
  /\ UNCHANGED output

(* The timer of startTask, until the session has ended. *)
Heartbeat ==
  /\ Known /\ ~adapter.ended
  /\ Push(row, "session.heartbeat")
  /\ UNCHANGED <<child, output, adapter>>

------------------------------------------------------------------------------
(* The API: a session without a row, or unknown to the adapter, is an      *)
(* error.  transitionSession writes the adapter's session over the row,     *)
(* which may fail when the adapter has changed; the adapter's own event,    *)
(* queued before, comes to the same status.                                 *)
Persist(event) == \E from \in {row, Written(adapter')} : Push(from, event)

Pause ==
  /\ Known /\ row # NoRow
  /\ adapter' = [adapter EXCEPT !.status = "paused"]
  /\ Persist("session.paused")
  /\ UNCHANGED <<child, output>>

Resume ==
  /\ Known /\ row # NoRow
  /\ adapter' = [adapter EXCEPT !.status = "running"]
  /\ Persist("session.resumed")
  /\ UNCHANGED <<child, output>>

(* stopTask.  The process gets a signal, and ends when it does. *)
Stop ==
  /\ Known /\ row # NoRow
  /\ adapter' = [status |-> "cancelled", completed |-> TRUE, ended |-> TRUE]
  /\ Persist("session.cancelled")
  /\ UNCHANGED <<child, output>>

(* The adapter's sessions are in memory, the rows are not. *)
Restart ==
  /\ Restarts /\ Known
  /\ adapter' = NoSession
  /\ output' = <<>>
  /\ listening' = FALSE
  /\ UNCHANGED <<child, row>>

Request == Pause \/ Resume \/ Stop

TaskNext ==
  \/ Start \/ (\E event \in Output : Write(event)) \/ Exit
  \/ HandleChunk \/ HandleExit \/ Heartbeat
  \/ Request \/ Restart

TaskSpec == TaskInit /\ [][TaskNext]_taskVars

(* Fairness: node delivers what has happened.  Nothing obliges the child to *)
(* write or to end, or a user to call.                                      *)
FairTaskSpec == TaskSpec /\ WF_taskVars(HandleChunk) /\ WF_taskVars(HandleExit) /\ WF_taskVars(Heartbeat)

------------------------------------------------------------------------------

(* A row with a terminal status has its completed_at, whoever wrote it. *)
TerminalIsStamped == row.status \in Terminal => row.completed

(* Once its session has ended, a row is changed by requests only: neither  *)
(* late output, nor the exit, nor the timer gets through.                  *)
EndedRowIsStable ==
  [][Known /\ adapter.ended /\ row' # row => Request]_taskVars

(* Whatever ends the session leaves the same terminal status in the row as *)
(* in the adapter, unless a statement fails on the way.                    *)
EndAgrees ==
  [][Known /\ ~adapter.ended /\ adapter'.ended /\ listening' =>
       row'.status \in Terminal /\ row'.status = adapter'.status]_taskVars

(* A process that ends before its session does ends the session's row, by  *)
(* the exit or by a stop that overtakes it, as long as the service lives   *)
(* and reads the stream.                                                   *)
ExitIsRecorded ==
  (child = "exited" /\ ~adapter.ended /\ listening) ~>
    (row.status \in Terminal \/ ~Known \/ ~listening)

(* The same of every task in a service that lives on.  It does not hold:   *)
(* after one failed statement nobody reads the stream again.               *)
ExitReachesRow ==
  (child = "exited" /\ ~adapter.ended /\ row # NoRow) ~> (row.status \in Terminal \/ ~Known)

(* A heartbeat does not override a lifecycle state the child has reported: *)
(* that it is completed or failed, or waits for input.                     *)
HeartbeatKeepsStatus ==
  [][Heartbeat /\ row.status \in {"completed", "failed", "waiting_for_approval"}
       => row'.status = row.status]_taskVars

==============================================================================
