---------------------------- MODULE EventVocabulary ----------------------------
(***************************************************************************)
(* The two event vocabularies of the Andon services and the maps between   *)
(* them: the statuses and events of packages/runtime-core, and what        *)
(* services/andon-api makes of an event posted to /events: its normalised  *)
(* form (event-integrity.ts), the runtime event it becomes and the status  *)
(* it gives the row (repository.ts).  Sets and functions only, no state.   *)
(*                                                                         *)
(* A posted event is abstracted to its type, its time and its note: what   *)
(* its payload or summary says that the code tells apart.                  *)
(***************************************************************************)
EXTENDS Naturals

(* Statuses of a row of runtime_sessions. *)
Running == {"starting", "running"}
NeedsAction == {"awaiting_assignment", "waiting_for_input"}
Review == {"waiting_for_approval", "awaiting_review"}
Historical == {"completed", "cancelled", "terminated", "parked"}
Degraded == {"blocked", "failed"}
RuntimeStatus == Running \cup NeedsAction \cup Review \cup Historical
                   \cup Degraded \cup {"paused", "unknown"}

(* What a payload or a summary can add to an event's type.  A "branch" note *)
(* is a summary or a reason that tells of a branch switch.                  *)
Note == {"none", "unresolved", "resolved", "signal", "workComplete",
         "environment", "outOfScope", "rejected", "acknowledged", "heartbeat",
         "branch"}

(* What a runtime event counts for.  review.resolved is in none of the sets. *)
ContextEvents ==
  {"context.branch_changed", "context.environment_changed",
   "git.branch_created", "git.commit_created", "git.conflict_detected"}
ReviewStateEvents ==
  {"approval.requested", "approval.granted", "approval.denied",
   "review.requested", "review.acknowledged"}
MeaningfulEvents ==
  {"session.started", "session.status_changed", "session.needs_input",
   "session.needs_review", "session.failed_proof", "session.paused",
   "session.resumed", "session.parked", "session.error", "session.completed",
   "session.failed", "session.cancelled", "session.terminated",
   "work.started", "work.completed", "task.started", "task.updated",
   "task.completed", "phase.changed", "tool.started", "tool.completed",
   "tool.failed", "file.changed", "command.started", "command.completed",
   "command.failed", "test.started", "test.completed", "test.failed",
   "input.requested", "input.resolved", "validation.passed",
   "validation.failed", "agent.question", "agent.warning", "agent.blocked"}

Significance(type) ==
  IF type = "session.heartbeat" THEN "heartbeat"
  ELSE IF type = "holistic.checkpoint" THEN "checkpoint"
  ELSE IF type = "agent.summary" THEN "summary"
  ELSE IF type \in ContextEvents THEN "branch_environment_context"
  ELSE IF type = "user.action" THEN "user_action"
  ELSE IF type \in ReviewStateEvents THEN "review_state"
  ELSE IF type \in MeaningfulEvents THEN "meaningful_activity"
  ELSE "noop"

(* Names the two vocabularies share, as the ingest lists them. *)
Passthrough ==
  ContextEvents \cup MeaningfulEvents \cup
  {"session.heartbeat", "review.requested", "review.resolved", "agent.summary",
   "holistic.checkpoint", "telemetry.noop"}
RuntimeEventType == Passthrough \cup ReviewStateEvents \cup {"user.action"}

(* What can be posted, under the old names too. *)
EventType ==
  Passthrough \cup
  {"session.ended", "session.checkpoint_created", "session.idle_detected",
   "command.finished", "test.finished", "agent.question_asked",
   "agent.summary_emitted", "agent.retry_pattern_detected",
   "agent.scope_expansion_detected", "user.action", "user.resumed"}

Renames(type) ==
  CASE type = "session.ended" -> "session.completed"
    [] type = "session.checkpoint_created" -> "holistic.checkpoint"
    [] type = "session.idle_detected" -> "telemetry.noop"
    [] type = "command.finished" -> "command.completed"
    [] type = "test.finished" -> "test.completed"
    [] type = "agent.question_asked" -> "agent.question"
    [] type = "agent.summary_emitted" -> "agent.summary"
    [] type \in {"agent.retry_pattern_detected",
                 "agent.scope_expansion_detected"} -> "agent.warning"
    [] type = "user.resumed" -> "user.action"
    [] OTHER -> type

(* Mutant: every name is taken for one of the runtime's. *)
ToRuntimeEventAsIs(type) == type

(* A posted event as a runtime event; an unknown name becomes a no-op. *)
ToRuntimeEvent(type) ==
  IF Renames(type) # type \/ type \in Passthrough
  THEN Renames(type) ELSE "telemetry.noop"

(***************************************************************************)
(* What the ingest makes of a posted event before it stores it: a branch   *)
(* switch, a checkpoint or a heartbeat that came under another name gets   *)
(* its own.                                                                *)
(***************************************************************************)
Normalized(type, note, fromWriter) ==
  IF type = "context.branch_changed" \/ note = "branch"
  THEN "context.branch_changed"
  ELSE IF type = "session.checkpoint_created"
  THEN "holistic.checkpoint"
  ELSE IF type = "agent.summary_emitted" /\ (note = "heartbeat" \/ fromWriter)
  THEN "session.heartbeat"
  ELSE type

(* Events that say nothing of the work, in the ingest's classification. *)
Housekeeping ==
  {"session.heartbeat", "telemetry.noop", "session.idle_detected",
   "session.checkpoint_created", "holistic.checkpoint",
   "context.branch_changed"}

(***************************************************************************)
(* The status an ingested event gives its session's row, which had the     *)
(* status old, or none.  Every type that is not named means that the       *)
(* session runs.                                                           *)
(***************************************************************************)
AsksForInput(type, note) ==
  \/ type = "input.requested"
  \/ type \in {"agent.question_asked", "agent.question"} /\ note = "unresolved"
  \/ type \in {"agent.summary_emitted", "agent.summary"} /\ note = "signal"

KeepsStatus ==
  {"session.status_changed", "session.heartbeat", "telemetry.noop",
   "holistic.checkpoint", "context.branch_changed",
   "context.environment_changed"}

MirrorStatus(type, note, old, none) ==
  LET kept == IF old = none THEN "unknown" ELSE old
      Resolves(from, otherwise) == IF old \in from THEN "running" ELSE otherwise
  IN CASE type \in {"session.ended", "session.completed"} -> "completed"
       [] type = "work.started" -> "running"
       [] type = "work.completed" -> "awaiting_assignment"
       [] type = "session.parked" -> "parked"
       [] type = "session.error" -> "failed"
       [] type = "session.needs_input" -> "waiting_for_input"
       [] type \in {"session.needs_review", "review.requested"} -> "awaiting_review"
       [] type \in {"session.failed_proof", "validation.failed"} -> "blocked"
       [] type = "review.resolved" -> Resolves({"awaiting_review"}, kept)
       [] type = "validation.passed" -> Resolves(Degraded \cup {none}, kept)
       [] AsksForInput(type, note) -> "waiting_for_input"
       [] type = "input.resolved" -> Resolves({"waiting_for_input"}, kept)
       [] type \in KeepsStatus -> kept
       [] OTHER -> "running"

(***************************************************************************)
(* The status the runtime events of a session add up to.  A set of events  *)
(* is read in the order of their times, then of their ids; each concern    *)
(* is settled by the last event that raises or clears it.                  *)
(***************************************************************************)
InputRequests == {"input.requested", "approval.requested", "session.needs_input"}
InputAnswers == {"input.resolved", "approval.granted", "approval.denied"}
ReviewRequests == {"review.requested", "session.needs_review"}
ReviewAnswers == {"review.resolved", "review.acknowledged"}
Failures == {"validation.failed", "session.failed_proof", "session.error",
             "session.failed", "agent.blocked"}
Resumptions == {"work.started"} \cup InputAnswers \cup ReviewAnswers
                 \cup {"validation.passed"}
Resets == {"work.started", "session.parked"}

Before(e, f) == e.at < f.at \/ (e.at = f.at /\ e.id < f.id)
LastIs(events, raised, cleared) ==
  \E e \in events :
    /\ e.type \in raised
    /\ \A f \in events : f.type \in raised \cup cleared => f = e \/ Before(f, e)

InputPending(events) == LastIs(events, InputRequests, InputAnswers \cup Resets)
ReviewPending(events) == LastIs(events, ReviewRequests, ReviewAnswers \cup Resets)
FailurePending(events) == LastIs(events, Failures, {"validation.passed"} \cup Resets)
IsParked(events) ==
  LastIs(events, {"session.parked"},
         InputRequests \cup ReviewRequests \cup Failures \cup Resumptions)

StatusHint(events) ==
  IF FailurePending(events) THEN "blocked"
  ELSE IF InputPending(events) THEN "needs_input"
  ELSE IF ReviewPending(events) THEN "awaiting_review"
  ELSE IF IsParked(events) THEN "parked"
  ELSE IF LastIs(events, {"work.completed"}, Resumptions) THEN "awaiting_assignment"
  ELSE IF LastIs(events, Resumptions, {"work.completed"}) THEN "running"
  ELSE "none"

=============================================================================
