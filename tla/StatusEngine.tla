----------------------------- MODULE StatusEngine -----------------------------
(***************************************************************************)
(* packages/andon-core: the status, the recommendation and the severity    *)
(* inferred from the posted events of a session (status-engine.ts,         *)
(* recommendation-engine.ts, supervision-signals.ts), and the hint         *)
(* services/andon-api takes from them.                                     *)
(*                                                                         *)
(* A session here is [startedAt, system]: when it started and whether its  *)
(* agent or objective names a background task.  The events outOfScope and  *)
(* rejected tell of are found with a Holistic context only.                *)
(***************************************************************************)
EXTENDS EventVocabulary, FiniteSets

CONSTANT RecentActivityMs
ASSUME RecentActivityOK == RecentActivityMs \in Nat

SessionStatus == {"running", "queued", "needs_input", "at_risk", "blocked",
                  "awaiting_review", "parked"}

(* The last event of some types, and the time of it (0 if there is none). *)
OfTypes(events, types) == {e \in events : e.type \in types}
IsLast(e, events) == \A f \in events : f = e \/ Before(f, e)
TimeOfLast(events, types) ==
  LET found == OfTypes(events, types)
  IN IF found = {} THEN 0 ELSE (CHOOSE e \in found : IsLast(e, found)).at

FailureTypes == {"command.failed", "test.failed"}
NonOperational ==
  {"session.checkpoint_created", "session.heartbeat", "session.idle_detected",
   "holistic.checkpoint", "context.branch_changed",
   "context.environment_changed", "telemetry.noop", "user.resumed"}
Operational(events) == {e \in events : e.type \notin NonOperational}

(* The last question is open unless it says that it is resolved. *)
QuestionOpen(events) ==
  LET asked == OfTypes(events, {"agent.question_asked"})
  IN \E e \in asked : IsLast(e, asked) /\ e.note # "resolved"

(* Two failures ever, a scope expansion ever, or drift a context shows. *)
AtRisk(events, hasContext) ==
  \/ Cardinality(OfTypes(events, FailureTypes)) >= 2
  \/ OfTypes(events, {"agent.scope_expansion_detected"}) # {}
  \/ /\ hasContext
     /\ \E e \in events :
          \/ e.type = "file.changed" /\ e.note = "outOfScope"
          \/ e.type = "agent.summary_emitted" /\ e.note = "rejected"

Blocked(events) ==
  \/ \E e \in OfTypes(events, FailureTypes) : e.note = "environment"
  \/ /\ OfTypes(events, FailureTypes) # {}
     /\ OfTypes(events, {"session.idle_detected"}) # {}
     /\ TimeOfLast(events, {"session.idle_detected"})
          >= TimeOfLast(events, FailureTypes)

(* Work is complete when a task was completed and none was started after   *)
(* it, or the last summary says so and no task was ever started, unless a   *)
(* problem came after the completion.                                       *)
WorkComplete(events) ==
  LET summaries == OfTypes(events, {"agent.summary_emitted"})
      completed == OfTypes(events, {"task.completed"})
      completedAt == TimeOfLast(events, {"task.completed"})
      pivot == IF completed # {} THEN completedAt
               ELSE TimeOfLast(events, {"agent.summary_emitted"})
  IN /\ \/ completed # {}
        \/ \E e \in summaries : IsLast(e, summaries) /\ e.note = "workComplete"
     /\ TimeOfLast(events, {"task.started"}) <= completedAt
     /\ ~ \E e \in OfTypes(events, FailureTypes \cup {"agent.question_asked"}) :
            e.at > pivot

(* Only the session's start was seen; or it ended, or went quiet. *)
OnlyStarted(events) ==
  /\ Cardinality(events) = 1
  /\ \E e \in events : e.type = "session.started"
WentQuiet(events, startedAt, now) ==
  LET last(found) == CHOOSE e \in found : IsLast(e, found)
      activity == IF Operational(events) # {} THEN last(Operational(events)).at
                  ELSE IF events # {} THEN last(events).at ELSE startedAt
  IN \/ \E e \in events : IsLast(e, events) /\ e.type = "session.ended"
     \/ now - activity > RecentActivityMs

DeriveStatus(session, events, hasContext, now) ==
  IF QuestionOpen(events) THEN "needs_input"
  ELSE IF AtRisk(events, hasContext) THEN "at_risk"
  ELSE IF Blocked(events) THEN "blocked"
  ELSE IF WorkComplete(events)
  THEN IF session.system THEN "parked" ELSE "awaiting_review"
  ELSE IF OnlyStarted(events) THEN "queued"
  ELSE IF WentQuiet(events, session.startedAt, now) THEN "parked"
  ELSE "running"

(***************************************************************************)
(* What the operator is told to do about a status, and how loudly.         *)
(***************************************************************************)
Urgency(status) ==
  IF status \in {"needs_input", "at_risk", "blocked"} THEN "high"
  ELSE IF status = "awaiting_review" THEN "medium" ELSE "low"

Severity(status, urgency) ==
  IF status = "blocked" THEN "critical"
  ELSE IF status \in {"at_risk", "needs_input"} \/ urgency = "high" THEN "high"
  ELSE IF status = "awaiting_review" \/ urgency = "medium" THEN "medium"
  ELSE IF status = "parked" THEN "info" ELSE "low"

(* The event the supervisor's clock starts from. *)
LastMeaningful(events) ==
  LET ranked == IF Operational(events) # {} THEN Operational(events) ELSE events
  IN {e \in ranked : IsLast(e, ranked)}

(***************************************************************************)
(* The hint for a session with a runtime row: what its runtime events add  *)
(* up to, else what its posted events say if one of them is explicit.      *)
(***************************************************************************)
Overrides(events) ==
  \E e \in events :
    \/ e.type \in {"session.ended", "session.completed", "session.failed",
                   "agent.blocked", "command.failed", "test.failed"}
    \/ /\ e.type \in {"agent.question_asked", "agent.question", "input.requested"}
       /\ e.note = "unresolved"
    \/ e.type \in {"agent.summary_emitted", "agent.summary"} /\ e.note = "signal"

CanonicalHint(session, traces, events, now) ==
  IF StatusHint(traces) # "none" \/ ~Overrides(events) THEN StatusHint(traces)
  ELSE LET status == DeriveStatus(session, events, FALSE, now)
       IN IF status = "queued" THEN "none" ELSE status

=============================================================================
