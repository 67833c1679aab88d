------------------------- MODULE OperationalProjection -------------------------
(***************************************************************************)
(* services/andon-api/src/operational-projection.ts with its caller in     *)
(* repository.ts: what Mission Control shows of a session, as a function   *)
(* of the session's stored evidence, a status hint and the time.  Nothing  *)
(* is stored, so a card moves when time passes although nothing happens.   *)
(*                                                                         *)
(* Times are positive naturals and 0 means that there is none.  Of the     *)
(* inputs of projectOperationalSession, reviewNeeded and runtimeDbMismatch *)
(* are never set by repository.ts, its one caller, and humanInputNeeded is *)
(* set for sessions without a runtime row only.                            *)
(***************************************************************************)
EXTENDS EventVocabulary

CONSTANTS
  FreshMs, ColdMs, ExpiredMs, LegacyHistoryMs,  \* ages, in the clock's unit
  ReviewStaleMs, ActionableStaleMs

ASSUME Windows ==
  /\ {FreshMs, ColdMs, ExpiredMs, LegacyHistoryMs, ReviewStaleMs,
      ActionableStaleMs} \subseteq Nat
  /\ FreshMs < ColdMs /\ ColdMs < ExpiredMs /\ ExpiredMs < LegacyHistoryMs
  /\ LegacyHistoryMs < ReviewStaleMs /\ LegacyHistoryMs < ActionableStaleMs

Category == {"live", "needs_action", "degraded_active", "review", "historical",
             "unknown"}
Hints == {"running", "awaiting_assignment", "needs_input", "awaiting_review",
          "parked", "blocked", "at_risk", "none"}
AgedOut == {"stale_review", "stale_needs_action", "stale_degraded"}

(***************************************************************************)
(* Times and ages.                                                         *)
(***************************************************************************)
Newest(times) == CHOOSE t \in times \cup {0} : \A u \in times : u <= t
Age(at, now) == IF at > now THEN 0 ELSE now - at

(* Mutant: the comparison is turned around. *)
YoungerThan(at, now, window) == at # 0 /\ Age(at, now) <= window

Older(at, now, window) == at # 0 /\ Age(at, now) > window

Freshness(at, now) ==
  IF at = 0 THEN "unknown"
  ELSE IF Age(at, now) <= FreshMs THEN "fresh"
  ELSE IF Age(at, now) <= ColdMs THEN "stale"
  ELSE "cold"

(***************************************************************************)
(* A row of runtime_sessions with its events and its process: its status,  *)
(* the times the row holds, whether it is a mirror of posted events or     *)
(* some child's, and whether its completion was acknowledged.              *)
(***************************************************************************)
TimesOf(row, significance) ==
  {e.at : e \in {f \in row.events : Significance(f.type) = significance}}
LastHeartbeat(row) == Newest(TimesOf(row, "heartbeat"))
LastActivity(row) == Newest(TimesOf(row, "meaningful_activity"))
LastSignal(row) ==
  LET signal == Newest({LastHeartbeat(row), LastActivity(row), row.completedAt})
  IN IF signal # 0 \/ row.status \in Running THEN signal ELSE row.updatedAt

(* The process counts as alive while its last heartbeat is not cold. *)
Alive(row, now) ==
  LET at == Newest({LastHeartbeat(row), row.processAt})
  IN IF at = 0 THEN "unknown" ELSE IF Age(at, now) <= ColdMs THEN "yes" ELSE "no"

(* Mutant: a demand goes cold like a heartbeat. *)
IsColdActionable(alive, at, now) == alive # "yes" /\ Older(at, now, ColdMs)

IsStaleReview(at, now) == Older(at, now, ReviewStaleMs)
IsStaleActionable(alive, at, now) ==
  alive # "yes" /\ Older(at, now, ActionableStaleMs)

Card(category, reason) == [category |-> category, reason |-> reason]
Gone(reason) == Card("historical", reason)
ReviewCard(reason, at, now) ==
  IF IsStaleReview(at, now) THEN Gone("stale_review") ELSE Card("review", reason)

(***************************************************************************)
(* A session that only posted events: the status legacyStatusHint reads    *)
(* off them, and the projection of it.                                     *)
(***************************************************************************)
LegacyStatus(legacy, now) ==
  IF legacy.endedAt # 0 THEN "ended"
  ELSE IF legacy.events # {} /\ \A e \in legacy.events : e.type \in Housekeeping
  THEN "parked"
  ELSE IF \E e \in legacy.events :
            e.type = "agent.question_asked" /\ e.note = "unresolved"
  THEN "waiting_for_input"
  ELSE IF Older(legacy.lastEventAt, now, LegacyHistoryMs) THEN "stale_legacy"
  ELSE "none"

ProjectLegacy(legacy, now) ==
  LET status == LegacyStatus(legacy, now)
      signal == Newest({legacy.endedAt, legacy.lastEventAt})
  IN IF status \in {"ended", "parked"} THEN Gone("terminated")
     ELSE IF status = "stale_legacy" THEN Gone("stale_legacy_only")
     ELSE IF status = "waiting_for_input"
     THEN IF IsStaleActionable("unknown", signal, now)
          THEN Gone("stale_needs_action")
          ELSE Card("needs_action", "waiting_for_input")
     ELSE Card("unknown", "legacy_active_without_runtime")

(***************************************************************************)
(* A session with a runtime row.  The hint is consulted first, then the    *)
(* row's status, and a status that means running needs live proof.         *)
(***************************************************************************)
ProjectHinted(row, hint, now) ==
  CASE hint = "parked" -> Gone("parked")
    [] hint = "awaiting_review" ->
         ReviewCard("awaiting_review", LastSignal(row), now)
    [] hint = "awaiting_assignment" -> Card("needs_action", "awaiting_assignment")
    [] hint = "needs_input" -> Card("needs_action", "waiting_for_input")
    [] hint \in {"blocked", "at_risk"} ->
         Card("degraded_active", "blocked_or_failed")

ProjectEnded(row, now) ==
  IF row.status = "completed" /\ ~row.acknowledged
  THEN ReviewCard("unacknowledged_completion", LastSignal(row), now)
  ELSE IF row.status \in {"parked", "paused"} THEN Gone("parked")
  ELSE Gone("terminated")

ProjectWaiting(row, now) ==
  IF IsStaleActionable(Alive(row, now), LastSignal(row), now)
  THEN Gone("stale_needs_action")
  ELSE Card("needs_action", IF row.status = "awaiting_assignment"
                            THEN "awaiting_assignment" ELSE "waiting_for_input")

ProjectDegraded(row, now) ==
  IF IsStaleActionable(Alive(row, now), LastSignal(row), now)
  THEN Gone("stale_degraded")
  ELSE Card("degraded_active", "blocked_or_failed")

ProjectMirror(row, now) ==
  IF \/ Freshness(LastHeartbeat(row), now) = "cold"
     \/ LastHeartbeat(row) = 0 /\ Older(LastSignal(row), now, LegacyHistoryMs)
  THEN Gone("stale_legacy_only")
  ELSE Card("degraded_active", "missing_runtime_signal")

ProjectRunning(row, now) ==
  LET signal == Newest({LastHeartbeat(row), LastActivity(row)})
  IN IF row.mirror THEN ProjectMirror(row, now)
     ELSE IF Alive(row, now) # "yes"
     THEN IF Older(signal, now, ExpiredMs) THEN Gone("parked")
          ELSE IF LastActivity(row) # 0 /\ ~Older(signal, now, ColdMs)
          THEN Card("live", "runtime_active")
          ELSE Card("degraded_active", "missing_runtime_signal")
     ELSE IF LastHeartbeat(row) = 0
     THEN Card("degraded_active", "missing_runtime_signal")
     ELSE IF Freshness(LastHeartbeat(row), now) = "cold"
     THEN Card("degraded_active", "stale_runtime")
     ELSE Card("live", "runtime_active")

ProjectByStatus(row, now) ==
  CASE row.status \in Running /\ row.completedAt # 0 ->
         Card("unknown", "contradictory_telemetry")
    [] row.status \in Historical \cup {"paused"} -> ProjectEnded(row, now)
    [] row.status \in NeedsAction -> ProjectWaiting(row, now)
    [] row.status \in Review ->
         ReviewCard("awaiting_review", LastSignal(row), now)
    [] row.status \in Degraded -> ProjectDegraded(row, now)
    [] row.status \in Running /\ row.completedAt = 0 -> ProjectRunning(row, now)
    [] row.status = "unknown" -> Card("unknown", "insufficient_evidence")

(* Mutant: only the row's status is consulted. *)
ProjectRow(row, hint, now) ==
  IF row.child THEN Gone("parked") ELSE ProjectByStatus(row, now)

ProjectRuntime(row, hint, now) ==
  IF row.child THEN Gone("parked")
  ELSE IF hint = "running" /\ row.status \notin Historical
  THEN Card("live", "runtime_active")
  ELSE IF /\ hint \in {"needs_input", "awaiting_assignment", "blocked", "at_risk"}
          /\ IsStaleActionable(Alive(row, now), LastSignal(row), now)
  THEN Gone(IF hint \in {"blocked", "at_risk"} THEN "stale_degraded"
            ELSE "stale_needs_action")
  ELSE IF row.status \in Running /\ hint \notin {"running", "none"}
  THEN ProjectHinted(row, hint, now)
  ELSE ProjectByStatus(row, now)

(***************************************************************************)
(* What the operator reads off a card.  The status is the row's, or        *)
(* "missing".                                                              *)
(***************************************************************************)
Lifecycle(card, status, freshness) ==
  IF card.reason \in AgedOut THEN "parked"
  ELSE IF card.reason = "awaiting_assignment" \/ status = "awaiting_assignment"
  THEN "awaiting_assignment"
  ELSE IF card.category = "needs_action" THEN "waiting_input"
  ELSE IF card.category = "review" THEN "review_ready"
  ELSE IF status = "waiting_for_input" THEN "waiting_input"
  ELSE IF status \in Review THEN "review_ready"
  ELSE IF status \in Degraded THEN "blocked"
  ELSE IF status \in {"parked", "paused"} THEN "parked"
  ELSE IF status \in {"completed", "cancelled", "terminated"} THEN "completed"
  ELSE IF card.reason \in {"stale_runtime", "missing_runtime_signal"}
  THEN IF status \in Running /\ freshness # "unknown" THEN "running" ELSE "stale"
  ELSE IF card.category = "live" THEN "running"
  ELSE IF card.category = "historical"
  THEN IF card.reason = "parked" THEN "parked" ELSE "completed"
  ELSE "unknown"

Signal(freshness, alive) ==
  IF alive = "no" THEN "dead"
  ELSE IF alive = "yes" THEN IF freshness = "fresh" THEN "alive" ELSE "stale"
  ELSE IF freshness \in {"stale", "cold"} THEN "stale" ELSE "unknown"

PrimaryStatus(card, lifecycle) ==
  IF lifecycle = "awaiting_assignment" THEN "awaiting_assignment"
  ELSE IF lifecycle = "waiting_input" \/ card.category = "needs_action"
  THEN "waiting_on_human_input"
  ELSE IF lifecycle = "review_ready" \/ card.category = "review"
  THEN "waiting_for_review"
  ELSE IF \/ lifecycle = "blocked"
          \/ card.reason \in {"blocked_or_failed", "contradictory_telemetry"}
  THEN "needs_intervention"
  ELSE IF lifecycle = "running" THEN "running"
  ELSE IF lifecycle = "parked" THEN "parked_idle"
  ELSE IF lifecycle = "completed" THEN "done_historical"
  ELSE "unknown"

ActionRequired(primary) ==
  primary \notin {"running", "parked_idle", "done_historical"}

(***************************************************************************)
(* The item the API answers with.  A session whose runtime row does not    *)
(* earn a place of its own is set aside as parked, whatever its card says. *)
(***************************************************************************)
Item(card, primary) ==
  [category |-> card.category, reason |-> card.reason, primary |-> primary,
   action |-> ActionRequired(primary), board |-> card.category # "historical"]

SetAside == Item(Gone("parked"), "parked_idle")

EarnsItsPlace(card, primary, direct, signalled, status) ==
  \/ direct /\ primary \in {"running", "awaiting_assignment", "waiting_for_review"}
  \/ /\ direct /\ primary = "needs_intervention"
     /\ signalled \/ status \in Degraded
  \/ card.category = "needs_action" /\ card.reason = "waiting_for_input"

Shown(card, status, direct, freshness, alive, signalled) ==
  LET primary == PrimaryStatus(card, Lifecycle(card, status, freshness))
  IN IF \/ /\ card.category = "historical" /\ card.reason \in AgedOut
           /\ ~ActionRequired(primary)
        \/ EarnsItsPlace(card, primary, direct,
                         signalled \/ Signal(freshness, alive) # "unknown", status)
     THEN Item(card, primary)
     ELSE SetAside

RuntimeItem(row, hint, now) ==
  Shown(ProjectRuntime(row, hint, now), row.status, ~row.mirror,
        Freshness(LastHeartbeat(row), now), Alive(row, now),
        Newest({LastHeartbeat(row), LastActivity(row), LastSignal(row)}) # 0)

LegacyItem(legacy, now) ==
  LET signal == Newest({legacy.endedAt, legacy.lastEventAt})
  IN Shown(ProjectLegacy(legacy, now), "missing", FALSE,
           Freshness(signal, now), "unknown", signal # 0)

=============================================================================
