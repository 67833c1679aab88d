----------------------------- MODULE RuntimeWriter -----------------------------
(***************************************************************************)
(* scripts/andon-runtime-writer.mjs with both of its ends: the session and *)
(* the turn sidecars it reads, which the CLI and the agents' turn hooks    *)
(* write, and the Andon store it posts to, which the CLI posts to as well. *)
(* A tick reads, posts and saves what it has posted; ticks of the poll and *)
(* of the file watch overlap, requests and responses are lost, and the     *)
(* writer is restarted.                                                    *)
(*                                                                         *)
(* Sessions are numbered in the order of their starts; session is the one  *)
(* in state.json, 0 when there is none.  A handoff takes its session out   *)
(* and start-new replaces it, so an ended session is never in state.json   *)
(* and the writer's branch for one is not modelled.                        *)
(*                                                                         *)
(* The unit of time is the poll's interval, which is also the heartbeats'. *)
(* Events of one kind, sender and time are one event: a twin of a stored    *)
(* event shows the board nothing new.                                       *)
(***************************************************************************)
EXTENDS AndonIngest

CONSTANTS
  Agent, Shared,   \* the agents, and the file of hooks that name no agent
  AgentOf,         \* the agent of each session
  Hooks,           \* whose hooks are installed
  StaleSessionMs, LifecycleReassertMs,
  MaxChanges,      \* bound: what agents and users do
  LastChange,      \* bound: when they and the faults stop
  MaxTime,         \* bound: the clock
  MaxTicks,        \* bound: ticks under way at once
  MaxFaults        \* bound: lost requests, lost responses and restarts

Session == DOMAIN AgentOf

ASSUME WriterOK ==
  /\ IsFiniteSet(Session) /\ Session = 1..Cardinality(Session) /\ 1 \in Session
  /\ \A s \in Session : AgentOf[s] \in Agent
  /\ Hooks \subseteq Agent \cup {Shared}
  /\ {StaleSessionMs, LifecycleReassertMs, MaxChanges, LastChange, MaxTime,
      MaxTicks, MaxFaults} \subseteq Nat
  /\ MaxTime # 0

VARIABLES
  now,
  session,     \* [id, startedAt, updatedAt, completion] of state.json
  sidecar,     \* the turn-state files: [turn, at]
  watched,     \* what the watch saw: [changed, turn]
  saved,       \* andon-runtime-writer-state.json
  ticks,       \* ticks that wait for the API's answer
  polled,      \* the poll's tick of this interval has begun
  stores,      \* what the API holds of each session
  changes, faults

vars == <<now, session, sidecar, watched, saved, ticks, polled, stores, changes,
          faults>>

NoTurn == [turn |-> "none", at |-> 0]
Turn == {"waiting", "running"}

TypeOK ==
  /\ now \in 1..MaxTime /\ polled \in BOOLEAN /\ changes \in 0..MaxChanges
  /\ faults \in 0..MaxFaults
  /\ session.id \in Session \cup {0} /\ session.completion \in BOOLEAN
  /\ {session.startedAt, session.updatedAt} \subseteq 0..now
  /\ \A a \in Agent \cup {Shared} :
       sidecar[a] = NoTurn \/ sidecar[a] \in [turn : Turn, at : 1..now]
  /\ watched.turn \in Turn \cup {"none"}
  /\ saved.started \in 0..session.id \cup Session
  /\ saved.lifecycle \in Turn \cup {"none"} /\ {saved.beatAt, saved.assertedAt} \subseteq 0..now
  /\ \A t \in ticks : t.session \in Session /\ t.at \in 1..now /\ t.events # <<>>
  /\ \A s \in Session : stores[s].traces # {} => stores[s].row.updatedAt \in 1..now

NoSession == [id |-> 0, startedAt |-> 0, updatedAt |-> 0, completion |-> FALSE]
Started(s) == [id |-> s, startedAt |-> now, updatedAt |-> now, completion |-> FALSE]

(* The writer is started with a session whose start nobody told the API of. *)
Init ==
  /\ now = 1 /\ polled = FALSE /\ ticks = {} /\ changes = 0 /\ faults = 0
  /\ session = Started(1)
  /\ sidecar = [a \in Agent \cup {Shared} |-> NoTurn]
  /\ watched = [changed |-> FALSE, turn |-> "none"]
  /\ saved = [started |-> 0, beatAt |-> 0, lifecycle |-> "none", assertedAt |-> 0]
  /\ stores = [s \in Session |-> EmptyStore]

------------------------------------------------------------------------------
(* Events, by the writer and by the processes that run the CLI's commands. *)

Writer == [writer |-> TRUE, id |-> "file-state", kind |-> "writer"]
Cli == [writer |-> FALSE, id |-> Unnamed, kind |-> Unnamed]
ASSUME SendersOK == {Writer, Cli} \subseteq Sender

Kinds == <<"session.ended", "session.started", "task.started",
           "session.checkpoint_created", "agent.summary_emitted",
           "session.needs_input", "work.started", "session.heartbeat">>
Rank(type) == CHOOSE i \in DOMAIN Kinds : Kinds[i] = type

Posted(type, note, from, at) ==
  [id |-> IF type = "session.started" /\ from = Writer THEN 0
          ELSE at * (Len(Kinds) + 1) + Rank(type),
   at |-> at, type |-> type, note |-> note, from |-> from, task |-> FALSE]

(* emitAndonEvent posts once and asks no more of it.  The posts of one     *)
(* command arrive, or are lost, together here.                              *)
MayPost(s, events) ==
  \/ stores' = [stores EXCEPT ![s] = IngestEvents(@, events)] /\ UNCHANGED faults
  \/ faults < MaxFaults /\ faults' = faults + 1 /\ UNCHANGED stores

------------------------------------------------------------------------------
(* The agents and the users. *)

Active == session.id # 0
Change == now <= LastChange /\ changes < MaxChanges /\ changes' = changes + 1

StartNew ==
  /\ Change /\ session.id + 1 \in Session
  /\ stores[session.id + 1] = EmptyStore
  /\ session' = Started(session.id + 1)
  /\ MayPost(session.id + 1, <<Posted("session.started", "none", Cli, now),
                               Posted("task.started", "none", Cli, now)>>)
  /\ UNCHANGED <<now, sidecar, watched, saved, ticks, polled>>

Checkpoint(completion) ==
  /\ Change /\ Active
  /\ session' = [session EXCEPT !.updatedAt = now, !.completion = completion]
  /\ MayPost(session.id,
             <<Posted("session.checkpoint_created", "none", Cli, now)>> \o
             IF completion THEN <<Posted("agent.summary_emitted", "signal", Cli, now)>>
             ELSE <<>>)
  /\ UNCHANGED <<now, sidecar, watched, saved, ticks, polled>>

(* Only the last session is handed off here: a number names one session. *)
Handoff ==
  /\ Change /\ Active /\ session.id + 1 \notin Session
  /\ session' = NoSession
  /\ MayPost(session.id, <<Posted("session.ended", "none", Cli, now)>>)
  /\ UNCHANGED <<now, sidecar, watched, saved, ticks, polled>>

(* A turn hook replaces its own agent's file. *)
Hook(agent, turn) ==
  /\ Change
  /\ sidecar' = [sidecar EXCEPT ![agent] = [turn |-> turn, at |-> now]]
  /\ sidecar' # sidecar
  /\ watched' = [watched EXCEPT !.changed = TRUE]
  /\ UNCHANGED <<now, session, saved, ticks, polled, stores, faults>>

------------------------------------------------------------------------------
(* What a tick reads. *)

(* Mutant: whichever agent wrote last. *)
LatestTurn(agent) ==
  sidecar[CHOOSE a \in DOMAIN sidecar :
            \A b \in DOMAIN sidecar : sidecar[b].at <= sidecar[a].at]

TurnOf(agent) ==
  IF sidecar[agent] # NoTurn THEN sidecar[agent] ELSE sidecar[Shared]

TurnSignal == TurnOf(AgentOf[session.id])
Fresh == now - Newest({session.updatedAt, TurnSignal.at}) <= StaleSessionMs
Desired ==
  IF TurnSignal.turn # "none" THEN TurnSignal.turn
  ELSE IF session.completion THEN "waiting" ELSE "running"

StartDue == saved.started # session.id
BeatDue == now - saved.beatAt >= 1

Transitioned ==
  Desired # IF saved.lifecycle = "none" /\ StartDue THEN "running" ELSE saved.lifecycle

(* Mutant: only a change of the turn is posted. *)
AssertChange == Transitioned

(* A writer that never asserted a turn is due to (its last time is 0).      *)
AssertDue ==
  Transitioned \/ saved.assertedAt = 0 \/ now - saved.assertedAt >= LifecycleReassertMs

EventsDue ==
  (IF StartDue THEN <<Posted("session.started", "none", Writer, session.startedAt)>>
   ELSE <<>>) \o
  (IF AssertDue
   THEN <<Posted(IF Desired = "waiting" THEN "session.needs_input" ELSE "work.started",
                 "none", Writer, now)>>
   ELSE <<>>) \o
  (IF BeatDue THEN <<Posted("session.heartbeat", "none", Writer, now)>> ELSE <<>>)

(* What the tick will save if its events arrive, over whatever is saved by *)
(* then.                                                                    *)
Saving ==
  [started |-> session.id, beatAt |-> IF BeatDue THEN now ELSE saved.beatAt,
   lifecycle |-> Desired, assertedAt |-> IF AssertDue THEN now ELSE saved.assertedAt]

------------------------------------------------------------------------------
(* The writer. *)

(* Mutant: an empty batch is posted too. *)
BeginAnyway ==
  /\ Active /\ Cardinality(ticks) < MaxTicks
  /\ ticks' = ticks \cup {[session |-> session.id, at |-> now, events |-> EventsDue,
                           saving |-> Saving, answered |-> FALSE]}
  /\ UNCHANGED saved

Begin ==
  IF Active /\ Fresh /\ EventsDue # <<>>
  THEN /\ Cardinality(ticks) < MaxTicks
       /\ ticks' = ticks \cup {[session |-> session.id, at |-> now, events |-> EventsDue,
                                saving |-> Saving, answered |-> FALSE]}
       /\ UNCHANGED saved
  ELSE /\ UNCHANGED ticks
       /\ saved' = IF Active /\ Fresh THEN Saving ELSE saved

Poll ==
  /\ ~polled /\ polled' = TRUE
  /\ Begin
  /\ UNCHANGED <<now, session, sidecar, watched, stores, changes, faults>>

(* The watch remembers the turn before its tick has come to anything. *)
Watch ==
  /\ watched.changed
  /\ LET turn == IF Active THEN TurnSignal.turn ELSE sidecar[Shared].turn
     IN IF turn \notin {"none", watched.turn}
        THEN /\ watched' = [changed |-> FALSE, turn |-> turn]
             /\ Begin
        ELSE /\ watched' = [watched EXCEPT !.changed = FALSE]
             /\ UNCHANGED <<saved, ticks>>
  /\ UNCHANGED <<now, session, sidecar, polled, stores, changes, faults>>

Arrive(t) ==
  /\ t \in ticks /\ ~t.answered
  /\ stores' = [stores EXCEPT ![t.session] = IngestEvents(@, t.events)]
  /\ ticks' = (ticks \ {t}) \cup {[t EXCEPT !.answered = TRUE]}
  /\ UNCHANGED <<now, session, sidecar, watched, saved, polled, changes,
                 faults>>

Save(t) ==
  /\ t \in ticks /\ t.answered
  /\ saved' = t.saving
  /\ ticks' = ticks \ {t}
  /\ UNCHANGED <<now, session, sidecar, watched, polled, stores, changes, faults>>

(* A request or its response is lost: nothing is saved, and a later tick    *)
(* finds the same due again.                                                *)
Fail(t) ==
  /\ t \in ticks /\ now <= LastChange /\ faults < MaxFaults
  /\ ticks' = ticks \ {t} /\ faults' = faults + 1
  /\ UNCHANGED <<now, session, sidecar, watched, saved, polled, stores, changes>>

(* The state file survives, and the writer ticks at once. *)
Restart ==
  /\ now <= LastChange /\ faults < MaxFaults
  /\ ticks' = {} /\ faults' = faults + 1 /\ polled' = FALSE
  /\ watched' = [changed |-> FALSE, turn |-> "none"]
  /\ UNCHANGED <<now, session, sidecar, saved, stores, changes>>

(* setInterval: an interval ends after its poll has begun. *)
TimePasses ==
  /\ polled /\ now < MaxTime
  /\ now' = now + 1 /\ polled' = FALSE
  /\ UNCHANGED <<session, sidecar, watched, saved, ticks, stores, changes,
                 faults>>

Next ==
  \/ StartNew \/ Handoff
  \/ \E completion \in BOOLEAN : Checkpoint(completion)
  \/ \E a \in Hooks, turn \in Turn : Hook(a, turn)
  \/ Poll \/ Watch
  \/ \E t \in ticks : Arrive(t) \/ Save(t) \/ Fail(t)
  \/ Restart \/ TimePasses

Spec == Init /\ [][Next]_vars

(* Timers fire, the watch is told of changes, and requests to a local API   *)
(* that runs are answered.                                                  *)
FairSpec ==
  /\ Spec /\ WF_vars(TimePasses) /\ WF_vars(Poll) /\ WF_vars(Watch)
  /\ WF_vars(\E t \in ticks : Save(t))
  /\ []<>(\A t \in ticks : t.answered)

------------------------------------------------------------------------------
(* Whatever was lost, restarted or overtaken, Mission Control in the end    *)
(* shows what the agent of the active session last said of its turn, for as *)
(* long as the session is fresh.                                            *)
Status(s) == Board(stores[s], now).primary
TurnIsShown ==
  Active /\ Fresh =>
    Status(session.id) = IF Desired = "waiting" THEN "waiting_on_human_input"
                         ELSE "running"
TurnReachesBoard == <>[]TurnIsShown

(* A session is kept alive by its own signals only: the writer's last       *)
(* heartbeat for it is no further from them than the window allows, however *)
(* busy other agents are in the repository.                                 *)
LivenessIsOwned ==
  Active /\ stores[session.id].row # NoRow =>
    LastHeartbeat(RowOf(stores[session.id])) <=
      StaleSessionMs + Newest({session.updatedAt, sidecar[Shared].at,
                               sidecar[AgentOf[session.id]].at})

(* When a session is abandoned, its liveness decays: a session nobody has   *)
(* heard of for longer than every window of a running one is not live.      *)
LivenessDecays ==
  \A s \in Session :
    stores[s].row # NoRow /\ Older(LastSignal(RowOf(stores[s])), now, LegacyHistoryMs)
    => Board(stores[s], now).category # "live"

=============================================================================
