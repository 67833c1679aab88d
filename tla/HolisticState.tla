---------------------------- MODULE HolisticState ----------------------------
(***************************************************************************)
(* src/core/state.ts and its callers in src/cli.ts, src/mcp-server.ts and  *)
(* src/daemon.ts: the contents of state.json (the active session, the      *)
(* queue of pending work, the last handoff), the archived session records  *)
(* and the draft handoff file, under every operation that writes them.     *)
(*                                                                         *)
(* mutateState holds the lock of StateLock from its read to its write, so  *)
(* an operation is one step.  A handoff is two: it reads the state without *)
(* the lock, asks the user for minutes, and applies the answers to         *)
(* whatever the state has become.                                          *)
(*                                                                         *)
(* Of a session's text the model keeps its open steps and its lessons      *)
(* (triedItems and regressionRisks).  Blockers travel as the steps do.     *)
(***************************************************************************)
EXTENDS Integers, Sequences

CONSTANTS
  Cli, Mcp,       \* the processes that run the holistic command; the MCP servers
  None,
  Step, Lesson,   \* texts a session records
  DefaultStep,    \* the step that stands in where the code supplies its own text
  DefaultLesson,  \* the regression note the daemon adds to its checkpoints
  MaxPending,     \* MAX_PENDING_WORK_ITEMS
  MaxSessions,    \* bound: the number of sessions ever created
  Ages,           \* whether pending work can become older than 30 days
  AutoDrafts,     \* whether sessions signal completion, go idle, reach a milestone
  SaveFails       \* whether saveState can fail, or the process die before it

Id == 1..MaxSessions
Session == [id : Id, next : SUBSET Step, learned : SUBSET Lesson, signal : BOOLEAN]
PendingWork == [session : Id, next : SUBSET Step, learned : SUBSET Lesson]
LastHandoff == [session : Id, next : Step]
Notes == [next : SUBSET Step, learned : SUBSET Lesson]
Reason == {"completion-signal", "idle-30min", "work-milestone", "session-ended-mid-draft"}
Draft == [session : Id, current : BOOLEAN, reason : Reason,
          next : SUBSET Step, learned : SUBSET Lesson]
Handoff == [session : Id, next : SUBSET Step, learned : SUBSET Lesson, sawRescue : BOOLEAN]

ASSUME ConstantsOK ==
  /\ DefaultStep \in Step /\ DefaultLesson \in Lesson
  /\ MaxPending \in Nat \ {0} /\ MaxSessions \in Nat
  /\ {Ages, AutoDrafts, SaveFails} \subseteq BOOLEAN
  /\ Cli \cap Mcp = {}
  /\ None \notin Id \cup Session \cup LastHandoff \cup Notes \cup Draft \cup Handoff

VARIABLES
  state,    \* state.json
  newest,   \* the latest session id; ids are timestamps, so they only grow
  archive,  \* the session records written when sessions ended
  draft,    \* draft-handoff.json; current: its sourceSessionUpdatedAt is the session's
  elapsed,  \* the thresholds of shouldAutoDraftHandoff the active session has passed
  handing   \* the handoff each process is collecting answers for

vars == <<state, newest, archive, draft, elapsed, handing>>

HolisticState ==
  [active : Session \cup {None}, pending : Seq(PendingWork),
   lastHandoff : LastHandoff \cup {None}, pendingCommit : Id \cup {None}]

TypeOK ==
  /\ state \in HolisticState
  /\ newest \in 0..MaxSessions
  /\ archive \in [Id -> Notes \cup {None}]
  /\ draft \in Draft \cup {None}
  /\ elapsed \subseteq {"idle", "milestone"}
  /\ handing \in [Cli \cup Mcp -> Handoff \cup {None}]

Init ==
  /\ state = [active |-> None, pending |-> <<>>, lastHandoff |-> None, pendingCommit |-> None]
  /\ newest = 0
  /\ archive = [s \in Id |-> None]
  /\ draft = None
  /\ elapsed = {}
  /\ handing = [c \in Cli \cup Mcp |-> None]

------------------------------------------------------------------------------
(* Pure operations on the contents of state.json. *)

NewSession(id) == [id |-> id, next |-> {}, learned |-> {}, signal |-> FALSE]
NotesOf(session) == [next |-> session.next, learned |-> session.learned]
HasCarryableWork(session) == session.next # {} \/ session.learned # {}
ToPendingWork(session) ==
  [session |-> session.id, next |-> session.next, learned |-> session.learned]

(* prunePendingWork: the oldest entries are at the end, and the cap cuts   *)
(* there too.                                                              *)
KeptLengths(pending) ==
  {k \in 0..Len(pending) :
     /\ k <= MaxPending
     /\ Ages \/ k = Len(pending) \/ k = MaxPending}

Pruned(s, k) == [s EXCEPT !.pending = SubSeq(s.pending, 1, k)]

(* Mutant: lastHandoff survives the start of a new session. *)
StartedKeepingHandoff(s, id) ==
  [active |-> NewSession(id),
   pending |-> IF s.active # None /\ HasCarryableWork(s.active)
               THEN <<ToPendingWork(s.active)>> \o s.pending ELSE s.pending,
   lastHandoff |-> s.lastHandoff,
   pendingCommit |-> None]

(* Mutant: the work of the superseded session is not queued. *)
StartedAfresh(s, id) ==
  [active |-> NewSession(id), pending |-> s.pending,
   lastHandoff |-> None, pendingCommit |-> None]

(* startNewSession: the active session is superseded. *)
Started(s, id) ==
  [active |-> NewSession(id),
   pending |-> IF s.active # None /\ HasCarryableWork(s.active)
               THEN <<ToPendingWork(s.active)>> \o s.pending ELSE s.pending,
   lastHandoff |-> None,
   pendingCommit |-> None]

(* inferSessionStart and the cold start of continueFromLatest: the newest  *)
(* pending entry, else the last handoff, else the repository or nothing.   *)
ColdStarts(s, id) ==
  LET Resumed(next, learned, pending) ==
        [s EXCEPT !.active = [NewSession(id) EXCEPT !.next = next, !.learned = learned],
                  !.pending = pending, !.pendingCommit = None]
      head == Head(s.pending)
      steps == IF head.next = {} THEN {DefaultStep} ELSE head.next
  IN  IF s.pending # <<>> THEN {Resumed(steps, head.learned, Tail(s.pending))}
      ELSE IF s.lastHandoff # None THEN {Resumed({s.lastHandoff.next}, {}, <<>>)}
      ELSE {Resumed({DefaultStep}, {}, <<>>), Resumed({}, {}, <<>>)}

(* checkpointState, the created or active session given. *)
Checkpointed(s, session) == [s EXCEPT !.active = session, !.pendingCommit = None]
Merged(session, next, learned, signal) ==
  [session EXCEPT !.next = @ \cup next, !.learned = @ \cup learned, !.signal = signal]

(* applyHandoff, the answers already merged into the session: nextAction   *)
(* is its first step, and only open steps make it pending work.            *)
HandedOff(s, session, nextAction) ==
  [active |-> None,
   pending |-> IF session.next # {} THEN <<ToPendingWork(session)>> \o s.pending
               ELSE s.pending,
   lastHandoff |-> [session |-> session.id, next |-> nextAction],
   pendingCommit |-> session.id]

FirstSteps(session) == IF session.next = {} THEN {DefaultStep} ELSE session.next

------------------------------------------------------------------------------
(* The draft handoff. *)

Outdated(d) == IF d = None THEN None ELSE [d EXCEPT !.current = FALSE]

(* shouldDraftCompletionSignalHandoff and isSameDraftHandoff *)
IsDraftOf(d, session, reason) ==
  d # None /\ d.session = session.id /\ d.current /\ d.reason = reason

(* shouldAutoDraftHandoff: the first reason that applies, or "". *)
DraftReason(session, passed, d) ==
  IF session.signal /\ ~IsDraftOf(d, session, "completion-signal") THEN "completion-signal"
  ELSE IF "idle" \in passed THEN "idle-30min"
  ELSE IF "milestone" \in passed THEN "work-milestone" ELSE ""

(* buildAutoDraftHandoff *)
DraftFor(session, reason, current) ==
  [session |-> session.id, current |-> current, reason |-> reason,
   next |-> FirstSteps(session), learned |-> session.learned]

IsRescue(d) == d # None /\ d.reason = "session-ended-mid-draft"

(* Mutant: a rescued draft must match the session too. *)
DraftMatchesSession(d, id) == d # None /\ d.session = id

DraftIsApplicable(d, id) == d # None /\ (IsRescue(d) \/ d.session = id)

------------------------------------------------------------------------------
(* persistLocked.  What was done to the other files before it stays done   *)
(* when the save fails.                                                    *)
Outcomes == IF SaveFails THEN BOOLEAN ELSE {TRUE}
Persist(s, saved) == state' = IF saved THEN s ELSE state

(* A session id is a timestamp, fresh whether or not it is saved. *)
Create(id) == /\ newest < MaxSessions
              /\ id = newest + 1
              /\ newest' = id
Keep(id) == /\ state.active # None /\ id = state.active.id
            /\ UNCHANGED newest

(* Mutant: updatedAt is not stamped. *)
Untouched(d, saved) == d

(* refreshSessionFromRepo stamps updatedAt: no draft is current any more   *)
(* and the session is no longer idle.                                      *)
Touched(d, saved) == IF saved THEN Outdated(d) ELSE d
RestartClocks(saved) ==
  elapsed' = IF ~saved THEN elapsed
             ELSE IF state.active = None \/ state'.active = None THEN {}
             ELSE IF state.active.id # state'.active.id THEN {} ELSE elapsed \ {"idle"}

Archive(session) == archive' = [archive EXCEPT ![session.id] = NotesOf(session)]

------------------------------------------------------------------------------
(* holistic start-new *)
StartNew ==
  \E k \in KeptLengths(state.pending), id \in Id, saved \in Outcomes :
    /\ Create(id)
    /\ IF state.active = None THEN UNCHANGED archive ELSE Archive(state.active)
    /\ Persist(Started(Pruned(state, k), id), saved)
    /\ draft' = Touched(draft, saved)
    /\ RestartClocks(saved)
    /\ UNCHANGED handing

(* continueFromLatest, by holistic resume --continue and the MCP tools. *)
Continue ==
  \E k \in KeptLengths(state.pending), id \in Id, saved \in Outcomes :
    /\ \/ /\ Keep(id)
          /\ Persist(Checkpointed(Pruned(state, k), state.active), saved)
       \/ /\ state.active = None /\ Create(id)
          /\ \E s \in ColdStarts(Pruned(state, k), id) : Persist(s, saved)
    /\ draft' = Touched(draft, saved)
    /\ RestartClocks(saved)
    /\ UNCHANGED <<archive, handing>>

Signals == IF AutoDrafts THEN BOOLEAN ELSE {FALSE}

(* holistic checkpoint and holistic_checkpoint: a checkpoint without an    *)
(* active session makes one, and leaves pending work alone.                *)
Checkpoint ==
  \E id \in Id, next \in SUBSET Step, learned \in SUBSET Lesson,
     signal \in Signals, saved \in Outcomes :
    LET base == IF state.active = None THEN NewSession(id) ELSE state.active
        session == Merged(base, next, learned, signal)
        passed == IF state.active = None THEN {} ELSE elapsed \ {"idle"}
        reason == DraftReason(session, passed, Outdated(draft))
    IN  /\ Keep(id) \/ (state.active = None /\ Create(id))
        /\ Persist(Checkpointed(state, session), saved)
        /\ draft' = IF reason = "" THEN Touched(draft, saved)
                    ELSE DraftFor(session, reason, saved)
        /\ RestartClocks(saved)
        /\ UNCHANGED <<archive, handing>>

(* runDaemonTick, when PassiveCapture decides on a checkpoint: hygiene,    *)
(* ensurePassiveSession, checkpointState.                                  *)
DaemonCheckpoint ==
  \E k \in KeptLengths(state.pending), id \in Id, saved \in Outcomes :
    LET kept == Pruned(state, k)
        base == IF state.active = None THEN Started(kept, id) ELSE kept
    IN  /\ Keep(id) \/ (state.active = None /\ Create(id))
        /\ Persist(Checkpointed(base, Merged(base.active, FirstSteps(base.active),
                                            {DefaultLesson}, FALSE)), saved)
        /\ draft' = Touched(draft, saved)
        /\ RestartClocks(saved)
        /\ UNCHANGED <<archive, handing>>

(* runDaemonTick, when it only saves what it observed. *)
DaemonObserve ==
  \E k \in KeptLengths(state.pending), saved \in Outcomes :
    /\ Persist(Pruned(state, k), saved)
    /\ UNCHANGED <<newest, archive, draft, elapsed, handing>>

(* runDaemonTick, when nothing else happens: maybeWriteAutoDraftHandoff. *)
AutoDraftTick ==
  /\ AutoDrafts /\ state.active # None
  /\ LET reason == DraftReason(state.active, elapsed, draft)
     IN  /\ reason # "" /\ ~IsDraftOf(draft, state.active, reason)
         /\ draft' = DraftFor(state.active, reason, TRUE)
  /\ UNCHANGED <<state, newest, archive, elapsed, handing>>

TimePasses ==
  /\ AutoDrafts /\ state.active # None
  /\ \E threshold \in {"idle", "milestone"} : elapsed' = elapsed \cup {threshold}
  /\ UNCHANGED <<state, newest, archive, draft, handing>>

(* holistic mark-commit, and the end of handoff --commit: whichever commit *)
(* is pending is cleared.                                                  *)
MarkCommit ==
  \E saved \in Outcomes :
    /\ Persist([state EXCEPT !.pendingCommit = None], saved)
    /\ UNCHANGED <<newest, archive, draft, elapsed, handing>>

------------------------------------------------------------------------------
(* holistic handoff *)

PickList(primary, fallback) == IF primary # {} THEN primary ELSE fallback

(* A flag, else the applicable draft, else what the user answers. *)
Answers(drafted, Texts) ==
  {PickList(flag, PickList(drafted, answer)) : flag, answer \in SUBSET Texts}

(* The state and the draft are read without the lock.  An interrupted      *)
(* prompt is one that never finishes.                                      *)
BeginHandoff(c) ==
  /\ c \in Cli /\ handing[c] = None /\ state.active # None
  /\ LET applies == DraftIsApplicable(draft, state.active.id)
     IN  \E next \in Answers(IF applies THEN draft.next ELSE {}, Step),
            learned \in Answers(IF applies THEN draft.learned ELSE {}, Lesson) :
           handing' = [handing EXCEPT ![c] =
             [session |-> state.active.id, next |-> next, learned |-> learned,
              sawRescue |-> applies /\ IsRescue(draft)]]
  /\ UNCHANGED <<state, newest, archive, draft, elapsed>>

(* Mutant: the record is written before the answers are merged. *)
ApplyAfterArchiving(c, saved) ==
  LET session == Merged(state.active, handing[c].next, handing[c].learned,
                        state.active.signal)
  IN  /\ Archive(state.active)
      /\ \E nextAction \in FirstSteps(session) :
           Persist(HandedOff(state, session, nextAction), saved)

(* applyHandoff, to whatever session is active by now. *)
ApplyHandoff(c, saved) ==
  LET session == Merged(state.active, handing[c].next, handing[c].learned,
                        state.active.signal)
  IN  /\ Archive(session)
      /\ \E nextAction \in FirstSteps(session) :
           Persist(HandedOff(state, session, nextAction), saved)

(* Under the lock: the draft is cleared before the state is saved. *)
FinishHandoff(c) ==
  \E saved \in Outcomes :
    /\ c \in Cli /\ handing[c] # None /\ state.active # None
    /\ ApplyHandoff(c, saved)
    /\ draft' = None
    /\ RestartClocks(saved)
    /\ handing' = [handing EXCEPT ![c] = None]
    /\ UNCHANGED newest

(* Mutant: applyHandoff returns the state untouched, and that is all. *)
DiscardAnswers(c) ==
  /\ c \in Cli /\ handing[c] # None /\ state.active = None
  /\ handing' = [handing EXCEPT ![c] = None]
  /\ UNCHANGED <<state, newest, archive, draft, elapsed>>

(* Under the lock: the session has ended meanwhile, the answers are kept.  *)
RescueAnswers(c) ==
  /\ c \in Cli /\ handing[c] # None /\ state.active = None
  /\ draft' = [session |-> handing[c].session, current |-> FALSE,
               reason |-> "session-ended-mid-draft",
               next |-> handing[c].next, learned |-> handing[c].learned]
  /\ handing' = [handing EXCEPT ![c] = None]
  /\ UNCHANGED <<state, newest, archive, elapsed>>

(* holistic_handoff: the same check without the lock, then the same        *)
(* application, with neither rescue nor draft.                             *)
BeginMcpHandoff(c) ==
  /\ c \in Mcp /\ handing[c] = None /\ state.active # None
  /\ \E next \in SUBSET Step, learned \in SUBSET Lesson :
       handing' = [handing EXCEPT ![c] =
         [session |-> state.active.id, next |-> next, learned |-> learned,
          sawRescue |-> FALSE]]
  /\ UNCHANGED <<state, newest, archive, draft, elapsed>>

FinishMcpHandoff(c) ==
  \E saved \in Outcomes :
    /\ c \in Mcp /\ handing[c] # None
    /\ \/ state.active = None /\ UNCHANGED <<state, archive, elapsed, draft>>
       \/ /\ state.active # None
          /\ ApplyHandoff(c, saved)
          /\ RestartClocks(saved)
          /\ draft' = Touched(draft, saved)
    /\ handing' = [handing EXCEPT ![c] = None]
    /\ UNCHANGED newest

HandoffStep(c) ==
  \/ BeginHandoff(c) \/ FinishHandoff(c) \/ RescueAnswers(c)
  \/ BeginMcpHandoff(c) \/ FinishMcpHandoff(c)

Next ==
  \/ StartNew \/ Continue \/ Checkpoint \/ DaemonCheckpoint \/ DaemonObserve
  \/ AutoDraftTick \/ TimePasses \/ MarkCommit
  \/ \E c \in Cli \cup Mcp : HandoffStep(c)

Spec == Init /\ [][Next]_vars

------------------------------------------------------------------------------
(* Pending work is a stack of ended sessions: newest first, each session   *)
(* once, older than the active one, and each with the same notes as the    *)
(* record written when it ended.                                           *)
PendingOrdered ==
  \A i, j \in 1..Len(state.pending) :
    i < j => state.pending[i].session > state.pending[j].session

PendingBacked ==
  \A i \in 1..Len(state.pending) :
    LET item == state.pending[i]
    IN  /\ state.active # None => item.session < state.active.id
        /\ archive[item.session] = NotesOf(item)

PendingIsHistory == PendingOrdered /\ PendingBacked

(* With no active session, the newest pending work never hides a later     *)
(* session: what the last handoff names is as new as anything pending, and *)
(* a pending commit is that handoff's.                                     *)
LastHandoffIsLatest ==
  /\ state.active = None /\ state.pending # <<>> => state.lastHandoff # None
  /\ state.lastHandoff # None =>
       \A i \in 1..Len(state.pending) :
         state.pending[i].session <= state.lastHandoff.session
  /\ state.pendingCommit # None =>
       state.lastHandoff # None /\ state.lastHandoff.session = state.pendingCommit

(* The open steps, and the lessons, a later session can still be given. *)
WorkIn(s) ==
  (IF s.active = None THEN {} ELSE s.active.next)
    \cup UNION {s.pending[i].next : i \in 1..Len(s.pending)}
LessonsIn(s) ==
  (IF s.active = None THEN {} ELSE s.active.learned)
    \cup UNION {s.pending[i].learned : i \in 1..Len(s.pending)}

(* No operation loses an open step, except with an entry hygiene prunes. *)
WorkConserved ==
  [][\E k \in KeptLengths(state.pending) \cup {Len(state.pending)} :
       WorkIn(Pruned(state, k)) \subseteq WorkIn(state')]_state

(* The same of lessons.  types.ts has pending work carry everything a      *)
(* resuming session needs.                                                 *)
LessonsConserved ==
  [][\E k \in KeptLengths(state.pending) \cup {Len(state.pending)} :
       LessonsIn(Pruned(state, k)) \subseteq LessonsIn(state')]_state

(* The steps a handoff was given end up in the state or in the draft. *)
Kept(c) ==
  handing[c] # None /\ handing'[c] = None =>
    handing[c].next \subseteq WorkIn(state') \cup (IF draft' = None THEN {} ELSE draft'.next)

AnswersKept == [][\A c \in Cli : Kept(c)]_vars

(* The same of the MCP tool, which answers "Handoff complete" either way. *)
McpAnswersKept == [][\A c \in Mcp : Kept(c)]_vars

(* A draft the code takes for current holds the active session's notes. *)
DraftIsFaithful ==
  draft # None /\ draft.current /\ state.active # None /\ draft.session = state.active.id =>
    draft.next = FirstSteps(state.active) /\ draft.learned = state.active.learned

(* Rescued answers stay in the draft file until a handoff that was given   *)
(* them is applied, or rescues them again.                                 *)
RescuedAnswersKept ==
  [][IsRescue(draft) /\ draft' # draft =>
       \E c \in Cli :
         /\ handing[c] # None /\ handing[c].sawRescue /\ handing'[c] = None
         /\ IsRescue(draft') \/ state'.active = None]_vars

(* A handoff ends the session the user was asked about.  The comment in    *)
(* handleHandoff has start-new end the session and the answers be rescued. *)
HandoffReachesItsSession ==
  [][\A c \in Cli :
       handing[c] # None /\ handing'[c] = None /\ state'.lastHandoff # state.lastHandoff =>
         state'.lastHandoff.session = handing[c].session]_vars

(* The hard cap, with room for the entry the pruning operation adds. *)
PendingBounded == Len(state.pending) <= MaxPending + 1

(* No tick drafts a completion signal for a session that has not changed   *)
(* since its last draft.                                                   *)
CompletionDraftedOnce ==
  [][AutoDraftTick /\ draft'.reason = "completion-signal" =>
       draft = None \/ draft.session # draft'.session \/ ~draft.current]_vars

==============================================================================
