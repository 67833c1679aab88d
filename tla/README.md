# Holistic in TLA+

TLA+ modules, TLC instances and TLAPS proofs for Holistic, a tool that keeps the memory
of a coding session (what is open, what was learned, what the next agent should do) in
`.holistic/` beside a repository, and that watches and reports the sessions of agents
("Andon"). The modules are translated from the TypeScript sources; paths below are
relative to the root of the repository. `PROJECT.json` maps every definition that models
code to its lines.

Contents: [the system](#the-system), [modules](#modules), [runs](#runs),
[fairness](#fairness), [proofs](#proofs), [what the code does not
keep](#what-the-code-does-not-keep), [not modelled](#not-modelled), [plan](#plan),
[running it](#running-it).

## The system

Three kinds of process share one repository: the CLI (`src/cli.ts`, one process per
command), the MCP server (`src/mcp-server.ts`, one per agent) and the daemon
(`src/daemon.ts`, a timer). They have no memory in common. They meet in files:
`state.json`, its lock `state.json.lock`, the records in `sessions/` and
`sessions/archive/`, and `draft-handoff.json`. Generated shell scripts push those files
to a ref of the repository's remote and restore them from it on other machines. A second
group of processes, the runtime service, the Andon API, the runtime writer, the beacon
and the dashboard, talks HTTP and keeps what it knows of sessions in an SQLite database.

| component | state | operations | met by | hard because | correct if |
|---|---|---|---|---|---|
| State lock, `src/core/lock.ts` | the lock file | `withLockSync`: acquire, recover a stale lock, release | CLI, MCP server, daemon | processes die between any two file operations; recovery acts on a pid and a name that may have changed | one holder; a dead holder's lock goes; a call returns |
| Session and handoff state, `src/core/state.ts`, `src/cli.ts`, `src/mcp-server.ts` | `state.json`: `activeSession`, `pendingWork`, `lastHandoff`, `pendingCommit`; the ended sessions; the draft file | start, continue, checkpoint, handoff, rescue, auto draft, mark-commit | the same three | the answers of a handoff are typed outside the lock; saves fail; the draft is one file with two meanings | open work is carried on, once; answers are kept; a draft says what its session says |
| Session store, `src/core/state.ts` | `sessions/*.json`, `sessions/archive/*.json` | `runSessionHygiene`, `reactivateArchivedSession`, `loadSessionById` | daemon, start-new and resume under the lock; diff and search without it | copy, then unlink, with a crash between; truncate, then write | a session is always in a whole file; old ones end up archived |
| Passive capture, `src/daemon.ts` | `passiveCapture`, `repoSnapshot` in `state.json` | the tick: buffer, wait for quiet, checkpoint | the user's edits; every command that saves | the tick polls, and everyone who saves renews what it compares with | no edit is forgotten; one checkpoint per cause |
| Daemon process, `src/daemon.ts` | `daemon.pid`, the child services | start, tick, stop, one-shot tick | the user, git hooks, other daemons | check, then write, of the pid file; a lock timeout thrown out of the timer; children that outlive it | one daemon per repository; ticking survives its deaths |
| Local runtime and runtime service, `packages/runtime-local`, `services/runtime-service` | the child process, the adapter's session, the row in `runtime_sessions` | start, output, exit, heartbeat, pause, resume, stop | the child, a timer, HTTP requests | exit overtakes output; a request writes over the stream's row | the row ends when the process does, and stays ended |
| Andon events, `src/core/andon.ts` | posts in flight | emit, flush | every command | fire and forget | a lost post harms nothing but itself |
| Andon API, `services/andon-api` | sessions, events, tasks, runtime rows and traces in SQLite | ingest, callback, reconciliation, answers, stream | emitters, the runtime service, the dashboard | duplicates, reordering, several writers of one row | redelivery is harmless; late events rewind nothing; an open request is shown |
| Status and projection, `packages/andon-core`, `packages/runtime-core`, `services/andon-api/src/operational-projection.ts` | none | the card of a session from its row, its traces and the time | Andon API | precedence of many signals; six time thresholds | time demands nothing; a demand leaves by an answer or by age |
| Runtime writer, `scripts/andon-runtime-writer.mjs` | its state file, the turn sidecars | poll, watch, post, save | `state.json`, the agents' hooks, the API | lost posts, overlapping ticks, restarts, a shared sidecar | the board gets to show the agent's turn; liveness is the session's own |
| Session beacon, `scripts/andon-session-beacon.mjs` | its file | report, verify, save | agents, other beacon processes, the API | post, verify and save are three steps | what the file says is what the board shows |
| Dashboard, `apps/andon-dashboard` | the pages' data | load, subscribe, sort, show | Andon API | slow, failing and overlapping loads; a stream that breaks | the page is recent; no update is lost; demands come first |
| Sync, `src/core/sync.ts`, `src/core/setup.ts` | the ref `refs/holistic/state`, the local branch `holistic-sync-tmp` | sync, restore | saves, other syncs, other machines | no lock, and every command may fail | history only grows; the project's commits stay home; newer files win |
| Collector and bridges; setup and hooks; derived documents; access control; development scripts | see [not modelled](#not-modelled) | | | | |

`PROJECT.json` lists the hazards found in this code at the lines where they bite, and
the properties that watch them.

## Modules

```
AbstractLock <--refines-- StateLock <-- ProcessProofs, MCStateLock
PassiveCapture
      ^--extends, refines-- Daemon <-- ProcessProofs, MCDaemon
                          RuntimeTask <-- ProcessProofs, MCRuntimeTask
                          HolisticState <-- StateProofs, MCHolisticState
                          SessionStore <-- StateProofs, MCSessionStore
                          StateSync <-- StateSyncProofs, MCStateSync
EventVocabulary <-- OperationalProjection, StatusEngine <-- AndonIngest
      AndonIngest <-- AndonIngestProofs, AndonApi, RuntimeWriter, SessionBeacon
      AndonApi <-- AndonApiProofs, MCAndonApi
      RuntimeWriter <-- RuntimeWriterProofs, MCRuntimeWriter
      SessionBeacon <-- SessionBeaconProofs, MCSessionBeacon
      AndonIngest <-- OperatorViews <-- Dashboard <-- DashboardProofs, MCDashboard
AndonIngestProofs <-- AndonApiProofs, RuntimeWriterProofs, SessionBeaconProofs,
                      DashboardProofs
```

An `...Proofs` module extends its component or components with theorems, an `MC...`
module with the values TLC instantiates it with. `ProcessProofs` and `StateProofs` treat
several specifications side by side, which is why some of those have names of their own
for what others call `Spec` and `TypeOK` (`LockSpec`, `TaskTypeOK`). The composition of
the first three with `Daemon` is an argument about granularity: what `AbstractLock`
promises (one process inside at a time) is what lets `HolisticState` and
`PassiveCapture` take a locked load-change-save as one step, and what `SessionStore`
assumes of its `lock` variable. Where the code steps out of the lock (a prompt, a
search) the models do too. The four Andon clients are composed with the store itself:
each posts events to `AndonIngest` and is judged by the `Board` it answers with.

Operators marked `Mutant` are broken variants of the definition that follows them. No
specification uses one; each documents which bug a property catches, and `PROJECT.json`
names the pairs.

### StateLock, AbstractLock

`withLockSync` is eight steps of one process: `CreateLock` (the exclusive create, flag
`wx`), `WriteOwnPid`, `FindExisting` (EEXIST after the timeout), `ReadLock`,
`ProbeHolder` (`process.kill(pid, 0)`), `UnlinkStale`, `Release`, and `TimePasses` for
the sleeps. Each file operation is a step, because the file can change between two. Time
is the one question the code asks, whether 5 s (`LOCK_TIMEOUT_MS`) have passed since the
call began; it is never reset, so after a recovery the process tries again without a
limit. Which processes can wait that long (`Patient`), where they can die (`Mortal`,
`DeathPoints`), whether pids are reused (`PidReuse`), whether the file can be read
between its creation and its write (`WriteGap`), and whether the final unlink can fail
(`UnlinkFails`) are constants, so that a run says under which of them it holds. Two
variables are history: `readers`, who has read the lock file that is there now, and
`robbed`, whether a recovery has removed a lock that was not stale, because another
process had replaced the one it judged, or because the creator was about to write its
pid. `AbstractLock` is what callers rely on: `Enter` when nobody owns, `Leave`.

### HolisticState

`state` is the part of `state.json` that sessions hand to each other. A session is its
id (a creation number: `createSessionId` is a timestamp, and order is all that anything
compares), its open steps, its lessons (`triedItems`, impacts and the like: what
`toPendingWork` carries beside the steps) and whether its text holds a completion
signal. `archive` is the record written when a session ends, `draft` the file
`draft-handoff.json`, `elapsed` which of the two clocks of the auto draft (30 minutes
idle, the work milestone) has run out, `handing` the handoffs between prompt and save.
The actions are the locked sections of the commands: `StartNew`, `Continue`,
`Checkpoint`, `DaemonCheckpoint`, `DaemonObserve`, `AutoDraftTick`, `MarkCommit`, and a
handoff in its two halves: `BeginHandoff` (read the session and the draft, ask), then,
under the lock, `FinishHandoff` or, if the session has ended, `RescueAnswers`; likewise
for MCP, which has no rescue. `Started`, `ColdStarts`, `HandedOff`, `Pruned` are the
pure functions of `state.ts`. Hygiene prunes by age and by count; ages are a choice of a
prefix (`KeptLengths`), since the queue is newest first. A save may fail (`SaveFails`):
then `state.json` stays, and the archive, written before it, does not. That is also what
a crash between the two leaves. Abstracted: texts (a step is a model value), titles,
plans, knowledge base fields, which no transition here reads.

### SessionStore

Each session's copy in each directory is absent, partial or whole: `writeFileSync`
truncates before it writes, so opening and filling are two steps. `Keeper`s move
sessions under the lock, `Command`s (diff, search) reactivate and look up without it, as
in the code. A crash can come between any two steps, and leaves the lock to be recovered
(by StateLock's rules; here the next keeper finds it free). `FailWrite` is a write that
throws, `Unpin` the passing of references to a session. `met` is history: the sessions
that one process was moving (`Moves`) while another moved them too or was between its
two looks for them (`Uses`). Nothing keeps a diff or a search from that; the properties
say what is true of all other sessions. All sessions are older than 30
days; younger ones are not touched by hygiene.

### PassiveCapture

`dirty` is what a snapshot comparison would show now, `capture` is
`state.passiveCapture`, with `lastCheckpointAt` reduced to never, recent or two hours
old. `Tick` has the branches of `runDaemonTick` in their order. `Checkpoint`,
`StartNew`, `FinishHandoff` and `MarkCommit` are what the other commands do to these
fields by saving. The user can edit while a tick or a command runs, any of the sets of
files in `Meanwhile`: edits that the refresh still sees (early) and edits that only the
saved snapshot takes in (late) are told apart. `owed`, `missed` and `news` are history
variables: what has been edited and not checkpointed, which of these files were last
edited late, and whether anything happened since the daemon's last checkpoint.

### Daemon

`Daemon` extends `PassiveCapture` with the processes that run its ticks: each is its
pid, `off`, past the look at the pid file, past writing it, or running. `Check`,
`WritePid` and `StartAndonServices` are the start of `main`, `DaemonTick` is the timer,
`StopDaemon` the signal handler, `Die` a kill or a tick that throws (a lock that stays
busy throws `src/core/lock.ts`'s timeout out of the callback, and nothing catches it),
`Once` the one-shot tick of hooks. A daemon that dies leaves its services as `strays`;
nothing restarts or collects them. A pid can be given again. `raced` is history: a
daemon looked while another was between its look and its write.

### RuntimeTask

One task: the `child`, the `output` it has written and nobody has read, the `adapter`'s
session, the database `row`, and whether the service is still `listening` to the
adapter's stream. Both services run in one node process on one thread, and a push into
the event queue is consumed by promise continuations only, before any other callback; so
a callback and the consumption of what it pushes are one step. The child is not part of
that: it writes and exits in between, and its exit may be delivered before its output
(`exit` is not `close`). `StatusOf` is the service's mapping of events to a status. Any
statement of the database may fail: in the loop over the stream (`Take`) that ends the
loop for good, before or after the row is written; in a request it leaves the adapter
changed and the row as it was (`Persist`); at the start it leaves a task that runs and
whose stream nobody reads. `Restart` loses the adapter's map and keeps the row.

### EventVocabulary, StatusEngine, OperationalProjection

Functions without state. `EventVocabulary` has the statuses of a row, the events and
what the API makes of a posted one: its normalised form, the trace it becomes, the
status it gives the row, the hint the traces give. `StatusEngine` is `andon-core`'s
status of a session from its events, and the canonical hint made from it.
`OperationalProjection` is `projectOperationalSession` with the shaping `repository.ts`
puts around it: category and reason, freshness, ageing, lifecycle, primary status and
whether something is demanded. An event is its type, its time and a `Note`, which is
what the code reads in payload or summary; wording and evidence are left out. The six
thresholds are constants in the code's order.

### AndonIngest, AndonApi

A store is all that is kept of one session: the sessions row, the posted events, the
task, the runtime row with its owner, the traces and the last sign of its process.
`IngestEvents` is the transaction of `ingestEvents`, statement by statement; `Board`
what Mission Control answers; `Reconciled` the start-up's parking of rows that look
dead. `AndonApi` gives the records of the tables their types (`Store`, `Row`,
`TraceEvent` and the rest) and runs it: reports that are overtaken or lost on their way
(`inFlight`), the operator's callbacks, what the runtime service writes past the ingest,
restarts of the API, and time. Handlers are synchronous, as is node's SQLite, so a
request is one step. `WaitsUnseen` names the one case in which time alone calls the
operator: a row that waits for input and whose hint says that it runs.

### RuntimeWriter

Both ends of the writer: the session in `state.json` and the turn sidecars that agents'
hooks write, and the store it posts to. A tick reads (`Poll` or `Watch`), posts
(`Arrive`), and saves what it posted (`Save`); ticks overlap, a request or a response is
lost (`Fail`), the writer is restarted. The CLI's own posts (`emitAndonEvent`) arrive at
once or not at all here; `AndonApi` has them late.

### SessionBeacon

Each command reads its file, posts (`Run`, `Arrive`), asks the board whether its status
has arrived (`Verify`), and only then saves (`Finish`). It may fail or be killed at each
step, and commands overlap. `status` and `heartbeat` heed the option `--status`: the one
reports it and has it verified, the other only saves it. `complete` and `park` compare
their session with the file they read when they began, and so remove whatever file is
there at the end. `vouched` is history: the last command to write the file was verified
and ran alone, or it was a heartbeat that repeated what a vouched file said.

### OperatorViews, Dashboard

`OperatorViews` goes from the stores of all sessions to the answers of
`/mission-control`, `/history` and `/sessions/:id` (which sessions, in which order, with
which sources), and from these to the view models. `Sorted` puts each element at the
place that the number of its predecessors gives it. `Dashboard` is one page of one of
three kinds with its requests, its stream and its heartbeat; `Post` ingests at once. The
detail page's three requests are answered one by one. A fetch is aborted if its headers
are not in after `FetchMs`; then its timer is cleared (`Answered`), and a body may take
any time (`stalled`).

### StateSync

The scripts `sync-state.sh` and `restore-state.sh` that `src/core/setup.ts` generates,
command by command, on several machines with one remote. A commit is the sequence of the
commits it stands on and of itself; of the tracked files there are two, the documents
and the state, which are written and copied in that order. Every command may fail or
find the remote out of reach (`Probe`, `Quit`), and no step takes the lock. `Wanted` is
`planAutoSync`: which configuration asks for a sync after which command.

## Runs

Every run is exhaustive for its instance; on two cores the larger ones take TLC one to
three minutes.

| run | question | instance | result |
|---|---|---|---|
| `lock_safe` | Does the lock exclude, and implement `AbstractLock`, when one process recovers? | 3 processes, 1 patient, holders die, pids reused, unlinks fail | `HolderOwnsFile`, `MutualExclusion`, `ImplementsLock` hold; 894 states |
| `lock_live` | Is a dead process's lock removed, does a call return? | 3 patient processes, two of which die anywhere, also between create and write; one calls for ever | `StaleLockRemoved`, `CallReturns` hold; 8 286 states |
| `state` | Do queue, last handoff, draft and archive agree, and is work conserved? | 3 sessions, 1 step, 1 lesson, a CLI handoff, auto drafts, failing saves, `MaxPending` 2 | `PendingIsHistory`, `LastHandoffIsLatest`, `DraftIsFaithful`, `WorkConserved` hold; 564 470 states |
| `rescue` | What becomes of the answers of a handoff? | 2 sessions, 2 steps, a CLI and an MCP handoff at once, entries that age | `AnswersKept`, `RescuedAnswersKept` hold; 213 801 states |
| `store` | Is a session lost by crashes and failures, and does a search find it? | 2 sessions, 2 lock holders, 1 search or diff beside them, 2 faults | `NoSessionLost`, `StaleSettles`, `LookupFinds` hold; 823 532 states |
| `edits` | Does one daemon own the repository, and is every edit taken in, once per cause, whoever ticks? | 2 daemons, 2 files, 2 branches, threshold 2, 1 quiet tick, edits during ticks and commands | `SoleOwner`, `EditsTracked`, `NoRefire`, `QuietLeadsToCheckpoint` hold; 624 880 states |
| `task` | Does the row end with the process, and stay? | 2 unread events, failing statements, restarts | `TerminalIsStamped`, `EndedRowIsStable`, `EndAgrees`, `ExitIsRecorded` hold; 15 133 states |
| `board` | Does the board show what is asked, for as long as it should, through lost, late and doubled events? | one session, 9 kinds of report of three senders, 2 kinds of service event, 3 events, 7 units of time | `TypeOK`, `RequestsAreShown`, `RedeliveryHarmless`, `TimeDemandsNothing`, `DemandsLeaveByAge`, `NoRewind` hold; 3 107 955 states |
| `writer` | Does the board get to show the turn of the agent, and only its own liveness? | 2 sessions of 2 agents, one of them behind the shared sidecar, 2 changes, 2 ticks at once, 1 fault | `TypeOK`, `LivenessIsOwned`, `TurnReachesBoard` hold; 1 348 310 states |
| `beacon` | Is what the beacon's file says on the board? | 2 sessions, 3 commands, 2 at once, 7 statuses to save, 6 units of time | `FileIsShown`, `ClosedStaysClosed` hold; 7 099 470 states |
| `dashboard` | Is what a page shows recent, complete and in order? | a page of each kind, 2 sessions, 3 kinds of report, 1 fault; 2 events and 2 loads on the board, no event, 2 loads and the longest time on the history, 1 event and 1 load on the detail page | `TypeOK`, `PageIsRecent`, `NoUpdateLost`, `DemandsFirst` hold; 4 282 798 states |
| `sync` | Does the shared history grow, of the right commits and the newest files? | 2 machines, 3 processes, two of them on one machine, 2 syncs in all, 2 saves, 1 restore, a legacy branch | `WorkingBranchStaysHome`, `NewestFilesWin`, `HistoryGrows` hold; 3 155 518 states |

The type invariant of every specification is proved; those of `AndonApi`,
`RuntimeWriter` and `Dashboard`, which say most about their systems, are checked in
their runs too.

Why the bounds are enough. *Lock*: the known failures need a holder, a recoverer and one
that comes between, hence three processes. *State*: an operation looks at the active
session, at the last handoff and at the two ends of the queue; with three sessions the
queue reaches its cap of two and an entry is below the one that is taken. One step is
enough for conservation, which looks at each step alone; `rescue` needs two, so that
answers differ from the session's notes. Entries age in `rescue` only; that `state`'s
properties of the queue survive aging is proved. *Store*: sessions meet only in the
order in which a run handles them, so two do; two faults allow one during the repair of
another. *Capture and daemons*: the code's threshold of 5 becomes 2 and is reached by
two files at once or by buffering; one quiet tick is enough, as in the code
(`src/daemon.ts:69`); one of the two files is also edited during ticks and commands; of
two daemons one can find, overtake, outlive and replace the other. *Task*: with two
unread events the exit can overtake one, and one can precede an exit. *Board*: a
request, its answer and one event that overtakes either are three; every threshold is a
different number of units and the clock goes past the longest. *Writer*: the second
agent's work is what must not keep the first one's session alive; a turn changes and
changes back in two changes. *Beacon*: a session is opened, reported on and closed by
three commands, two of which can overlap. *Dashboard*: on the board and the history a
message is handled while a load is under way, on the board with news in it, and on the
detail page loads overlap by a retry; on the history the clock goes past a fetch and a
heartbeat. *Sync*: two syncs overlap, of one machine or of both, and each file is saved
twice.

`Max...`, `Last...` and `Bound` constants bound what would grow without end; nothing
else does. Deadlock is checked, except where the system may stop: in `task` (a task
ends), and in `writer`, `beacon`, `dashboard` and `sync`, whose clock or number of
commands is bounded.

## Fairness

*Lock*: a live process takes the steps it can take, and a periodic one (the daemon's
`setInterval`) calls again. Nobody has to die, and a call may starve, so `CallReturns`
has its premise: unless the process removes stale locks for ever. *Store*: the daemon's
tick runs hygiene under the lock; it is strongly fair because the lock is taken and
given back in between; whoever runs goes on; a crashed process is replaced (by the next
command or a restarted daemon). *Daemon*: `WF(DaemonTick(p))`, the timer of a running
daemon. Nobody has to start one, so `QuietLeadsToCheckpoint` has the premise that some
daemon runs on; no user action is fair. *Task*: node delivers output, exit and the
timer; the child need not write or end, and nobody need call. *Writer*: its timers fire,
the file watch is told of changes, a saved answer is written, and requests to a local
API that runs are answered: `[]<>` every tick under way is. Changes and faults stop at
`LastChange`, after which the clock has room for the reassertion interval. The other
runs check safety only.

## Proofs

Checked by TLAPS for all values of the constants that satisfy the named assumptions of
the modules (`LockOK`, `StoreOK`, `IngestOK`, `WriterOK` and the others: types, distinct
null values, positive intervals). What a theorem assumes beyond them is in its
statement.

### ProcessProofs

*The lock.* `LockTypeCorrect`; `HoldersOwnTheFile`, `LockExcludes`, `LockImplements`,
for any processes, whoever waits, recovers, dies where, is replaced under its pid or
fails to unlink. The code breaks all three (see below), so they say what breaks them: as
long as no recovery has removed a lock that was not stale (`robbed`), holders own the
file and exclude each other, and a behaviour without such a recovery implements
`AbstractLock`. `MutualExclusion` is not inductive: a process about to unlink has no
trace of the lock it judged. `Sound` adds `CreatorsOwnFile` (who created the file and
has not left owns it) and `VerdictsHold`: what was read from the file that is still
there is its creator's pid, and if that was found dead nobody is inside. The refinement
maps `owner` to the one process inside; `CreateLock` or `WriteOwnPid` is `Enter`,
`Release` or `Perish` is `Leave`, the rest stutters.

*The capture.* `TypeCorrect`; `NoEditForgotten` (`EditsTracked`, with any edits during
ticks and commands); `OncePerCause` (`NoRefire`), by `Settled`: without news there is
nothing dirty, nothing buffered, no switched branch and no old checkpoint.

*The daemons.* `DaemonTypeCorrect`; `ImplementsCapture`, every step of `Daemon` is a
step of `PassiveCapture` or leaves its variables alone, so that `NoEditForgottenByAny`
and `OncePerCauseByAny` follow from those two for any number of daemons and one-shot
ticks; `DaemonIsSoleOwner` (`SoleOwner`) for any set of daemons, deaths and reused pids.
The invariant behind it: unless two have started into each other, at most one is past
its look, whoever wrote the file is the one it names, and only a running daemon has
children.

*The task.* `TaskTypeCorrect`, `StampedForever`, `EndedIsStable`, `EndingAgrees`, from
`TaskInv`: the adapter's session is stamped too, because requests write it over the row,
and a known session has a child. `EndingAgrees` is about an end after which the service
still listens; what a failed statement does is below.

### StateProofs

*`state.json`.* `TypeCorrect`, `PendingCorrect`, `LastHandoffCorrect`, `NoWorkLost`, for
any steps, lessons, clients, cap and number of sessions. The invariant `IInv` is about a
value of `state.json`, `Good(state, archive, newest)`: the queue is a strictly
descending `Stack` below the active session (below the next id if there is none), backed
by the archive, and the last handoff is as new as all of it. The bound by the next id is
what the properties do not say and induction needs. Each pure operation has a lemma
(`GoodStarted`, `GoodColdStart`, `GoodHandedOff`, ...), on lemmas about stacks, and an
action only composes them.

*Handoffs and the draft.* `DraftCorrect` (`DraftIsFaithful`, by itself inductive over
`IInv`); `AnswersOutliveSession` (`AnswersKept`) for saves that do not fail: a finished
handoff merges its steps into the session it ends, whose steps become pending work.

*The records.* `StoreTypeCorrect`; `NothingIsLost` (`NoSessionLost`) and `LookupsFind`
(`LookupFinds`) for any keepers, diffs and searches, crashes and failed writes.
`KeepersNeverMeet` says what the exception in both, `met`, can be due to: two keepers
never meet over a session, so it takes a diff or a search to endanger one.
`NoSessionLost` needs `MovesAreSafe`: a keeper at work holds the lock, over a session
that is not in `met` the copy that is not being written is whole, and so are the records
that hygiene has read and still has to move.

### AndonIngestProofs

Lemmas that the next four modules share. `EventIngested` says what is left of an event
in each table (`TakenIn`), `IngestOne`, `IngestTwo` and `IngestBatch` what a batch of
one, two and up to three makes of a store; `IngestKeepsDates` and its companions bound
the times and the ids in a store (`DatedStores`) by those of what is posted, and the
heartbeats in it by a limit of their own. `BoardIs` says which statuses earn a place on
the board. `RowTells` is what the card of a row says, through the precedence of
`ProjectRuntime`. `HintLater`, `RowLater` and `LegacyLater` say what a tick of the clock
does to a hint and to a card. A batch is folded by a recursive function, which TLAPS
knows as a CHOOSE; that it exists, like the newest of a set of times and the last of a
set of events, is proved by the least counterexample in the natural numbers, `WFMin`,
which needs no induction rule.

### AndonApiProofs

For any reports, senders, events of the service, windows and bounds:

- `TypeCorrect` (`TypeOK`).
- `RedeliveryIsHarmless` (`RedeliveryHarmless`). Normalisation is idempotent, and an
  event that was taken in finds its task started, its switch stored, its row its own and
  no newer, and replaces its record by itself; so does one that was refused or late.
- `LateEventsRewindNothing` (`NoRewind`), on `Numbered`: ids are unique, and an event in
  flight is not stored yet. Without it, `Replaced` could exchange one trace for another
  and the row would change with no trace to show for it.
- `DemandsAreShown` (`RequestsAreShown`). The board reads two statuses, the row's and
  the hint's. `Agree` is what relates them: a row whose status is `unknown` has no
  process and has heard of no request and no failure. Every branch that could hide a
  pending request is then closed, or is one of the two windows.
- `TimeAsksForNobody` (`TimeDemandsNothing`) and `TimeHidesNothingEarly`
  (`DemandsLeaveByAge`) compare the board at `now` and at `now + 1`.

### RuntimeWriterProofs

For any agents, sessions, windows, overlapping ticks, losses and restarts: `TypeCorrect`
(`TypeOK`: no tick waits with an empty batch, and a session that anything was heard of
has a dated row) and `OwnSignalsOnly` (`LivenessIsOwned`). The property looks at the
stores only, so it is not inductive: a heartbeat may be on its way, or the writer may
have read a turn that is somebody else's. `IInv` is `Times` (the files name no time that
has not come) and `Bounded`, which says of the stores, and of the batch of every tick
that has not arrived, that their heartbeats respect `Limit`: for the active session
`StaleSessionMs` after the newest of its own signals, for a former one the present. A
signal can only raise the limit, and a session that stops being active gets a weaker
one.

### SessionBeaconProofs

`Invariant` is `Types /\ Alone /\ Closed`: what a command that runs by itself may rely
on, and that nobody names a closed session any more. From it `ClosedIsFinal`
(`ClosedStaysClosed`): the farewell of a command alone puts the session off the board,
and nobody posts for it again. `TypeCorrect` (`TypeOK`) is less obvious than its name:
that the API knows the session that the file names, and that of every command it has
answered, rests on the fact that it refuses none of the beacon's events.

`FileTellsTheBoard` (`FileIsShown`) needs two more, `Progress` (what a command alone has
reached at each of its steps) and `VouchedFor`, which say of a store not what the board
shows but why: the row and its hint tell the status, the posted events do not know
better (`Told`), and the signs of life are as young as the file (`Backed`). These
outlive a heartbeat, and the verdict of the board follows as long as the file is
current. The theorem assumes `ReviewStaleMs <= ActionableStaleMs`. In the source both
are 24 hours (`services/andon-api/src/operational-projection.ts:22,35`), and the
condition is needed: TLC finds that with a longer window for reviews a request for an
input, followed by a request for a review, leaves the board when the demand has aged,
while the file still says that a review is due.

### DashboardProofs

For any windows, reports, faults and any number of requests under way: `TypeCorrect`
(`TypeOK`), `AtRestRecent` (`PageIsRecent`), `UpdatesArrive` (`NoUpdateLost`),
`DemandsComeFirst` (`DemandsFirst`). `NoUpdateLost` speaks of a page with nothing under
way, so it says nothing of the way there. `Underway` does: while the stream is open and
there is no error, the newest event is in a message that is due or sent, or in a request
that is not answered yet or answered with it, or on the page. `Fresh` says that data at
rest whose body was not waited for are no older than a fetch and what the heartbeat has
counted since.

`DemandsFirst` is about two sorts in a row, the API's and the page's. An order that is
strict and total on a finite set gives each element the number of its predecessors,
which is an injection into `1..n`, and therefore meets every place (`InOrderIs`): no
induction over the sequence is needed. The page's sort goes by status and takes an
unknown one for less urgent than a running one, although its card demands something; the
property holds because no item with that status earns a place on the board (`BoardIs`,
`ApiItemIs`). `Ordered` carries this from the stores to the answers under way and to the
page.

### StateSyncProofs

`TypeCorrect`; `HistoryIsKept` (`HistoryGrows`); `ProjectStaysHome`
(`WorkingBranchStaysHome`); `NewestWins` (`NewestFilesWin`), for any machines,
processes, saves and runs. A sync begins on a commit of the project, so the invariant
`HomeInv` says where it has left it: once it copies, it is on the temporary branch or on
a history that was fetched, and ref, temporary branches and those histories hold
mirrored commits only. `OrderInv` says of every history that is under the ref, on a
temporary branch or held by a sync that its commits are no newer than the files of their
machine and, a first sync's apart, no older than that machine's commits before them; and
of the documents a sync has copied already, that they are what the history it stands on
may be extended by.

### Only model-checked

Every safety property that a run checks is proved, under the conditions named above, but
one: `RescuedAnswersKept`, which holds only on the instance of `rescue` (one command, no
auto drafts, no failing saves; each of the three is needed, see below). With TLC stay
too the six liveness properties, which the proof system cannot do under
fairness: `StaleLockRemoved`, `CallReturns`, `StaleSettles`, `QuietLeadsToCheckpoint`,
`ExitIsRecorded`, `TurnReachesBoard`. TLC goes through every combination within the
bounds.

## What the code does not keep

These statements are in the modules and TLC refutes them on the instances named, which
change the cfg of the run in brackets:

| statement | instance | the code | what is said of it |
|---|---|---|---|
| `MutualExclusion` | `Patient = {p1, p2}`, `Mortal = {p3}` [`lock_safe`] | `src/core/lock.ts:33-35`: a recoverer unlinks by name what another has already replaced | `docs/roadmap/01-feature-expansion.md:728`: "Concurrent state access is protected by a state lock" |
| `MutualExclusion` | `WriteGap = TRUE`, `Patient = {p1}`, `Mortal = {}` [`lock_safe`] | `src/core/lock.ts:28,52`: an empty lock file counts as corrupt and is removed | the same line |
| `StaleLockRemoved` | `PidReuse = TRUE`, `WriteGap = FALSE` [`lock_live`] | `lock.ts:33`: a reused pid keeps the lock | `CHANGELOG.md:224` |
| `HandoffReachesItsSession` | `Mcp = {}`, `MaxSessions = 3` [`rescue`] | `src/cli.ts:956`: applied to whichever session is active by then | `src/cli.ts:949-954`: "Detect that explicitly" |
| `McpAnswersKept` | `Cli = {c1}`, `Mcp = {m1}`, `MaxSessions = 3` [`rescue`] | `src/mcp-server.ts:279-288`: reports success without a session | `src/cli.ts:952-954` |
| `RescuedAnswersKept` | `SaveFails = TRUE` [`rescue`] | `src/cli.ts:973`: the draft goes before the save | `CHANGELOG.md:38` |
| `RescuedAnswersKept` | `AutoDrafts = TRUE` [`rescue`] | `src/core/state.ts:1795`: an auto draft replaces the rescue | `src/cli.ts:981` |
| `RescuedAnswersKept` | `Cli = {c1, c2}`, `Step = {a}`, `Ages = FALSE` [`rescue`] | `src/cli.ts:973`: a handoff that was asked before the rescue clears the draft when it finishes | `src/cli.ts:981` |
| `AnswersKept` | `SaveFails = TRUE` [`rescue`] | `src/cli.ts:973`: a handoff whose save fails has cleared its answers all the same | `src/cli.ts:949-954` |
| `LessonsConserved` | [`state`] | `src/core/state.ts:1848`: only sessions with open steps are queued | `src/core/types.ts:72-77` |
| `PendingBounded` | `MaxPending = 1`, `MaxSessions = 4` [`state`] | `state.ts:895`: the cap is applied in hygiene only | `src/core/state.ts:868-871` |
| `CompletionDraftedOnce` | [`state`] | `state.ts:1696`: an idle draft in between hides the first one | `tests/run-tests.ts:1637` |
| `NoSessionErased` | [`store`] | `src/cli.ts:1138`: search and diff move files without the lock | `src/core/state.ts:1057`: "crash-safe ordering"; `.gsd/REQUIREMENTS.md:77` |
| `CommandsOnlyRead` | [`store`] | `src/cli.ts:1137-1139,1179` | `README.md:178` |
| `LateEditsTracked` | [`edits`] | `src/daemon.ts:89-98`: the saved snapshot is newer than the compared one | `.gsd/PROJECT.md:69` |
| `ElapsedLeadsToCheckpoint` | [`edits`] | `daemon.ts:197-213` return before 255 | `.gsd/REQUIREMENTS.md:155` |
| `CheckpointNamesFiles` | [`edits`] | `daemon.ts:218-235`: the changed files are taken from a renewed snapshot | `docs/roadmap/01.5-decisions.md:109` |
| `OneWriter` | [`edits`] | `daemon.ts:420-425`: a dead daemon's writer goes on, and the next daemon starts another | `daemon.ts:417-418`: "the daemon is the sole owner per repo (pidFile guard)" |
| `ExitReachesRow` | [`task`] | `services/runtime-service/src/server.ts:201-203`: one failed statement ends the reading of the stream, and the row keeps its status for ever | `server.ts:202`: "Stream errors should not crash the service; adapters can reconnect/restart in later slices" |
| `HeartbeatKeepsStatus` | [`task`] | `services/runtime-service/src/server.ts:212`: a heartbeat means running | `docs/AGENT_SESSION_EVENT_CONTRACT.md:88`: heartbeats "must not override explicit lifecycle states" |
| `WaitingIsShown` | [`board`] | `services/andon-api/src/repository.ts:756-782`, `operational-projection.ts:717`: the hint does not know questions and ends of a turn, and a running hint sets the card aside | `repository.ts:2092-2094`: "is waiting for the human"; `docs/andon-audit.md:58`: "`needs_input`: any unresolved `agent.question_asked`" |
| `LivenessDecays` | `MaxTime = 6` [`writer`] | `services/andon-api/src/operational-projection.ts:717`: a running hint keeps a card live whatever the age of its heartbeats | `andon-runtime-writer.mjs:229-231` |
| `HeartbeatIsShown` | [`beacon`] | `scripts/andon-session-beacon.mjs:183-185,215,563`: a heartbeat saves the status it is given and neither reports nor verifies it | `andon-session-beacon.mjs:470`: it prints, as expected, a card "with status" this one |
| `OwnFileRemoved` | [`beacon`] | `andon-session-beacon.mjs:571`: the comparison is with the file read at the start, and is always true for it | the comparison itself, which is there to keep the file of another session |
| `AnswersAreRecent` | [`dashboard`] | `apps/andon-dashboard/src/api.ts:30-32,41`: the timer is cleared with the headers, and the body is read without one | `api.ts:21`: the name, `fetchWithTimeout` |

What else the models show, and the properties therefore leave out by name:

- *Capture.* `mark-commit` (`src/cli.ts:1229-1247`) renews the snapshot without a
  checkpoint; edits made since count as committed in `owed`, as its purpose has it.
- *Task.* A pause, resume or stop whose statement fails answers with an error and leaves
  the adapter changed. A task whose row cannot be written runs without one.
- *Daemon.* Two daemons that start into each other both run (`raced`); `stop` removes
  the pid file whomever it names; a reused pid keeps a daemon from starting.
- *Ingest.* A heartbeat that overtakes an older request drops it: an event older than
  its row is no news (`Late`). `last_event_at` regresses all the same. A second switch
  to the same branch is dropped for ever. An unnamed event on the writer's row turns it
  into a mirror, which takes the card off the board until the writer's next event. The
  approve callback ends a session but does not clear a direct row's card, and a restart
  of the API parks a running row that still has a request.
- *Time.* A wait that a running hint hides comes to light when the recent activity has
  passed, hence `WaitsUnseen`. The row of a task whose process has gone cold may leave
  the board and come back as running, when what the agent posted since counts.
- *Writer.* Its branch for an ended session cannot be reached, for a handoff takes the
  session out of `state.json`; nobody posts `session.ended` for a session that start-new
  replaces.
- *Beacon.* `status parked` and `status done` can never be verified, for a session that
  is parked or done is on no board. A request for a review is no meaningful activity, so
  its card ages from what came before it. Two overlapping commands can leave a file that
  the board contradicts, hence `alone`.
- *Dashboard.* An answer from an older request may replace newer data until the next
  heartbeat, hence `received`; an error stays although a later answer succeeded.
- *Sync.* A first sync that fails leaves its temporary branch behind, and
  `git switch --orphan` then refuses until another machine has made the ref. Two first
  syncs at once share that branch and may take newer files back, hence `temp` in
  `NewestFilesWin`. A restore does not see untracked or staged files, overwrites what is
  saved after its check, and falls back to the legacy branch on any failure to fetch. A
  commit may hold the documents of one save with the state of another. The newest sync
  may be rejected, and nobody retries it.

## Not modelled

*Inside the modelled components.* The 500 ms cache of the directory listing;
`state.json` that cannot be parsed, and its backups; two ids in one millisecond; the
adoption of portable state; knowledge base fields; the list of dispatches in flight and
`flushAndonEvents`; the HTTP layer of both services; fleet, task pages, diagnostics and
replay; rendering; the dashboard child of the daemon; the PowerShell twins of the sync
scripts.

*Components left out for good.* The generation of configuration and hooks, derived
documents, splash: generated text without later state. Collector and bridges: field
translation and one request. Access control: stateless. Development scripts.

## Plan

1. **State recovery.** Unreadable `state.json`, backups, the directory cache;
   composition of HolisticState with SessionStore, so that pending work refers to files.
2. **Runtime approvals** of several tasks, composed with the ingest.

## Running it

```
tlasany StateLock.tla
tlc -workers 2 -config MCStateLock_safe.cfg MCStateLock.tla
tlapm ProcessProofs.tla
```
