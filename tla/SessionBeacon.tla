----------------------------- MODULE SessionBeacon -----------------------------
(***************************************************************************)
(* scripts/andon-session-beacon.mjs: the commands by which an agent or a   *)
(* user reports on a session, with the file each of them leaves for the    *)
(* next and the Andon store it posts to.  A command reads the file, posts, *)
(* asks Mission Control whether its status has arrived, and only then      *)
(* saves the file; it can fail or be killed at every step.                 *)
(*                                                                         *)
(* Left out: synonyms (resume, end, resolve-...), words that are no status, *)
(* and commands that name another session than the file's.                 *)
(***************************************************************************)
EXTENDS AndonIngest

CONSTANTS
  NoFile,
  StaleFileMs,   \* DEFAULT_STALE_SESSION_MS
  Session,       \* bound: the sessions a run can start, from 1
  MaxCommands,   \* bound: commands in all
  MaxAtOnce,     \* bound: commands under way at once
  MaxTime        \* bound: the clock

ASSUME BeaconOK ==
  /\ IsFiniteSet(Session) /\ Session = 1..Cardinality(Session)
  /\ {StaleFileMs, MaxCommands, MaxAtOnce} \subseteq Nat /\ MaxTime \in Nat \ {0}

VARIABLES
  now,
  file,      \* andon-session.json: [session, status, at]
  stores,    \* what the API holds of each session
  commands,  \* commands under way
  count,     \* how many commands there have been
  closed,    \* sessions that a complete or park by itself has closed
  vouched    \* the last word on the file was a verified one, see Vouches

vars == <<now, file, stores, commands, count, closed, vouched>>

ShownStatus == {"running", "awaiting_assignment", "waiting_on_human_input",
                "waiting_for_review", "needs_intervention"}
PrimaryStatuses == ShownStatus \cup {"parked_idle", "done_historical"}

Begun(s) == stores[s].session.known

TypeOK ==
  /\ now \in 1..MaxTime /\ count \in 0..MaxCommands /\ vouched \in BOOLEAN
  /\ Cardinality(commands) <= MaxAtOnce
  /\ closed \subseteq {s \in Session : Begun(s)}
  /\ file # NoFile =>
       /\ file.session \in Session /\ Begun(file.session)
       /\ file.status \in PrimaryStatuses /\ file.at \in 1..now
  /\ \A c \in commands :
       /\ c.session \in Session /\ c.status \in PrimaryStatuses /\ c.at \in 1..now
       /\ c.step \in {"answered", "verified"} => Begun(c.session)

Init ==
  /\ now = 1 /\ file = NoFile /\ stores = [s \in Session |-> EmptyStore]
  /\ commands = {} /\ count = 0 /\ closed = {} /\ vouched = FALSE

------------------------------------------------------------------------------
(* What each command posts, saves and expects. *)

Command == {"start", "begin", "heartbeat", "work-completed", "request-input",
            "input-resolved", "request-review", "review-resolved",
            "validation-passed", "validation-failed", "error", "complete", "park"}

StatusForTelemetryCommand(name, fallback) ==
  CASE name \in {"start", "begin", "input-resolved", "review-resolved",
                 "validation-passed"} -> "running"
    [] name = "work-completed" -> "awaiting_assignment"
    [] name = "request-input" -> "waiting_on_human_input"
    [] name = "request-review" -> "waiting_for_review"
    [] name \in {"validation-failed", "error"} -> "needs_intervention"
    [] name = "park" -> "parked_idle"
    [] name = "complete" -> "done_historical"
    [] OTHER -> fallback

CommandForCompatibilityStatus(status) ==
  CASE status = "running" -> "begin"
    [] status = "awaiting_assignment" -> "work-completed"
    [] status = "waiting_on_human_input" -> "request-input"
    [] status = "waiting_for_review" -> "request-review"
    [] status = "needs_intervention" -> "validation-failed"
    [] status = "parked_idle" -> "park"
    [] status = "done_historical" -> "complete"

EventTypeForCommand(name) ==
  CASE name = "start" -> "session.started"
    [] name = "begin" -> "work.started"
    [] name = "heartbeat" -> "session.heartbeat"
    [] name = "work-completed" -> "work.completed"
    [] name = "request-input" -> "input.requested"
    [] name = "input-resolved" -> "input.resolved"
    [] name = "request-review" -> "review.requested"
    [] name = "review-resolved" -> "review.resolved"
    [] name = "validation-passed" -> "validation.passed"
    [] name = "validation-failed" -> "validation.failed"
    [] name = "complete" -> "session.ended"
    [] name = "park" -> "session.parked"
    [] name = "error" -> "session.error"

(* Mission Control has to show the session with the command's status, or   *)
(* after a complete not at all; start, heartbeat and park ask for nothing. *)
Unverified == {"start", "heartbeat", "park"}

(* Mutant: the answer to the post is proof enough. *)
AcceptedAtOnce(c) == TRUE

Verified(c) ==
  LET item == Board(stores[c.session], now)
  IN CASE c.name \in Unverified -> TRUE
       [] c.name = "complete" -> ~item.board
       [] OTHER -> item.board /\ item.primary = c.status

------------------------------------------------------------------------------
(* A command. *)

RefusesStaleFile == Command \ {"start", "begin", "complete", "park", "error"}
Stale == file # NoFile /\ now - file.at > StaleFileMs

Fresh(s) == stores[s] = EmptyStore /\ \A c \in commands : c.session # s

(* Mutant: the id is made of the source and the repository, not of the time. *)
SameSession == 1

(* The id ends in the time at which it was made. *)
NextSession == CHOOSE s \in Session : Fresh(s) /\ \A r \in Session : Fresh(r) => s <= r

Beacon == [writer |-> FALSE, id |-> "beacon", kind |-> "local_cli"]
ASSUME BeaconNamed == Beacon \in Sender /\ Beacon.id # Unnamed

(* The i-th event of a command; complete says that it is acknowledged. *)
BeaconEvent(i, name, acknowledged) ==
  [id |-> 2 * count + i, at |-> now, type |-> EventTypeForCommand(name),
   note |-> IF acknowledged THEN "acknowledged" ELSE "none",
   from |-> Beacon, task |-> FALSE]

Disturbed(them) == {[c EXCEPT !.alone = FALSE] : c \in them}

(* The commands that heed the option --status; for the others it is as if  *)
(* none was given.  status reports it, a heartbeat only saves it.          *)
Heeding == {"status", "heartbeat"}

(* The name of the command, the status it is given or none, and whether it  *)
(* is forced.                                                              *)
Run(name, given, force) ==
  /\ count < MaxCommands /\ count' = count + 1
  /\ Cardinality(commands) < MaxAtOnce
  /\ file = NoFile => name \in {"start", "begin"}
  /\ Stale /\ name \in RefusesStaleFile \cup {"status"} => force
  /\ LET opens == name = "start" \/ file = NoFile
         posts == IF name = "status" THEN CommandForCompatibilityStatus(given) ELSE name
         first == IF opens THEN "start" ELSE posts
         status == IF given # "none" THEN given
                   ELSE StatusForTelemetryCommand(name, file.status)
     IN /\ opens => \E s \in Session : Fresh(s)
        /\ commands' = Disturbed(commands) \cup
             {[number |-> count, at |-> now, step |-> "posted",
               alone |-> commands = {}, status |-> status,
               session |-> IF opens THEN NextSession ELSE file.session,
               name |-> name,
               events |-> <<BeaconEvent(1, first, name = "complete")>> \o
                          IF name = "begin"
                          THEN <<BeaconEvent(2, "heartbeat", FALSE)>> ELSE <<>>]}
  /\ vouched' = (vouched /\ commands = {})
  /\ UNCHANGED <<now, file, stores, closed>>

Arrive(c) ==
  /\ c \in commands /\ c.step = "posted"
  /\ stores' = [stores EXCEPT ![c.session] = IngestEvents(@, c.events)]
  /\ commands' = (commands \ {c}) \cup {[c EXCEPT !.step = "answered"]}
  /\ UNCHANGED <<now, file, count, closed, vouched>>

Verify(c) ==
  /\ c \in commands /\ c.step = "answered" /\ Verified(c)
  /\ commands' = (commands \ {c}) \cup {[c EXCEPT !.step = "verified"]}
  /\ UNCHANGED <<now, file, stores, count, closed, vouched>>

(* How long what the file says stays on the board by itself.  A request    *)
(* for a review does not count as activity, so its card is as old as what   *)
(* the session did before it.                                               *)
Lasts(status) ==
  IF status = "running" THEN ColdMs
  ELSE IF status = "waiting_for_review" THEN ReviewStaleMs ELSE ActionableStaleMs
Since == IF file.status = "waiting_for_review" THEN LastSignal(RowOf(stores[file.session]))
         ELSE file.at
Current == file # NoFile /\ now - Since <= Lasts(file.status)

(* A verified command that ran alone vouches for the file, and so does one *)
(* that opens a session; a heartbeat goes on vouching for what is current, *)
(* if it says nothing else.                                                *)
Vouches(c) ==
  c.alone /\ (c.name # "heartbeat" \/ (vouched /\ Current /\ c.status = file.status))

(* A complete or park compares its session with that of the file it has    *)
(* read at its start, and so removes whatever file there is now.           *)
Finish(c) ==
  /\ c \in commands /\ c.step = "verified"
  /\ IF c.name \in {"complete", "park"}
     THEN /\ file' = NoFile
          /\ closed' = IF c.alone THEN closed \cup {c.session} ELSE closed
     ELSE /\ file' = [session |-> c.session, status |-> c.status, at |-> c.at]
          /\ UNCHANGED closed
  /\ vouched' = Vouches(c)
  /\ commands' = commands \ {c}
  /\ UNCHANGED <<now, stores, count>>

(* The post or the verification fails, or the command is killed: the file  *)
(* stays as it was, whatever has been ingested.                            *)
Fail(c) ==
  /\ c \in commands
  /\ commands' = commands \ {c} /\ vouched' = FALSE
  /\ UNCHANGED <<now, file, stores, count, closed>>

------------------------------------------------------------------------------
(* A restart may park a session that has sent no heartbeat of late.         *)
ApiRestart ==
  /\ stores' = [s \in Session |-> Reconciled(stores[s], now)]
  /\ IF stores' = stores THEN UNCHANGED <<commands, vouched>>
     ELSE commands' = Disturbed(commands) /\ vouched' = FALSE
  /\ UNCHANGED <<now, file, count, closed>>

TimePasses ==
  /\ now < MaxTime
  /\ now' = now + 1
  /\ UNCHANGED <<file, stores, commands, count, closed, vouched>>

Next ==
  \/ \E name \in Command, force \in BOOLEAN : Run(name, "none", force)
  \/ \E name \in Heeding, given \in PrimaryStatuses, force \in BOOLEAN :
       Run(name, given, force)
  \/ \E c \in commands : Arrive(c) \/ Verify(c) \/ Finish(c) \/ Fail(c)
  \/ ApiRestart
  \/ TimePasses

Spec == Init /\ [][Next]_vars

------------------------------------------------------------------------------
(* What the file says of its session is what Mission Control shows, until  *)
(* it ages: whatever failed before, the next verified command that runs by *)
(* itself sets it right.                                                   *)
FileIsShown ==
  vouched /\ Current /\ commands = {} =>
    LET item == Board(stores[file.session], now)
    IN item.board /\ item.primary = file.status

(* A session that a command by itself completed or parked is off the board  *)
(* and stays off.                                                           *)
ClosedStaysClosed == \A s \in closed : ~Board(stores[s], now).board

(* What a heartbeat by itself prints as expected is what Mission Control    *)
(* shows, if it showed what the file said.                                  *)
HeartbeatIsShown ==
  [][\A c \in commands \ commands' :
       c.step = "verified" /\ c.name = "heartbeat" /\ c.alone /\ vouched
         /\ Current /\ file' # file =>
         Board(stores[c.session], now).primary = file'.status]_vars

(* A complete or park removes the file of its own session only.             *)
OwnFileRemoved ==
  [][file # NoFile /\ file' = NoFile =>
       \E c \in commands \ commands' : c.session = file.session]_vars

=============================================================================
