----------------------------- MODULE PassiveCapture -----------------------------
(***************************************************************************)
(* src/daemon.ts, runDaemonTick: how the daemon turns edits of the working *)
(* tree into checkpoints.  It polls: a tick compares the files with the    *)
(* repoSnapshot of state.json, buffers what changed, and checkpoints when  *)
(* the branch changes, when enough files are buffered, at a quiet tick, or *)
(* after two hours.  Every command that saves the state renews the         *)
(* snapshot too.                                                           *)
(*                                                                         *)
(* A tick or a command holds the state lock, so only the user's edits can  *)
(* fall into it.  Those are the early ones, which the session's refresh    *)
(* still sees, and the late ones, which only the snapshot that             *)
(* persistLocked saves takes in.                                           *)
(***************************************************************************)
EXTENDS Naturals, FiniteSets

CONSTANTS
  File,         \* the tracked files that are not Holistic's own
  Branch,
  None,
  Threshold,    \* PASSIVE_CHECKPOINT_PENDING_FILE_THRESHOLD
  QuietTicks,   \* QUIET_TICKS_BEFORE_CHECKPOINT
  Meanwhile     \* bound: the sets of files edited during a tick or a command

Age == {"never", "recent", "old"}
Capture == [observed : Branch \cup {None}, pending : SUBSET File,
            quiet : 0..(QuietTicks - 1), age : Age]

ASSUME ConstantsOK ==
  /\ IsFiniteSet(File) /\ None \notin Branch
  /\ Threshold \in Nat \ {0} /\ QuietTicks \in Nat \ {0}
  /\ Meanwhile \subseteq SUBSET File /\ {} \in Meanwhile

VARIABLES
  dirty,    \* the files whose size or mtime is not the one in repoSnapshot
  branch,   \* the branch HEAD names
  capture,  \* state.passiveCapture; age: of lastCheckpointAt, "old" from two hours
  changed,  \* activeSession.changedFiles, or None without an active session
  owed,     \* history: the files edited since the last checkpoint or mark-commit
  missed,   \* history: the files whose last edit was a late one
  news      \* history: whether anything happened since the daemon's last one

vars == <<dirty, branch, capture, changed, owed, missed, news>>

TypeOK ==
  /\ dirty \subseteq File
  /\ branch \in Branch
  /\ capture \in Capture
  /\ changed \in (SUBSET File) \cup {None}
  /\ owed \subseteq File /\ missed \subseteq File
  /\ news \in BOOLEAN

Init ==
  /\ dirty \in SUBSET File
  /\ branch \in Branch
  /\ capture = [observed |-> None, pending |-> {}, quiet |-> 0, age |-> "never"]
  /\ changed = None
  /\ owed = dirty /\ missed = {}
  /\ news = TRUE

------------------------------------------------------------------------------
(* The user. *)

Edit(f) ==
  /\ dirty' = dirty \cup {f} /\ owed' = owed \cup {f} /\ missed' = missed \ {f}
  /\ news' = TRUE
  /\ UNCHANGED <<branch, capture, changed>>

Switch(b) ==
  /\ b # branch /\ branch' = b
  /\ news' = TRUE
  /\ UNCHANGED <<dirty, capture, changed, owed, missed>>

TwoHoursPass ==
  /\ capture.age = "recent" /\ capture' = [capture EXCEPT !.age = "old"]
  /\ news' = TRUE
  /\ UNCHANGED <<dirty, branch, changed, owed, missed>>

(* What is left after a save during which these files were edited: the      *)
(* saved snapshot has taken the edits in, and nothing else has.            *)
LeftBy(late) == owed' = late /\ missed' = late /\ dirty' = {}

------------------------------------------------------------------------------
(* The daemon. *)

BranchChanged == capture.observed # None /\ capture.observed # branch

(* Mutant: the buffer of the tick before. *)
BufferedBefore == capture.pending

Buffered == capture.pending \cup dirty
ManyFiles == dirty # {} /\ Cardinality(Buffered) >= Threshold

(* Mutant: a quiet tick waits for the threshold too. *)
QuietManyFiles == dirty = {} /\ Cardinality(capture.pending) >= Threshold

Quiet == dirty = {} /\ capture.pending # {}
QuietEnough == Quiet /\ capture.quiet + 1 >= QuietTicks
Elapsed == dirty = {} /\ capture.pending = {} /\ capture.age = "old"

(* Mutant: the new branch is not noted. *)
CapturedOnOldBranch ==
  [observed |-> capture.observed, pending |-> {}, quiet |-> 0, age |-> "recent"]

(* The tracker a checkpoint leaves behind. *)
Captured == [observed |-> branch, pending |-> {}, quiet |-> 0, age |-> "recent"]

(* ensurePassiveSession, checkpointState, persistLocked.  The session that *)
(* ensurePassiveSession creates has renewed the snapshot by the time       *)
(* checkpointState compares the files with it.                             *)
DaemonCheckpoint ==
  /\ BranchChanged \/ ManyFiles \/ QuietEnough \/ Elapsed
  /\ capture' = Captured
  /\ \E early, late \in Meanwhile :
       /\ changed' = IF changed = None THEN early ELSE dirty \cup early
       /\ LeftBy(late)
  /\ news' = FALSE
  /\ UNCHANGED branch

(* The snapshot the tick began with is saved: later edits stay dirty. *)
Buffer ==
  /\ ~BranchChanged /\ dirty # {} /\ ~ManyFiles
  /\ capture' = [capture EXCEPT !.observed = branch, !.pending = Buffered, !.quiet = 0]
  /\ dirty' = {}
  /\ UNCHANGED <<branch, changed, owed, missed, news>>

(* A tick without changes that does not checkpoint either: it counts as a   *)
(* quiet one if files are buffered, and notes the branch.                  *)
ObserveBranch ==
  /\ ~BranchChanged /\ dirty = {} /\ ~QuietEnough /\ ~Elapsed
  /\ Quiet \/ capture.observed = None
  /\ capture' = [capture EXCEPT !.observed = branch,
                                !.quiet = IF Quiet THEN @ + 1 ELSE @]
  /\ UNCHANGED <<dirty, branch, changed, owed, missed, news>>

Tick == DaemonCheckpoint \/ Buffer \/ ObserveBranch

------------------------------------------------------------------------------
(* The commands.  None of them touches passiveCapture. *)

(* holistic checkpoint or resume: the active session is refreshed, or one  *)
(* is created and refreshed.                                               *)
Checkpoint ==
  \E early, late \in Meanwhile :
    /\ changed' = dirty \cup early
    /\ LeftBy(late)
    /\ UNCHANGED <<branch, capture, news>>

(* holistic start-new refreshes the session it ends, if there is one, and  *)
(* the one it starts.                                                      *)
StartNew ==
  \E early, late \in Meanwhile :
    /\ changed' = IF changed = None THEN dirty \cup early ELSE {}
    /\ LeftBy(late)
    /\ UNCHANGED <<branch, capture, news>>

FinishHandoff ==
  /\ changed # None /\ changed' = None
  /\ \E late \in Meanwhile : LeftBy(late)
  /\ UNCHANGED <<branch, capture, news>>

(* holistic mark-commit refreshes no session, and renews the snapshot: it  *)
(* takes the edits for committed.                                          *)
MarkCommit ==
  /\ \E late \in Meanwhile : LeftBy(late)
  /\ UNCHANGED <<branch, capture, changed, news>>

Command == Checkpoint \/ StartNew \/ FinishHandoff \/ MarkCommit

User == (\E f \in File : Edit(f)) \/ (\E b \in Branch : Switch(b)) \/ TwoHoursPass

Next == User \/ Tick \/ Command

Spec == Init /\ [][Next]_vars

(* Fairness: setInterval keeps the daemon ticking.  Users need not edit,   *)
(* switch or run anything; two hours may or may not pass.                  *)
FairSpec == Spec /\ WF_vars(Tick)

------------------------------------------------------------------------------

(* An edited file that no checkpoint and no mark-commit has taken in is    *)
(* one the next tick will see as changed, or one it has buffered, unless   *)
(* its last edit fell between a command's comparison and its snapshot.     *)
EditsTracked == owed \ missed \subseteq dirty \cup capture.pending

(* The same without the exception, which the code does not keep: the late  *)
(* edits are in the snapshot, and neither a session nor the buffer has     *)
(* them.                                                                   *)
LateEditsTracked == owed \subseteq dirty \cup capture.pending

(* The daemon checkpoints once per cause: after a checkpoint, repeated     *)
(* ticks do nothing until a file or the branch changes or two hours pass,  *)
(* whatever commands run in between.                                       *)
NoRefire == [][DaemonCheckpoint => news]_vars

(* Two hours after the daemon's last checkpoint the next one comes. *)
ElapsedLeadsToCheckpoint == capture.age = "old" ~> capture.age = "recent"

(* The session record names the files a quiet-point checkpoint is for. *)
CheckpointNamesFiles ==
  [][DaemonCheckpoint /\ Quiet => capture.pending \subseteq changed']_vars

==============================================================================
