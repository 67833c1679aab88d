--------------------------------- MODULE Daemon ---------------------------------
(***************************************************************************)
(* src/daemon.ts, main: the processes that run the ticks of                *)
(* PassiveCapture on one repository.  A daemon looks into daemon.pid,      *)
(* writes its own pid there, starts the Andon services and ticks; it dies  *)
(* when it is killed and when a tick waits in vain for the state lock, for *)
(* nothing catches what the timer's callback throws.  `--once` ticks       *)
(* without any of this.                                                    *)
(*                                                                         *)
(* A daemon is its pid, which can be given again once the daemon is dead.  *)
(* An empty daemon.pid counts as none.  The dashboard is started like the  *)
(* API, on a port of its own, and is left out.                             *)
(***************************************************************************)
EXTENDS PassiveCapture

CONSTANTS
  Pid,
  NoPid,
  Andon      \* whether the add-on is there and HOLISTIC_ANDON is not 0

ASSUME DaemonOK == NoPid \notin Pid /\ Andon \in BOOLEAN

VARIABLES
  at,        \* how far each daemon is
  pidFile,   \* whom daemon.pid names
  children,  \* the services that run, with the daemon that started each
  strays,    \* the services whose daemon has died
  raced      \* history: whether a daemon looked while another was about to write

daemonVars == <<at, pidFile, children, strays, raced>>
allVars == <<vars, daemonVars>>

Services == {"api", "writer"}

DaemonTypeOK ==
  /\ TypeOK
  /\ at \in [Pid -> {"off", "checked", "written", "running"}]
  /\ pidFile \in Pid \cup {NoPid}
  /\ children \subseteq Pid \X Services
  /\ strays \subseteq Services
  /\ raced \in BOOLEAN

DaemonInit ==
  /\ Init
  /\ at = [p \in Pid |-> "off"] /\ pidFile = NoPid
  /\ children = {} /\ strays = {} /\ raced = FALSE

------------------------------------------------------------------------------

(* Mutant: the file is trusted only while it is fresh, which it never is. *)
NeverRunning(p) == FALSE

(* The process the file names answers to a signal. *)
IsDaemonRunning(p) == pidFile \notin {NoPid, p} /\ at[pidFile] # "off"

(* A daemon that finds another one exits.  (So it does if the pid of a dead *)
(* one is somebody else's by now: it is not started.)                       *)
Check(p) ==
  /\ at[p] = "off" /\ ~IsDaemonRunning(p)
  /\ at' = [at EXCEPT ![p] = "checked"]
  /\ raced' = (raced \/ \E q \in Pid : at[q] = "checked")
  /\ UNCHANGED <<vars, pidFile, children, strays>>

WritePid(p) ==
  /\ at[p] = "checked" /\ at' = [at EXCEPT ![p] = "written"]
  /\ pidFile' = p
  /\ UNCHANGED <<vars, children, strays, raced>>

IsPortFree == "api" \notin strays /\ \A q \in Pid : <<q, "api">> \notin children

(* The API, if nothing listens on its port, and a writer in any case. *)
StartAndonServices(p) ==
  /\ at[p] = "written" /\ at' = [at EXCEPT ![p] = "running"]
  /\ children' = IF Andon
                 THEN children \cup {<<p, "writer">>}
                               \cup (IF IsPortFree THEN {<<p, "api">>} ELSE {})
                 ELSE children
  /\ UNCHANGED <<vars, pidFile, strays, raced>>

DaemonTick(p) == at[p] = "running" /\ Tick /\ UNCHANGED daemonVars

Once == Tick /\ UNCHANGED daemonVars

(* Nobody restarts a service, whatever it ended of. *)
ChildEnds ==
  /\ \/ \E c \in children : children' = children \ {c} /\ UNCHANGED strays
     \/ \E s \in strays : strays' = strays \ {s} /\ UNCHANGED children
  /\ UNCHANGED <<vars, at, pidFile, raced>>

ChildrenOf(p) == {c \in children : c[1] = p}

(* Killed, or its tick has thrown. *)
Die(p) ==
  /\ at[p] # "off" /\ at' = [at EXCEPT ![p] = "off"]
  /\ children' = children \ ChildrenOf(p)
  /\ strays' = strays \cup {c[2] : c \in ChildrenOf(p)}
  /\ UNCHANGED <<vars, pidFile, raced>>

(* SIGINT or SIGTERM, once there are handlers.  The file is removed         *)
(* whomever it names.                                                       *)
StopDaemon(p) ==
  /\ at[p] = "running" /\ at' = [at EXCEPT ![p] = "off"]
  /\ children' = children \ ChildrenOf(p)
  /\ pidFile' = NoPid
  /\ UNCHANGED <<vars, strays, raced>>

DaemonStep(p) ==
  \/ Check(p) \/ WritePid(p) \/ StartAndonServices(p) \/ DaemonTick(p)
  \/ Die(p) \/ StopDaemon(p)

DaemonNext ==
  \/ \E p \in Pid : DaemonStep(p)
  \/ Once
  \/ ChildEnds
  \/ (User \/ Command) /\ UNCHANGED daemonVars

DaemonSpec == DaemonInit /\ [][DaemonNext]_allVars

(* setInterval keeps a running daemon ticking.  Nobody has to start one. *)
FairDaemonSpec == DaemonSpec /\ \A p \in Pid : WF_allVars(DaemonTick(p))

------------------------------------------------------------------------------
(* One daemon per repository: as long as no two daemons have started into   *)
(* each other, at most one is past its start, the file names it, and no two *)
(* living daemons have a writer, however daemons died, stopped and were     *)
(* given pids of dead ones.  A dead one's writer goes on: see OneWriter.    *)
SoleOwner ==
  ~raced =>
    /\ \A p \in Pid : at[p] \in {"written", "running"} => pidFile = p
    /\ \A p, q \in Pid : <<p, "writer">> \in children /\ <<q, "writer">> \in children
                            => p = q

(* Once the user stops editing, and if a daemon runs on, every edited file  *)
(* gets its checkpoint or is marked as committed, however many daemons and  *)
(* one-shot ticks take turns; late edits apart.                             *)
QuietLeadsToCheckpoint ==
  /\ <>[][~\E f \in File : Edit(f)]_vars
  /\ \E p \in Pid : <>[](at[p] = "running")
  => \A f \in File : f \in owed \ missed ~> f \notin owed \ missed

(* No two writers report the sessions of a repository, for "the daemon is   *)
(* the sole owner per repo" (daemon.ts:417-418).  Those of dead daemons do. *)
OneWriter ==
  \A p \in Pid : <<p, "writer">> \in children =>
    "writer" \notin strays /\ \A q \in Pid : <<q, "writer">> \in children => q = p

=============================================================================
