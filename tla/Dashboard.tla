------------------------------- MODULE Dashboard -------------------------------
(***************************************************************************)
(* A page of apps/andon-dashboard on services/andon-api: the stream of     *)
(* updates that tells the page to load, the heartbeat by which it loads in *)
(* any case, and the requests, of which several are under way at once and  *)
(* are answered, aborted or broken in any order.                           *)
(*                                                                         *)
(* An event is posted and ingested in one step (AndonApi has them apart).  *)
(* There is one page, of one of three kinds; the detail page makes three   *)
(* requests that are answered one by one.  A stream whose loss only the    *)
(* server has noticed is not modelled, and the timeline and the context of *)
(* the detail page are left out.                                           *)
(***************************************************************************)
EXTENDS OperatorViews

CONSTANTS
  Reports,         \* what is posted: [session, type, note, from, task]
  PageKind,        \* the kinds of page
  Opened,          \* the session a detail page is of
  FetchMs, BeatMs, \* DEFAULT_FETCH_MS and useHeartbeat's interval
  Bound,           \* bounds for a kind of page: [posts: events, requests: those
                   \* under way when a message is handled, time: the clock]
  MaxFaults        \* bound: lost streams, failed requests and restarts

ASSUME DashboardOK ==
  /\ PageKind \subseteq {"board", "history", "detail"} /\ Opened \in Session
  /\ \A r \in Reports :
       r.session \in Session /\ r.type \in EventType /\ r.note \in Note
         /\ r.from \in Sender /\ r.task \in BOOLEAN
  /\ {FetchMs, BeatMs} \subseteq Nat \ {0} /\ MaxFaults \in Nat
  /\ Bound \in [PageKind -> [posts : Nat, requests : Nat, time : Nat \ {0}]]

VARIABLES
  now, stores,
  posts,      \* how many events there have been
  server,     \* [clients, due]: has stream clients; a broadcast is scheduled
  stream,     \* the page's EventSource: [open, mail]
  page,       \* [kind, data, error, idle]
  requests,   \* loads under way
  received,   \* the most events an answer the page has received was made from
  faults

vars == <<now, stores, posts, server, stream, page, requests, received, faults>>

(* The data are what the last answer to arrive showed, if any did. *)
ShowsData == page.data # <<>> /\ ~page.error

TypeOK ==
  /\ page.kind \in PageKind /\ page.idle \in 0..BeatMs
  /\ now \in 1..Bound[page.kind].time /\ posts \in 0..Bound[page.kind].posts
  /\ faults \in 0..MaxFaults
  /\ server \in [clients : BOOLEAN, due : BOOLEAN]
  /\ stream.open \in BOOLEAN /\ stream.mail \in 0..(Bound[page.kind].posts + 1)
  /\ \A r \in requests :
       /\ r.at <= now /\ r.servedAt <= now /\ r.seen <= posts
       /\ r.stage \in {"sent", "answered", "stalled"}
  /\ ~ShowsData /\ ~page.error => requests # {}

------------------------------------------------------------------------------
(* A page that waits for its first answer, before its stream is open; the   *)
(* database is new or holds a question from before rows were made.          *)

NewRequest(number) ==
  [number |-> number, at |-> now, servedAt |-> 0, seen |-> 0, broken |-> FALSE,
   stage |-> "sent", answers |-> << >>]

OldStore ==
  [EmptyStore EXCEPT
     !.session = [known |-> TRUE, startedAt |-> 1, endedAt |-> 0, lastEventAt |-> 1],
     !.events = {[id |-> 0, type |-> "agent.question_asked", note |-> "unresolved",
                  at |-> 1]}]

Init ==
  /\ now = 1 /\ posts = 0 /\ received = 0 /\ faults = 0
  /\ \E old \in {EmptyStore, OldStore} :
       stores = [s \in Session |-> IF s = Opened THEN old ELSE EmptyStore]
  /\ server = [clients |-> FALSE, due |-> FALSE]
  /\ stream = [open |-> FALSE, mail |-> 0]
  /\ \E kind \in PageKind :
       page = [kind |-> kind, data |-> <<>>, error |-> FALSE, idle |-> 0]
  /\ requests = {NewRequest(1)}

------------------------------------------------------------------------------
(* The server's side of the stream. *)

(* POST /events and the callbacks.  A broadcast is scheduled if somebody    *)
(* listens; another one before it is sent replaces it.                      *)
Post(report) ==
  /\ posts < Bound[page.kind].posts /\ posts' = posts + 1
  /\ stores' = [stores EXCEPT ![report.session] =
       IngestEvents(@, <<[id |-> posts + 1, at |-> now, type |-> report.type,
                          note |-> report.note, from |-> report.from,
                          task |-> report.task]>>)]
  /\ server' = [server EXCEPT !.due = @ \/ server.clients]
  /\ UNCHANGED <<now, stream, page, requests, received, faults>>

Broadcast ==
  /\ server.due
  /\ server' = [server EXCEPT !.due = FALSE]
  /\ stream' = [stream EXCEPT !.mail = IF stream.open THEN @ + 1 ELSE @]
  /\ UNCHANGED <<now, stores, posts, page, requests, received, faults>>

(* Mutant: a new client hears of later updates only. *)
NoGreeting == 0

(* "connected", and the broadcast to all clients on its heels: two messages *)
(* between which nothing is posted, counted as one.                         *)
Greeting == 1

(* EventSource opens the stream, and again after it has broken. *)
Connect ==
  /\ ~stream.open
  /\ stream' = [open |-> TRUE, mail |-> Greeting]
  /\ server' = [server EXCEPT !.clients = TRUE]
  /\ UNCHANGED <<now, stores, posts, page, requests, received, faults>>

(* The server may notice at once or keep the dead client. *)
Disconnect(noticed) ==
  /\ stream.open /\ faults < MaxFaults /\ faults' = faults + 1
  /\ stream' = [open |-> FALSE, mail |-> 0]
  /\ server' = [server EXCEPT !.clients = ~noticed]
  /\ UNCHANGED <<now, stores, posts, page, requests, received>>

ApiRestart ==
  /\ faults < MaxFaults /\ faults' = faults + 1
  /\ stores' = [s \in Session |-> Reconciled(stores[s], now)]
  /\ server' = [clients |-> FALSE, due |-> FALSE]
  /\ stream' = [open |-> FALSE, mail |-> 0]
  /\ requests' = {[r EXCEPT !.broken = TRUE] : r \in requests}
  /\ UNCHANGED <<now, posts, page, received>>

------------------------------------------------------------------------------
(* The page loads.  The board's heartbeat is set up anew whenever the page  *)
(* is rendered, for its callback is; the other pages' runs on.              *)

Rendered(p) == IF p.kind = "board" THEN [p EXCEPT !.idle = 0] ELSE p

LoadData(p) ==
  LET used == {r.number : r \in requests}
      cleared == [p EXCEPT !.error = FALSE]
  IN /\ requests' = requests \cup
          {NewRequest(CHOOSE n \in 1..(Cardinality(used) + 1) : n \notin used)}
     /\ page' = IF p.error THEN Rendered(cleared) ELSE cleared

OnMessage ==
  /\ stream.open /\ stream.mail > 0 /\ Cardinality(requests) < Bound[page.kind].requests
  /\ stream' = [stream EXCEPT !.mail = @ - 1]
  /\ LoadData(page)
  /\ UNCHANGED <<now, stores, posts, server, received, faults>>

Beat ==
  /\ page.idle = BeatMs
  /\ LoadData([page EXCEPT !.idle = 0])
  /\ UNCHANGED <<now, stores, posts, server, stream, received, faults>>

Retry ==
  /\ page.error
  /\ LoadData(page)
  /\ UNCHANGED <<now, stores, posts, server, stream, received, faults>>

------------------------------------------------------------------------------
(* What becomes of a request. *)

Parts ==
  CASE page.kind = "board" -> {"mission-control"}
    [] page.kind = "history" -> {"history"}
    [] page.kind = "detail" -> {"mission-control", "history", "detail"}

(* What the page will read of an answer: the detail page its session only,  *)
(* and nothing of the lists once it has the detail.                         *)
ReadsOf(answer) ==
  LET IsOpened(item) == item.id = Opened
  IN IF page.kind = "detail" THEN SelectSeq(answer.sessions, IsOpened) ELSE answer

Needed(answers) ==
  IF "detail" \in DOMAIN answers /\ answers["detail"] # <<>>
  THEN [part \in DOMAIN answers |-> IF part = "detail" THEN answers[part] ELSE <<>>]
  ELSE answers

With(answers, part, answer) ==
  [p \in DOMAIN answers \cup {part} |-> IF p = part THEN answer ELSE answers[p]]

Serve(r, part) ==
  /\ r \in requests /\ ~r.broken /\ part \in Parts \ DOMAIN r.answers
  /\ LET first == r.servedAt = 0
         answer == CASE part = "mission-control" -> ReadsOf(MissionControl(stores, now))
                     [] part = "history" -> ReadsOf(History(stores, now))
                     [] part = "detail" -> SessionDetail(stores, Opened, now)
     IN requests' = (requests \ {r}) \cup
          {[r EXCEPT !.answers = Needed(With(@, part, answer)),
                     !.servedAt = IF first THEN now ELSE @,
                     !.seen = IF first THEN posts ELSE @]}
  /\ UNCHANGED <<now, stores, posts, server, stream, page, received, faults>>

(* Mutant: a request waits for its headers for as long as it takes. *)
NeverAborted(r) == FALSE

(* Each fetch is aborted if its headers are not in by then. *)
TimedOut(r) == r.stage = "sent" /\ now - r.at >= FetchMs

(* The page can do without the detail. *)
LoseDetail(r) ==
  /\ r \in requests /\ page.kind = "detail" /\ "detail" \notin DOMAIN r.answers
  /\ \/ (TimedOut(r) \/ r.broken) /\ UNCHANGED faults
     \/ faults < MaxFaults /\ faults' = faults + 1
  /\ requests' = (requests \ {r}) \cup
                 {[r EXCEPT !.answers = With(@, "detail", <<>>)]}
  /\ UNCHANGED <<now, stores, posts, server, stream, page, received>>

(* The headers of every answer are in, and no timer is left: the bodies may *)
(* take any time.                                                           *)
Answered(r) ==
  /\ r \in requests /\ r.stage = "sent" /\ DOMAIN r.answers = Parts
  /\ requests' = (requests \ {r}) \cup {[r EXCEPT !.stage = "answered"]}
  /\ UNCHANGED <<now, stores, posts, server, stream, page, received, faults>>

View(answers) ==
  CASE page.kind = "board" -> BoardViewModel(answers["mission-control"])
    [] page.kind = "history" -> HistorySessions(answers["history"].sessions)
    [] page.kind = "detail" ->
         IF answers["detail"] # <<>> THEN answers["detail"]
         ELSE FindProjectionSession(Opened, <<answers["mission-control"],
                                              answers["history"]>>)

(* Mutant: the failed load is forgotten. *)
StaysSilent(p) == p

(* A page that says so already may be told in the same words. *)
ShowsError(p) ==
  IF p.error THEN p ELSE Rendered([p EXCEPT !.error = TRUE])

(* Data from an older answer replace newer ones, and an error stays. *)
Receive(r) ==
  /\ r \in requests /\ r.stage # "sent"
  /\ requests' = requests \ {r}
  /\ LET view == View(r.answers)
     IN IF page.kind = "detail" /\ view = <<>>
        THEN page' = ShowsError(page) /\ UNCHANGED received
        ELSE /\ page' = Rendered([page EXCEPT
                          !.data = <<[view |-> view, servedAt |-> r.servedAt,
                                      seen |-> r.seen, late |-> r.stage = "stalled"]>>])
             /\ received' = IF r.seen > received THEN r.seen ELSE received
  /\ UNCHANGED <<now, stores, posts, server, stream, faults>>

Fail(r) ==
  /\ r \in requests
  /\ \/ (TimedOut(r) \/ r.broken) /\ UNCHANGED faults
     \/ faults < MaxFaults /\ faults' = faults + 1
  /\ requests' = requests \ {r}
  /\ page' = ShowsError(page)
  /\ UNCHANGED <<now, stores, posts, server, stream, received>>

(* The browser's timers fire when they are due; nothing ends the wait for a *)
(* body.                                                                    *)
TimePasses ==
  /\ now < Bound[page.kind].time /\ page.idle < BeatMs
  /\ \A r \in requests : ~TimedOut(r)
  /\ now' = now + 1
  /\ page' = [page EXCEPT !.idle = @ + 1]
  /\ requests' = {IF r.stage = "sent" THEN r ELSE [r EXCEPT !.stage = "stalled"] :
                    r \in requests}
  /\ UNCHANGED <<stores, posts, server, stream, received, faults>>

Next ==
  \/ \E report \in Reports : Post(report)
  \/ Broadcast \/ Connect \/ ApiRestart
  \/ \E noticed \in BOOLEAN : Disconnect(noticed)
  \/ OnMessage \/ Beat \/ Retry
  \/ \E r \in requests :
       \/ \E part \in Parts : Serve(r, part)
       \/ LoseDetail(r) \/ Answered(r) \/ Receive(r) \/ Fail(r)
  \/ TimePasses

Spec == Init /\ [][Next]_vars

------------------------------------------------------------------------------
(* What a page shows while it is not loading was true within a fetch and a  *)
(* heartbeat, whatever was lost, delayed or overtaken, unless it came with  *)
(* a body that was waited for.                                              *)
PageIsRecent ==
  ShowsData /\ requests = {} /\ ~page.data[1].late =>
    now - page.data[1].servedAt <= FetchMs + BeatMs

(* The same of every body. *)
AnswersAreRecent ==
  ShowsData /\ requests = {} => now - page.data[1].servedAt <= FetchMs + BeatMs

(* No update is lost between the event and the page: when the stream is     *)
(* open and everything that was under way has arrived, the page has been    *)
(* sent an answer with every event in it.  (It shows that answer unless an  *)
(* older one overtook it; then it shows it with the next heartbeat.)        *)
NoUpdateLost ==
  stream.open /\ stream.mail = 0 /\ ~server.due /\ requests = {} /\ ShowsData
    => received = posts

(* On the board, the cards that ask for something come before the others,  *)
(* and those that somebody waits behind come first of all.                  *)
DemandsFirst ==
  page.kind = "board" /\ page.data # <<>> =>
    LET cards == page.data[1].view.cards
    IN \A i, j \in DOMAIN cards :
         i < j => /\ cards[j].action => cards[i].action
                  /\ cards[j].primary = "waiting_on_human_input" =>
                       cards[i].primary = "waiting_on_human_input"

=============================================================================
