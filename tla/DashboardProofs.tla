----------------------------- MODULE DashboardProofs -----------------------------
(***************************************************************************)
(* Proofs about Dashboard, for any reports, kinds of page, intervals,      *)
(* bounds and faults: its type invariant, that a page at rest shows what   *)
(* was true within a fetch and a heartbeat unless it waited for a body,    *)
(* that no update is lost between the event and the page, and that the     *)
(* board's cards are in the order in which they ask for something.         *)
(***************************************************************************)
EXTENDS Dashboard, AndonIngestProofs, FiniteSetTheorems

(* A request under way is not late unless it stalls over a body, was served *)
(* after it was sent, and has been served if any part but the detail has    *)
(* been answered.                                                           *)
RequestOK(r, n, p) ==
  /\ DOMAIN r = {"number", "at", "servedAt", "seen", "broken", "stage", "answers"}
  /\ r.at \in 1..n /\ r.servedAt \in 0..n /\ r.seen \in 0..p
  /\ r.stage \in {"sent", "answered", "stalled"}
  /\ r.stage # "stalled" => n - r.at <= FetchMs
  /\ r.stage # "sent" => r.servedAt # 0
  /\ r.servedAt # 0 => r.servedAt >= r.at
  /\ r.servedAt = 0 => DOMAIN r.answers \subseteq {"detail"}

PageOK(p, n) ==
  /\ DOMAIN p = {"kind", "data", "error", "idle"}
  /\ p.kind \in PageKind /\ p.error \in BOOLEAN /\ p.idle \in 0..BeatMs
  /\ p.data # <<>> => p.data[1].servedAt \in 0..n

(* A message stands for an event, or greets; a scheduled broadcast is one   *)
(* more of them.                                                            *)
StreamOK ==
  /\ server \in [clients : BOOLEAN, due : BOOLEAN]
  /\ stream \in [open : BOOLEAN, mail : Nat]
  /\ stream.mail <= posts + 1
  /\ server.due => posts > 0 /\ stream.mail <= posts
  /\ stream.open => server.clients

Typed ==
  /\ now \in 1..Bound[page.kind].time /\ posts \in 0..Bound[page.kind].posts
  /\ faults \in 0..MaxFaults /\ received \in 0..posts
  /\ PageOK(page, now) /\ StreamOK
  /\ \A r \in requests : RequestOK(r, now, posts)
  /\ page.data = <<>> /\ ~page.error => requests # {}

(* What is at rest and was not waited for was answered no longer ago than a *)
(* fetch, when it came, and the heartbeat has counted since.                *)
Fresh ==
  requests = {} /\ ShowsData /\ ~page.data[1].late =>
    now - page.data[1].servedAt <= FetchMs + page.idle

(* While the stream is open the news is somewhere: scheduled, in the mail,  *)
(* in a request that has not been served or was served with all of it, at   *)
(* the page, or the page says that it could not load.                       *)
Bears(r) == r.servedAt = 0 \/ r.seen = posts
Underway ==
  stream.open /\ ~page.error =>
    server.due \/ stream.mail > 0 \/ received = posts \/ \E r \in requests : Bears(r)

IInv == Typed /\ Fresh /\ Underway

LEMMA Numbers ==
  ASSUME NEW kind \in PageKind
  PROVE  /\ Bound[kind].time \in Nat \ {0} /\ Bound[kind].posts \in Nat
         /\ FetchMs \in Nat \ {0} /\ BeatMs \in Nat \ {0} /\ MaxFaults \in Nat
  BY DashboardOK

LEMMA Promises == IInv => TypeOK /\ PageIsRecent /\ NoUpdateLost
<1> SUFFICES ASSUME IInv PROVE TypeOK /\ PageIsRecent /\ NoUpdateLost
  OBVIOUS
<1>1. /\ page.kind \in PageKind /\ page.idle \in 0..BeatMs /\ BeatMs \in Nat
      /\ now \in Nat /\ posts \in Nat /\ posts <= Bound[page.kind].posts
      /\ FetchMs \in Nat /\ Bound[page.kind].posts \in Nat
  BY Numbers DEF IInv, Typed, PageOK
<1>2. TypeOK
  <2>1. \A r \in requests :
          /\ r.at <= now /\ r.servedAt <= now /\ r.seen <= posts
          /\ r.stage \in {"sent", "answered", "stalled"}
    BY <1>1 DEF IInv, Typed, RequestOK
  <2>2. ~ShowsData /\ ~page.error => requests # {}
    BY DEF IInv, Typed, ShowsData
  <2>3. stream.open \in BOOLEAN /\ stream.mail \in 0..(Bound[page.kind].posts + 1)
    BY <1>1 DEF IInv, Typed, StreamOK
  <2> QED
    BY <1>1, <2>1, <2>2, <2>3 DEF IInv, Typed, StreamOK, TypeOK
<1>3. PageIsRecent
  <2> SUFFICES ASSUME ShowsData, requests = {}, ~page.data[1].late
               PROVE  now - page.data[1].servedAt <= FetchMs + BeatMs
    BY DEF PageIsRecent
  <2>1. page.data[1].servedAt \in Nat
    BY <1>1 DEF IInv, Typed, PageOK, ShowsData
  <2>2. now - page.data[1].servedAt <= FetchMs + page.idle
    BY DEF IInv, Fresh
  <2> QED
    BY <1>1, <2>1, <2>2
<1>4. NoUpdateLost
  BY DEF IInv, Underway, NoUpdateLost, ShowsData
<1> QED
  BY <1>2, <1>3, <1>4

LEMMA Starts == Init => IInv
<1> SUFFICES ASSUME Init PROVE IInv
  OBVIOUS
<1>1. PICK kind \in PageKind : page = [kind |-> kind, data |-> <<>>, error |-> FALSE, idle |-> 0]
  BY DEF Init
<1>2. /\ now = 1 /\ posts = 0 /\ received = 0 /\ faults = 0
      /\ server = [clients |-> FALSE, due |-> FALSE]
      /\ stream = [open |-> FALSE, mail |-> 0] /\ requests = {NewRequest(1)}
  BY DEF Init
<1>3. RequestOK(NewRequest(1), 1, 0)
  BY <1>2, <1>1, Numbers DEF RequestOK, NewRequest
<1>4. PageOK(page, 1) /\ StreamOK
  BY <1>1, <1>2, Numbers DEF PageOK, StreamOK
<1>5. Typed
  BY <1>1, <1>2, <1>3, <1>4, Numbers DEF Typed
<1>6. Fresh /\ Underway
  BY <1>1, <1>2 DEF Fresh, Underway
<1> QED
  BY <1>5, <1>6 DEF IInv


------------------------------------------------------------------------------
(* A load, however it comes about: a request that has not been served joins *)
(* the others, and an error is forgotten.                                   *)
LEMMA Loads ==
  ASSUME IInv, NEW p, PageOK(p, now), p.kind = page.kind, p.data = page.data,
         p.error = page.error, LoadData(p),
         now' = now, posts' = posts, received' = received, faults' = faults, StreamOK'
  PROVE  IInv'
<1>1. PICK number : requests' = requests \cup {NewRequest(number)}
  BY DEF LoadData
<1>2. RequestOK(NewRequest(number), now, posts) /\ Bears(NewRequest(number))
  <2>1. now \in 1..Bound[page.kind].time /\ posts \in Nat /\ page.kind \in PageKind
    BY Numbers DEF IInv, Typed, PageOK
  <2> QED
    BY <2>1, Numbers DEF RequestOK, NewRequest, Bears
<1>3. PageOK(page', now) /\ page'.kind = page.kind /\ page'.data = page.data /\ ~page'.error
  <2> DEFINE cleared == [p EXCEPT !.error = FALSE]
  <2>1. 0 \in 0..BeatMs
    BY Numbers DEF PageOK
  <2>2. PageOK(cleared, now) /\ cleared.kind = p.kind /\ cleared.data = p.data /\ ~cleared.error
    BY DEF PageOK
  <2>3. page' = IF p.error THEN Rendered(cleared) ELSE cleared
    BY DEF LoadData
  <2> HIDE DEF cleared
  <2>4. page' \in {cleared, [cleared EXCEPT !.idle = 0]}
    BY <2>3 DEF Rendered
  <2> QED
    BY <2>1, <2>2, <2>4 DEF PageOK
<1>4. Typed'
  BY <1>1, <1>2, <1>3 DEF IInv, Typed
<1>5. Fresh'
  BY <1>1 DEF Fresh
<1>6. Underway'
  BY <1>1, <1>2 DEF Underway, Bears
<1> QED
  BY <1>4, <1>5, <1>6 DEF IInv

(* A request is served, or one of its parts is lost. *)
LEMMA Answers ==
  ASSUME IInv, NEW r \in requests, NEW q, RequestOK(q, now, posts), Bears(r) => Bears(q),
         requests' = (requests \ {r}) \cup {q},
         now' = now, posts' = posts, received' = received, faults' \in 0..MaxFaults,
         page' = page, server' = server, stream' = stream
  PROVE  IInv'
<1>1. Typed'
  BY DEF IInv, Typed, StreamOK
<1>2. Fresh' /\ Underway'
  BY DEF IInv, Fresh, Underway, Bears, ShowsData
<1> QED
  BY <1>1, <1>2 DEF IInv

(* A load has failed. *)
LEMMA ErrorShown ==
  ASSUME IInv, NEW r \in requests, requests' = requests \ {r}, page' = ShowsError(page),
         now' = now, posts' = posts, received' = received, faults' \in 0..MaxFaults,
         server' = server, stream' = stream
  PROVE  IInv'
<1>1. /\ PageOK(page', now) /\ page'.kind = page.kind /\ page'.data = page.data
      /\ page'.error
  <2>1. PageOK(page, now) /\ 0 \in 0..BeatMs
    BY Numbers DEF IInv, Typed, PageOK
  <2> QED
    BY <2>1 DEF ShowsError, Rendered, PageOK
<1>2. Typed'
  BY <1>1 DEF IInv, Typed, StreamOK
<1>3. Fresh' /\ Underway'
  BY <1>1 DEF Fresh, Underway, ShowsData
<1> QED
  BY <1>2, <1>3 DEF IInv

LEMMA ReceiveStep ==
  ASSUME IInv, NEW r, Receive(r)
  PROVE  IInv'
<1>1. /\ r \in requests /\ requests' = requests \ {r} /\ r.stage # "sent"
      /\ now' = now /\ posts' = posts /\ server' = server /\ stream' = stream
      /\ faults' = faults
  BY DEF Receive
<1>2. /\ now \in Nat /\ posts \in Nat /\ received \in 0..posts /\ page.kind \in PageKind
      /\ FetchMs \in Nat /\ BeatMs \in Nat /\ faults \in 0..MaxFaults
      /\ PageOK(page, now) /\ RequestOK(r, now, posts)
  BY <1>1, Numbers DEF IInv, Typed, PageOK
<1>3. /\ r.servedAt # 0 /\ r.servedAt \in 0..now
      /\ r.stage # "stalled" => now - r.servedAt <= FetchMs
  BY <1>1, <1>2 DEF RequestOK
<1> DEFINE view == View(r.answers)
           datum == [view |-> view, servedAt |-> r.servedAt, seen |-> r.seen,
                     late |-> r.stage = "stalled"]
<1>4. CASE page.kind = "detail" /\ view = <<>>
  BY <1>1, <1>2, <1>4, ErrorShown DEF Receive
<1>5. CASE ~(page.kind = "detail" /\ view = <<>>)
  <2>1. /\ page' = Rendered([page EXCEPT !.data = <<datum>>])
        /\ received' = IF r.seen > received THEN r.seen ELSE received
    BY <1>5 DEF Receive
  <2>2. datum.servedAt = r.servedAt /\ (r.stage = "stalled" => datum.late)
    OBVIOUS
  <2> HIDE DEF datum
  <2>3. /\ DOMAIN page' = DOMAIN page /\ page'.kind = page.kind /\ page'.error = page.error
        /\ page'.data = <<datum>> /\ page'.idle \in 0..BeatMs
    BY <1>2, <2>1 DEF Rendered, PageOK
  <2>4. /\ page'.data[1].servedAt = r.servedAt /\ page'.data # <<>>
        /\ r.stage = "stalled" => page'.data[1].late
    BY <2>2, <2>3
  <2>5. PageOK(page', now)
    BY <1>2, <1>3, <2>3, <2>4 DEF PageOK
  <2>6. received' \in 0..posts /\ received' >= received /\ received' >= r.seen
    BY <1>2, <2>1 DEF RequestOK
  <2>7. Typed'
    BY <1>1, <1>2, <2>3, <2>4, <2>5, <2>6 DEF IInv, Typed, StreamOK
  <2>8. Fresh'
    <3> SUFFICES ASSUME ~page'.data[1].late
                 PROVE  now' - page'.data[1].servedAt <= FetchMs + page'.idle
      BY DEF Fresh
    <3>1. now - r.servedAt <= FetchMs
      BY <1>3, <2>4
    <3>2. page'.idle \in Nat /\ now - r.servedAt \in Int
      BY <1>2, <1>3, <2>3
    <3> QED
      BY <1>1, <1>2, <2>4, <3>1, <3>2
  <2>9. Underway'
    <3> SUFFICES ASSUME stream.open, ~page.error, ~server.due, ~(stream.mail > 0),
                        received' # posts
                 PROVE  \E q \in requests' : q.servedAt = 0 \/ q.seen = posts
      BY <1>1, <2>3 DEF Underway, Bears
    <3>1. received # posts /\ r.seen # posts
      BY <1>2, <2>6 DEF RequestOK
    <3>2. PICK q \in requests : Bears(q)
      BY <3>1 DEF IInv, Underway
    <3> QED
      BY <1>1, <1>3, <3>1, <3>2 DEF Bears
  <2> QED
    BY <2>7, <2>8, <2>9 DEF IInv
<1> QED
  BY <1>4, <1>5

LEMMA Streams ==
  ASSUME StreamOK, posts' = posts, posts \in Nat,
         server' \in [clients : BOOLEAN, due : BOOLEAN],
         stream' \in [open : BOOLEAN, mail : Nat],
         server'.due => server.due,
         stream'.mail <= posts + 1, server'.due => stream'.mail <= posts,
         stream'.open => server'.clients
  PROVE  StreamOK'
  BY DEF StreamOK

(* What a moment does to a request. *)
Waits(r) == IF r.stage = "sent" THEN r ELSE [r EXCEPT !.stage = "stalled"]

LEMMA Steps == IInv /\ [Next]_vars => IInv'
<1> SUFFICES ASSUME IInv, [Next]_vars PROVE IInv'
  OBVIOUS
<1>1. /\ now \in 1..Bound[page.kind].time /\ posts \in 0..Bound[page.kind].posts
      /\ page.kind \in PageKind /\ now \in Nat /\ posts \in Nat /\ faults \in 0..MaxFaults
      /\ Bound[page.kind].posts \in Nat /\ Bound[page.kind].time \in Nat
      /\ FetchMs \in Nat /\ BeatMs \in Nat \ {0} /\ MaxFaults \in Nat
      /\ PageOK(page, now) /\ StreamOK /\ received \in 0..posts
      /\ \A r \in requests : RequestOK(r, now, posts)
  BY Numbers DEF IInv, Typed, PageOK
<1>2. ASSUME NEW report \in Reports, Post(report) PROVE IInv'
  <2>1. /\ posts' = posts + 1 /\ posts < Bound[page.kind].posts
        /\ server' = [server EXCEPT !.due = @ \/ server.clients]
        /\ now' = now /\ stream' = stream /\ page' = page /\ requests' = requests
        /\ received' = received /\ faults' = faults
    BY <1>2 DEF Post
  <2>2. StreamOK'
    BY <1>1, <2>1 DEF StreamOK
  <2>3. \A r \in requests : RequestOK(r, now, posts + 1)
    BY <1>1 DEF RequestOK
  <2>4. Typed'
    BY <1>1, <2>1, <2>2, <2>3 DEF IInv, Typed
  <2>5. Fresh'
    BY <2>1 DEF IInv, Fresh, ShowsData
  <2>6. Underway'
    BY <1>1, <2>1 DEF Underway, StreamOK
  <2> QED
    BY <2>4, <2>5, <2>6 DEF IInv
<1>3. ASSUME UNCHANGED <<now, posts, page, received>>, faults' \in 0..MaxFaults, StreamOK',
             \/ requests' = requests
             \/ requests' = {[r EXCEPT !.broken = TRUE] : r \in requests},
             stream'.open => (server'.due \/ stream'.mail > 0)
      PROVE  IInv'
  <2>1. \A r \in requests' : RequestOK(r, now, posts)
    <3>1. \A r \in requests : RequestOK([r EXCEPT !.broken = TRUE], now, posts)
      BY <1>1 DEF RequestOK
    <3> QED
      BY <1>1, <1>3, <3>1
  <2>2. requests' = {} <=> requests = {}
    BY <1>3
  <2>3. Typed'
    BY <1>3, <2>1, <2>2 DEF IInv, Typed
  <2>4. Fresh' /\ Underway'
    BY <1>3, <2>2 DEF IInv, Fresh, Underway, ShowsData
  <2> QED
    BY <2>3, <2>4 DEF IInv
<1>4. CASE Broadcast
  <2>1. /\ server.due /\ server' = [server EXCEPT !.due = FALSE]
        /\ stream' = [stream EXCEPT !.mail = IF stream.open THEN @ + 1 ELSE @]
        /\ UNCHANGED <<now, posts, page, requests, received, faults>>
    BY <1>4 DEF Broadcast
  <2>2. /\ server' \in [clients : BOOLEAN, due : BOOLEAN] /\ ~server'.due
        /\ server'.clients = server.clients
    BY <1>1, <2>1 DEF StreamOK
  <2>3. stream \in [open : BOOLEAN, mail : Nat] /\ stream.mail <= posts
    BY <1>1, <2>1 DEF StreamOK
  <2>4. /\ stream' \in [open : BOOLEAN, mail : Nat] /\ stream'.open = stream.open
        /\ stream'.mail = IF stream.open THEN stream.mail + 1 ELSE stream.mail
    BY <2>1, <2>3
  <2>5. stream'.mail <= posts + 1 /\ (stream'.open => stream'.mail > 0)
    BY <1>1, <2>3, <2>4
  <2>6. stream'.open => server'.clients
    BY <1>1, <2>2, <2>4 DEF StreamOK
  <2>7. StreamOK'
    BY <1>1, <2>1, <2>2, <2>4, <2>5, <2>6, Streams
  <2> QED
    BY <1>1, <1>3, <2>1, <2>5, <2>7
<1>5. CASE Connect
  <2>1. /\ stream' = [open |-> TRUE, mail |-> 1]
        /\ server' = [server EXCEPT !.clients = TRUE]
        /\ UNCHANGED <<now, posts, page, requests, received, faults>>
    BY <1>5 DEF Connect, Greeting
  <2>2. /\ server' \in [clients : BOOLEAN, due : BOOLEAN]
        /\ server'.clients /\ server'.due = server.due
        /\ stream' \in [open : BOOLEAN, mail : Nat] /\ stream'.mail = 1
    BY <1>1, <2>1 DEF StreamOK
  <2>3. (server'.due => server.due) /\ (server'.due => stream'.mail <= posts)
    BY <1>1, <2>2 DEF StreamOK
  <2>4. StreamOK'
    BY <1>1, <2>1, <2>2, <2>3, Streams
  <2> QED
    BY <1>1, <1>3, <2>1, <2>2, <2>4
<1>6. ASSUME NEW noticed \in BOOLEAN, Disconnect(noticed) PROVE IInv'
  <2>1. /\ faults' \in 0..MaxFaults
        /\ stream' = [open |-> FALSE, mail |-> 0]
        /\ server' = [server EXCEPT !.clients = ~noticed]
        /\ UNCHANGED <<now, posts, page, requests, received>>
    BY <1>1, <1>6 DEF Disconnect
  <2>2. /\ server' \in [clients : BOOLEAN, due : BOOLEAN] /\ server'.due = server.due
        /\ stream' \in [open : BOOLEAN, mail : Nat] /\ stream'.mail = 0 /\ ~stream'.open
    BY <1>1, <2>1 DEF StreamOK
  <2>3. server'.due => server.due
    BY <2>2
  <2>4. StreamOK'
    BY <1>1, <2>1, <2>2, <2>3, Streams
  <2> QED
    BY <1>3, <2>1, <2>2, <2>4
<1>7. CASE ApiRestart
  <2>1. /\ faults' \in 0..MaxFaults
        /\ stream' = [open |-> FALSE, mail |-> 0]
        /\ server' = [clients |-> FALSE, due |-> FALSE]
        /\ requests' = {[r EXCEPT !.broken = TRUE] : r \in requests}
        /\ UNCHANGED <<now, posts, page, received>>
    BY <1>1, <1>7 DEF ApiRestart
  <2>2. StreamOK' /\ ~stream'.open
    BY <1>1, <2>1 DEF StreamOK
  <2> QED
    BY <1>3, <2>1, <2>2
<1>8. CASE OnMessage
  <2>1. /\ stream.mail > 0 /\ stream' = [stream EXCEPT !.mail = @ - 1] /\ LoadData(page)
        /\ UNCHANGED <<now, posts, server, received, faults>>
    BY <1>8 DEF OnMessage
  <2>2. StreamOK'
    BY <1>1, <2>1 DEF StreamOK
  <2> QED
    BY <1>1, <2>1, <2>2, Loads
<1>9. CASE Beat
  <2>1. /\ LoadData([page EXCEPT !.idle = 0])
        /\ UNCHANGED <<now, posts, server, stream, received, faults>>
    BY <1>9 DEF Beat
  <2> DEFINE p == [page EXCEPT !.idle = 0]
  <2>2. PageOK(p, now) /\ p.kind = page.kind /\ p.data = page.data /\ p.error = page.error
    BY <1>1 DEF PageOK
  <2>3. StreamOK'
    BY <1>1, <2>1 DEF StreamOK
  <2> HIDE DEF p
  <2> QED
    BY <2>1, <2>2, <2>3, Loads DEF p
<1>10. CASE Retry
  <2>1. LoadData(page) /\ UNCHANGED <<now, posts, server, stream, received, faults>>
    BY <1>10 DEF Retry
  <2>2. StreamOK'
    BY <1>1, <2>1 DEF StreamOK
  <2> QED
    BY <1>1, <2>1, <2>2, Loads
<1>11. ASSUME NEW r \in requests, NEW part \in Parts, Serve(r, part) PROVE IInv'
  <2>1. PICK answers :
          /\ requests' = (requests \ {r}) \cup
               {[r EXCEPT !.answers = answers,
                          !.servedAt = IF r.servedAt = 0 THEN now ELSE @,
                          !.seen = IF r.servedAt = 0 THEN posts ELSE @]}
          /\ UNCHANGED <<now, posts, server, stream, page, received, faults>>
    BY <1>11 DEF Serve
  <2> DEFINE q == [r EXCEPT !.answers = answers,
                            !.servedAt = IF r.servedAt = 0 THEN now ELSE @,
                            !.seen = IF r.servedAt = 0 THEN posts ELSE @]
  <2>2. RequestOK(r, now, posts) /\ now > 0
    BY <1>1
  <2>3. RequestOK(q, now, posts) /\ (Bears(r) => Bears(q))
    BY <1>1, <2>2 DEF RequestOK, Bears
  <2>4. requests' = (requests \ {r}) \cup {q}
    BY <2>1
  <2> HIDE DEF q
  <2> QED
    BY <1>1, <2>1, <2>3, <2>4, Answers
<1>12. ASSUME NEW r \in requests, LoseDetail(r) PROVE IInv'
  <2> DEFINE answers == With(r.answers, "detail", <<>>)
             q == [r EXCEPT !.answers = answers]
  <2>1. /\ requests' = (requests \ {r}) \cup {q}
        /\ UNCHANGED <<now, posts, server, stream, page, received>>
    BY <1>12 DEF LoseDetail
  <2>2. faults' \in 0..MaxFaults
    BY <1>1, <1>12 DEF LoseDetail
  <2>3. DOMAIN answers = DOMAIN r.answers \cup {"detail"}
    BY DEF With
  <2>4. RequestOK(r, now, posts)
    BY <1>1
  <2> HIDE DEF answers
  <2>5. RequestOK(q, now, posts) /\ (Bears(r) => Bears(q))
    BY <2>3, <2>4 DEF RequestOK, Bears
  <2> HIDE DEF q
  <2> QED
    BY <2>1, <2>2, <2>5, Answers
<1>13. ASSUME NEW r \in requests, Answered(r) \/ Receive(r) PROVE IInv'
  <2>1. CASE Receive(r)
    BY <2>1, ReceiveStep
  <2>2. CASE Answered(r)
    <3> DEFINE q == [r EXCEPT !.stage = "answered"]
    <3>1. /\ requests' = (requests \ {r}) \cup {q} /\ DOMAIN r.answers = Parts
          /\ UNCHANGED <<now, posts, server, stream, page, received, faults>>
          /\ r.stage = "sent"
      BY <2>2 DEF Answered
    <3>2. ~(Parts \subseteq {"detail"})
      <4>1. page.kind \in {"board", "history", "detail"}
        BY <1>1, DashboardOK
      <4> QED
        BY <4>1 DEF Parts
    <3>3. RequestOK(r, now, posts)
      BY <1>1
    <3>4. RequestOK(q, now, posts) /\ (Bears(r) => Bears(q))
      BY <3>1, <3>2, <3>3 DEF RequestOK, Bears
    <3> HIDE DEF q
    <3> QED
      BY <1>1, <3>1, <3>4, Answers
  <2> QED
    BY <1>13, <2>1, <2>2
<1>14. ASSUME NEW r \in requests, Fail(r) PROVE IInv'
  <2>1. /\ requests' = requests \ {r} /\ page' = ShowsError(page)
        /\ UNCHANGED <<now, posts, server, stream, received>>
    BY <1>14 DEF Fail
  <2>2. faults' \in 0..MaxFaults
    BY <1>1, <1>14 DEF Fail
  <2> QED
    BY <2>1, <2>2, ErrorShown
<1>15. CASE TimePasses
  <2>1. /\ now' = now + 1 /\ now < Bound[page.kind].time /\ page.idle < BeatMs
        /\ \A r \in requests : r.stage = "sent" => ~(now - r.at >= FetchMs)
        /\ page' = [page EXCEPT !.idle = @ + 1]
        /\ requests' = {Waits(r) : r \in requests}
        /\ UNCHANGED <<posts, server, stream, received, faults>>
    BY <1>15 DEF TimePasses, TimedOut, Waits
  <2>2. \A r \in requests : /\ RequestOK(Waits(r), now + 1, posts)
                            /\ Bears(r) => Bears(Waits(r))
    BY <1>1, <2>1 DEF RequestOK, Waits, Bears
  <2>3. /\ PageOK(page', now + 1) /\ page'.data = page.data /\ page'.kind = page.kind
        /\ page'.error = page.error /\ page'.idle = page.idle + 1
    BY <1>1, <2>1 DEF PageOK
  <2>4. Typed'
    BY <1>1, <2>1, <2>2, <2>3 DEF IInv, Typed, StreamOK
  <2>5. Fresh'
    <3> SUFFICES ASSUME requests = {}, page.data # <<>>, ~page.error,
                        ~page.data[1].late
                 PROVE  (now + 1) - page.data[1].servedAt <= FetchMs + (page.idle + 1)
      BY <2>1, <2>3 DEF Fresh, ShowsData
    <3>1. now - page.data[1].servedAt <= FetchMs + page.idle
      BY DEF IInv, Fresh, ShowsData
    <3>2. page.data[1].servedAt \in Nat /\ page.idle \in Nat
      BY <1>1 DEF PageOK
    <3> QED
      BY <1>1, <3>1, <3>2
  <2>6. Underway'
    BY <2>1, <2>2, <2>3 DEF IInv, Underway, Bears
  <2> QED
    BY <2>4, <2>5, <2>6 DEF IInv
<1>16. CASE UNCHANGED vars
  BY <1>16 DEF vars, IInv, Typed, Fresh, Underway, StreamOK, ShowsData, Bears
<1> QED
  BY <1>2, <1>4, <1>5, <1>6, <1>7, <1>8, <1>9, <1>10, <1>11, <1>12, <1>13, <1>14, <1>15,
     <1>16 DEF Next

(* What the three properties rest on, whatever is posted, lost, delayed,    *)
(* broken or overtaken.                                                     *)
LEMMA Invariant == Spec => []IInv
  BY Starts, Steps, PTL DEF Spec

(* A request is served after it is sent, messages are not more than events, *)
(* and a page that shows nothing and no error waits for an answer.          *)
THEOREM TypeCorrect == Spec => []TypeOK
  BY Invariant, Promises, PTL

(* A page at rest without an error shows what was true no longer ago than a *)
(* fetch and a heartbeat take, for any length of either, unless it waited   *)
(* for a body after the headers were in.                                    *)
THEOREM AtRestRecent == Spec => []PageIsRecent
  BY Invariant, Promises, PTL

(* With the stream open and nothing under way, the page has been sent an    *)
(* answer with every event in it, in any order of messages and answers.     *)
THEOREM UpdatesArrive == Spec => []NoUpdateLost
  BY Invariant, Promises, PTL

------------------------------------------------------------------------------
(***************************************************************************)
(* A strict order of a finite set puts its elements into a row.            *)
(***************************************************************************)
StrictOrder(S, order) ==
  /\ \A x \in S : <<x, x>> \notin order
  /\ \A x, y \in S : x = y \/ <<x, y>> \in order \/ <<y, x>> \in order
  /\ \A x, y, z \in S : <<x, y>> \in order /\ <<y, z>> \in order => <<x, z>> \in order

LEMMA InOrderIs ==
  ASSUME NEW S, IsFiniteSet(S), NEW order, StrictOrder(S, order),
         NEW row, row = InOrder(S, order)
  PROVE  /\ DOMAIN row = 1..Cardinality(S) /\ Cardinality(S) \in Nat
         /\ \A k \in DOMAIN row : row[k] \in S
         /\ \A k, l \in DOMAIN row : k < l => <<row[k], row[l]>> \in order
<1> DEFINE Below(x) == {y \in S : <<y, x>> \in order}
           place == [x \in S |-> Cardinality(Below(x)) + 1]
           n == Cardinality(S)
<1>1. n \in Nat
  BY FS_CardinalityType
<1>2. \A x \in S : Below(x) \in SUBSET S /\ x \notin Below(x)
  BY DEF StrictOrder
<1>3. ASSUME NEW x \in S
      PROVE  /\ IsFiniteSet(Below(x)) /\ Cardinality(Below(x)) \in Nat
             /\ place[x] \in 1..n
  <2>1. /\ IsFiniteSet(Below(x)) /\ Cardinality(Below(x)) <= n
        /\ n = Cardinality(Below(x)) => S = Below(x)
    BY <1>2, FS_Subset
  <2>2. Cardinality(Below(x)) \in Nat
    BY <2>1, FS_CardinalityType
  <2>3. Cardinality(Below(x)) # n
    BY <1>2, <2>1
  <2> HIDE DEF Below, n
  <2> QED
    BY <1>1, <2>1, <2>2, <2>3
<1>4. ASSUME NEW x \in S, NEW y \in S, <<x, y>> \in order
      PROVE  place[x] < place[y]
  <2>1. Below(x) \in SUBSET Below(y) /\ x \in Below(y) /\ x \notin Below(x)
    BY <1>4 DEF StrictOrder
  <2>2. Cardinality(Below(x)) <= Cardinality(Below(y))
        /\ (Cardinality(Below(y)) = Cardinality(Below(x)) => Below(y) = Below(x))
    BY <1>3, <2>1, FS_Subset
  <2>3. Cardinality(Below(x)) # Cardinality(Below(y))
    BY <2>1, <2>2
  <2>4. Cardinality(Below(x)) \in Nat /\ Cardinality(Below(y)) \in Nat
    BY <1>3
  <2> HIDE DEF Below
  <2> QED
    BY <2>2, <2>3, <2>4
<1>5. \A x, y \in S : place[x] = place[y] => x = y
  <2> SUFFICES ASSUME NEW x \in S, NEW y \in S, x # y PROVE place[x] # place[y]
    OBVIOUS
  <2>1. place[x] < place[y] \/ place[y] < place[x]
    BY <1>4 DEF StrictOrder
  <2>2. place[x] \in 1..n /\ place[y] \in 1..n
    BY <1>3
  <2> HIDE DEF place, n
  <2> QED
    BY <1>1, <2>1, <2>2
<1>6. place \in Injection(S, 1..n)
  <2>1. place = [x \in S |-> place[x]]
    OBVIOUS
  <2>2. \A x \in S : place[x] \in 1..n
    BY <1>3
  <2> HIDE DEF place, n
  <2>3. place \in [S -> 1..n]
    BY <2>1, <2>2
  <2> QED
    BY <1>5, <2>3 DEF Injection, IsInjective
<1>7. place \in Surjection(S, 1..n)
  <2>1. IsFiniteSet(1..n) /\ Cardinality(1..n) = n
    BY <1>1, FS_Interval
  <2> QED
    BY <1>6, <2>1, FS_Injection
<1>8. \A k \in 1..n : \E x \in S : place[x] = k
  BY <1>7 DEF Surjection
<1>9. /\ DOMAIN row = 1..n
      /\ \A k \in 1..n : row[k] \in S /\ place[row[k]] = k
  <2> DEFINE Place(x) == Cardinality({y \in S : <<y, x>> \in order}) + 1
  <2>1. \A x \in S : place[x] = Place(x)
    OBVIOUS
  <2>2. row = [k \in 1..n |-> CHOOSE x \in S : Place(x) = k]
    BY DEF InOrder
  <2> HIDE DEF place, n, Place
  <2>3. ASSUME NEW k \in 1..n PROVE row[k] \in S /\ place[row[k]] = k
    <3>1. row[k] = CHOOSE x \in S : Place(x) = k
      BY <2>2, <2>3
    <3>2. \E x \in S : Place(x) = k
      BY <1>8, <2>1, <2>3
    <3> QED
      BY <2>1, <3>1, <3>2
  <2>4. DOMAIN row = 1..n
    BY <2>2
  <2> QED
    BY <2>3, <2>4
<1>10. ASSUME NEW k \in 1..n, NEW l \in 1..n, k < l
       PROVE  <<row[k], row[l]>> \in order
  <2>1. row[k] # row[l]
    <3> HIDE DEF place, n
    <3>1. place[row[k]] = k /\ place[row[l]] = l
      BY <1>9
    <3>2. k # l
      BY <1>1, <1>10
    <3> QED
      BY <3>1, <3>2
  <2>2. CASE <<row[l], row[k]>> \in order
    <3>1. place[row[l]] < place[row[k]]
      BY <1>4, <1>9, <2>2
    <3> HIDE DEF place, n
    <3> QED
      BY <1>1, <1>9, <1>10, <3>1
  <2> QED
    BY <1>9, <2>1, <2>2 DEF StrictOrder
<1> HIDE DEF n
<1> QED
  BY <1>1, <1>9, <1>10 DEF n

(* A stable sort by three keys: a lower f, then a lower g, then a higher h. *)
Keyed(S, order, f, g, h) ==
  /\ S \subseteq Nat /\ \A i \in S : f[i] \in Nat /\ g[i] \in Nat /\ h[i] \in Nat
  /\ \A i, j \in S :
       <<i, j>> \in order <=>
         \/ f[i] < f[j]
         \/ f[i] = f[j] /\ g[i] < g[j]
         \/ f[i] = f[j] /\ g[i] = g[j] /\ h[i] > h[j]
         \/ f[i] = f[j] /\ g[i] = g[j] /\ h[i] = h[j] /\ i < j

LEMMA KeysOrder ==
  ASSUME NEW S, NEW order, NEW f, NEW g, NEW h, Keyed(S, order, f, g, h)
  PROVE  StrictOrder(S, order)
<1>1. \A x \in S : <<x, x>> \notin order
  BY DEF Keyed
<1>2. ASSUME NEW x \in S, NEW y \in S, x # y
      PROVE  <<x, y>> \in order \/ <<y, x>> \in order
  <2>1. {x, y, f[x], f[y], g[x], g[y], h[x], h[y]} \subseteq Nat
    BY DEF Keyed
  <2>2. x < y \/ y < x
    BY <1>2, <2>1
  <2> QED
    BY <2>1, <2>2 DEF Keyed
<1>3. \A x, y, z \in S : <<x, y>> \in order /\ <<y, z>> \in order => <<x, z>> \in order
  <2> SUFFICES ASSUME NEW x \in S, NEW y \in S, NEW z \in S,
                      <<x, y>> \in order, <<y, z>> \in order
               PROVE  <<x, z>> \in order
    OBVIOUS
  <2> DEFINE Less(i, j) ==
        \/ f[i] < f[j]
        \/ f[i] = f[j] /\ g[i] < g[j]
        \/ f[i] = f[j] /\ g[i] = g[j] /\ h[i] > h[j]
        \/ f[i] = f[j] /\ g[i] = g[j] /\ h[i] = h[j] /\ i < j
  <2>1. Less(x, y) /\ Less(y, z)
    BY DEF Keyed
  <2>2. /\ {x, y, z, f[x], f[y], f[z], g[x], g[y], g[z], h[x], h[y], h[z]} \subseteq Nat
    BY DEF Keyed
  <2>3. Less(x, z)
    BY <2>1, <2>2
  <2> QED
    BY <2>3 DEF Keyed
<1> QED
  BY <1>1, <1>2, <1>3 DEF StrictOrder

------------------------------------------------------------------------------
(* What the sorts go by. *)

(* An item of the API is sorted by numbers. *)
Timed(item) == item.confidence \in Nat /\ item.signalAt \in Nat /\ item.at \in Nat

LEMMA Positions ==
  /\ Position(StatusOrder, "waiting_on_human_input") = 1
  /\ Position(StatusOrder, "needs_intervention") = 2
  /\ Position(StatusOrder, "awaiting_assignment") = 3
  /\ Position(StatusOrder, "waiting_for_review") = 4
  /\ Position(StatusOrder, "running") = 5
  /\ Position(StatusOrder, "unknown") = 6
  /\ Position(StatusOrder, "parked_idle") = 7
  /\ Position(StatusOrder, "done_historical") = 8
<1>1. DOMAIN StatusOrder = 1..8
  BY DEF StatusOrder
<1>2. /\ StatusOrder[1] = "waiting_on_human_input" /\ StatusOrder[2] = "needs_intervention"
      /\ StatusOrder[3] = "awaiting_assignment" /\ StatusOrder[4] = "waiting_for_review"
      /\ StatusOrder[5] = "running" /\ StatusOrder[6] = "unknown"
      /\ StatusOrder[7] = "parked_idle" /\ StatusOrder[8] = "done_historical"
  BY DEF StatusOrder
<1>3. \A i \in DOMAIN StatusOrder : Position(StatusOrder, StatusOrder[i]) = i
  <2> SUFFICES ASSUME NEW i \in 1..8, NEW j \in 1..8, StatusOrder[i] = StatusOrder[j]
               PROVE  i = j
    BY <1>1 DEF Position
  <2>1. i \in {1, 2, 3, 4, 5, 6, 7, 8} /\ j \in {1, 2, 3, 4, 5, 6, 7, 8}
    OBVIOUS
  <2> QED
    BY <1>2, <2>1
<1> QED
  BY <1>1, <1>2, <1>3

LEMMA Categories ==
  /\ \A c \in Category : Position(CategoryOrder, c) \in Nat
  /\ \A c, d \in Category :
       Position(CategoryOrder, c) = Position(CategoryOrder, d) => c = d
<1>1. DOMAIN CategoryOrder = 1..6
  BY DEF CategoryOrder
<1>2. \A c \in Category : \E i \in 1..6 : CategoryOrder[i] = c
  BY DEF CategoryOrder, Category
<1>3. \A c \in Category : /\ Position(CategoryOrder, c) \in 1..6
                          /\ CategoryOrder[Position(CategoryOrder, c)] = c
  BY <1>1, <1>2 DEF Position
<1> QED
  BY <1>3

LEMMA ApiItemIs ==
  ASSUME NEW n \in Nat, NEW p \in Nat, NEW s, Dated(s, n, p), NEW id
  PROVE  LET item == ApiItem(id, s, n) IN Genuine(item) /\ Timed(item)
<1>1. Genuine(Board(s, n))
  BY BoardIs
<1>2. Confidence(Board(s, n)) \in Nat
  BY DEF Confidence
<1>3. SignalAt(s) \in Nat
  <2>1. CASE HasRow(s)
    <3>1. LastSignal(RowOf(s)) \in 0..n
      BY <2>1, HeardIs DEF HasRow
    <3> QED
      BY <2>1, <3>1 DEF SignalAt
  <2>2. CASE ~HasRow(s)
    <3>1. {s.session.endedAt, s.session.lastEventAt} \in SUBSET (0..n)
      BY DEF Dated
    <3>2. Newest({s.session.endedAt, s.session.lastEventAt}) \in 0..n
      BY <3>1, NewestIs
    <3> QED
      BY <2>2, <3>2 DEF SignalAt
  <2> QED
    BY <2>1, <2>2
<1>4. Touched(s) \in Nat
  BY DEF Touched, HasRow, Dated
<1> QED
  BY <1>1, <1>2, <1>3, <1>4 DEF ApiItem, Genuine, Timed

------------------------------------------------------------------------------
(* The three sorts. *)

Entries(list) ==
  /\ \E n \in Nat : DOMAIN list = 1..n
  /\ \A k \in DOMAIN list : Genuine(list[k]) /\ Timed(list[k])

(* What of a list is kept, in an order of the places it has there. *)
Arranged(list, kept, order) ==
  LET places == InOrder(kept, order) IN [k \in DOMAIN places |-> list[places[k]]]

IsArranged(arranged, list, kept, order) ==
  /\ \E m \in Nat : DOMAIN arranged = 1..m
  /\ \A k \in DOMAIN arranged : \E i \in kept : arranged[k] = list[i]
  /\ \A k, l \in DOMAIN arranged : k < l =>
       \E i, j \in kept :
         <<i, j>> \in order /\ arranged[k] = list[i] /\ arranged[l] = list[j]

LEMMA ArrangedIs ==
  ASSUME NEW list, NEW n \in Nat, NEW kept \in SUBSET (1..n), NEW order,
         StrictOrder(kept, order)
  PROVE  IsArranged(Arranged(list, kept, order), list, kept, order)
<1> DEFINE places == InOrder(kept, order)
           arranged == Arranged(list, kept, order)
<1>1. IsFiniteSet(kept)
  <2>1. IsFiniteSet(1..n)
    BY FS_Interval
  <2> QED
    BY <2>1, FS_Subset
<1>2. /\ \E m \in Nat : DOMAIN places = 1..m
      /\ \A k \in DOMAIN places : places[k] \in kept
      /\ \A k, l \in DOMAIN places : k < l => <<places[k], places[l]>> \in order
  BY <1>1, InOrderIs
<1>3. arranged = [k \in DOMAIN places |-> list[places[k]]]
  BY DEF Arranged
<1> HIDE DEF places, arranged
<1>4. DOMAIN arranged = DOMAIN places
  BY <1>3
<1>5. \A k \in DOMAIN places : arranged[k] = list[places[k]]
  BY <1>3
<1>6. ASSUME NEW k \in DOMAIN arranged, NEW l \in DOMAIN arranged, k < l
      PROVE  \E i, j \in kept :
               <<i, j>> \in order /\ arranged[k] = list[i] /\ arranged[l] = list[j]
  <2>1. /\ places[k] \in kept /\ places[l] \in kept /\ <<places[k], places[l]>> \in order
        /\ arranged[k] = list[places[k]] /\ arranged[l] = list[places[l]]
    BY <1>2, <1>4, <1>5, <1>6
  <2> QED
    BY <2>1
<1>7. IsArranged(arranged, list, kept, order)
  BY <1>2, <1>4, <1>5, <1>6 DEF IsArranged
<1> QED
  BY <1>7 DEF arranged

LEMMA OperationalIs ==
  ASSUME NEW n \in Nat, NEW p \in Nat, NEW all, \A s \in Session : Dated(all[s], n, p)
  PROVE  Entries(OperationalSessions(all, n))
<1> DEFINE known == Known(all)
           byNumber == {q \in known \X known : q[1] < q[2]}
           listed == InOrder(known, byNumber)
           items == [i \in DOMAIN listed |-> ApiItem(listed[i], all[listed[i]], n)]
           First(a, b) ==
             \/ HasRow(all[a.id]) /\ ~HasRow(all[b.id])
             \/ HasRow(all[a.id]) = HasRow(all[b.id]) /\ a.at > b.at
           kept == {i \in DOMAIN items : TRUE}
           order == {q \in kept \X kept :
                       \/ First(items[q[1]], items[q[2]])
                       \/ ~First(items[q[2]], items[q[1]]) /\ q[1] < q[2]}
           sorted == Arranged(items, kept, order)
<1>1. OperationalSessions(all, n) = sorted
  BY DEF OperationalSessions, Sorted, Arranged
<1>2. known \in SUBSET Session /\ Session \subseteq Nat /\ IsFiniteSet(known)
  BY ViewsOK, FS_Subset DEF Known
<1>3. StrictOrder(known, byNumber)
  <2>1. \A x, y \in known : <<x, y>> \in byNumber <=> x < y
    OBVIOUS
  <2>2. known \subseteq Nat
    BY <1>2
  <2> HIDE DEF known, byNumber
  <2> QED
    BY <2>1, <2>2 DEF StrictOrder
<1> HIDE DEF known
<1>4. /\ DOMAIN listed = 1..Cardinality(known) /\ Cardinality(known) \in Nat
      /\ \A k \in DOMAIN listed : listed[k] \in Session
  <2> HIDE DEF byNumber
  <2> QED
    BY <1>2, <1>3, InOrderIs
<1> HIDE DEF listed
<1>5. PICK m \in Nat : DOMAIN items = 1..m
  BY <1>4
<1>6. ASSUME NEW i \in DOMAIN items
      PROVE  Genuine(items[i]) /\ Timed(items[i])
  <2>1. listed[i] \in Session /\ items[i] = ApiItem(listed[i], all[listed[i]], n)
    BY <1>4
  <2> HIDE DEF items
  <2> QED
    BY <2>1, ApiItemIs
<1> HIDE DEF items
<1>7. StrictOrder(kept, order)
  <2> DEFINE f == [i \in kept |-> IF HasRow(all[items[i].id]) THEN 0 ELSE 1]
             g == [i \in kept |-> 0]
             h == [i \in kept |-> items[i].at]
  <2>1. kept \subseteq Nat /\ \A i \in kept : f[i] \in Nat /\ g[i] \in Nat /\ h[i] \in Nat
    BY <1>5, <1>6 DEF Timed
  <2>2. ASSUME NEW i \in kept, NEW j \in kept
        PROVE  <<i, j>> \in order <=>
                 \/ f[i] < f[j]
                 \/ f[i] = f[j] /\ g[i] < g[j]
                 \/ f[i] = f[j] /\ g[i] = g[j] /\ h[i] > h[j]
                 \/ f[i] = f[j] /\ g[i] = g[j] /\ h[i] = h[j] /\ i < j
    <3>1. items[i].at \in Nat /\ items[j].at \in Nat /\ i \in Nat /\ j \in Nat
      BY <1>5, <1>6 DEF Timed
    <3>2. <<i, j>> \in order <=>
            First(items[i], items[j]) \/ (~First(items[j], items[i]) /\ i < j)
      OBVIOUS
    <3>3. HasRow(all[items[i].id]) \in BOOLEAN /\ HasRow(all[items[j].id]) \in BOOLEAN
      BY DEF HasRow
    <3> QED
      BY <3>1, <3>2, <3>3
  <2> HIDE DEF f, g, h, order, kept
  <2>3. Keyed(kept, order, f, g, h)
    BY <2>1, <2>2 DEF Keyed
  <2> QED
    BY <2>3, KeysOrder
<1>8. kept \in SUBSET (1..m)
  BY <1>5
<1> HIDE DEF kept, order
<1>9. IsArranged(sorted, items, kept, order)
  BY <1>7, <1>8, ArrangedIs
<1> HIDE DEF sorted
<1> QED
  BY <1>1, <1>6, <1>9 DEF Entries, IsArranged, kept

LEMMA EntriesArranged ==
  ASSUME NEW list, Entries(list), NEW kept \in SUBSET DOMAIN list, NEW order,
         StrictOrder(kept, order)
  PROVE  /\ Entries(Arranged(list, kept, order))
         /\ IsArranged(Arranged(list, kept, order), list, kept, order)
<1> DEFINE arranged == Arranged(list, kept, order)
<1>1. PICK n \in Nat : DOMAIN list = 1..n
  BY DEF Entries
<1>2. IsArranged(arranged, list, kept, order)
  BY <1>1, ArrangedIs
<1> HIDE DEF arranged
<1>3. Entries(arranged)
  BY <1>2 DEF IsArranged, Entries
<1> QED
  BY <1>2, <1>3 DEF arranged

LEMMA MissionControlIs ==
  ASSUME NEW n \in Nat, NEW p \in Nat, NEW all, \A s \in Session : Dated(all[s], n, p)
  PROVE  Entries(MissionControl(all, n).sessions)
<1> DEFINE items == OperationalSessions(all, n)
           Ranks(a, b) ==
             \/ Position(CategoryOrder, a.category) < Position(CategoryOrder, b.category)
             \/ a.category = b.category /\ Recent(a) > Recent(b)
           kept == {i \in DOMAIN items : items[i].board}
           order == {q \in kept \X kept :
                       \/ Ranks(items[q[1]], items[q[2]])
                       \/ ~Ranks(items[q[2]], items[q[1]]) /\ q[1] < q[2]}
<1>1. MissionControl(all, n).sessions = Arranged(items, kept, order)
  BY DEF MissionControl, Answer, SortOperational, Sorted, Arranged
<1>2. Entries(items)
  BY OperationalIs
<1> HIDE DEF items
<1>3. StrictOrder(kept, order)
  <2> DEFINE f == [i \in kept |-> Position(CategoryOrder, items[i].category)]
             g == [i \in kept |-> 0]
             h == [i \in kept |-> Recent(items[i])]
  <2>1. \A i \in kept : /\ i \in Nat /\ items[i].category \in Category
                        /\ Position(CategoryOrder, items[i].category) \in Nat
                        /\ Recent(items[i]) \in Nat
    BY <1>2, Categories DEF Entries, Genuine, Timed, Recent
  <2>2. kept \subseteq Nat /\ \A i \in kept : f[i] \in Nat /\ g[i] \in Nat /\ h[i] \in Nat
    BY <2>1
  <2>3. ASSUME NEW i \in kept, NEW j \in kept
        PROVE  <<i, j>> \in order <=>
                 \/ f[i] < f[j]
                 \/ f[i] = f[j] /\ g[i] < g[j]
                 \/ f[i] = f[j] /\ g[i] = g[j] /\ h[i] > h[j]
                 \/ f[i] = f[j] /\ g[i] = g[j] /\ h[i] = h[j] /\ i < j
    <3>1. <<i, j>> \in order <=>
            Ranks(items[i], items[j]) \/ (~Ranks(items[j], items[i]) /\ i < j)
      OBVIOUS
    <3>2. items[i].category = items[j].category <=> f[i] = f[j]
      BY <2>1, Categories
    <3>3. f[i] = Position(CategoryOrder, items[i].category) /\ h[i] = Recent(items[i])
          /\ f[j] = Position(CategoryOrder, items[j].category) /\ h[j] = Recent(items[j])
          /\ g[i] = 0 /\ g[j] = 0
      OBVIOUS
    <3> HIDE DEF f, g, h, order, kept
    <3> QED
      BY <2>1, <3>1, <3>2, <3>3
  <2> HIDE DEF f, g, h, order, kept
  <2>4. Keyed(kept, order, f, g, h)
    BY <2>2, <2>3 DEF Keyed
  <2> QED
    BY <2>4, KeysOrder
<1> HIDE DEF order
<1> QED
  BY <1>1, <1>2, <1>3, EntriesArranged

(* The cards of a board are in the order the operator is to see them in. *)
InFront(cards) ==
  \A i, j \in DOMAIN cards :
    i < j => /\ cards[j].action => cards[i].action
             /\ cards[j].primary = "waiting_on_human_input" =>
                  cards[i].primary = "waiting_on_human_input"

Leads(a, b) ==
  LET Place(item) == Position(StatusOrder, item.primary)
  IN \/ Place(a) < Place(b)
     \/ Place(a) = Place(b) /\ a.confidence < b.confidence
     \/ Place(a) = Place(b) /\ a.confidence = b.confidence /\ a.signalAt > b.signalAt

LEMMA CompareIs ==
  ASSUME NEW a, NEW b, Position(StatusOrder, a.primary) \in Nat,
         Position(StatusOrder, b.primary) \in Nat
  PROVE  CompareMissionSessions(a, b) <=> Leads(a, b)
  BY DEF CompareMissionSessions, Leads

LEMMA CardsInFront ==
  ASSUME NEW list, Entries(list)
  PROVE  InFront(MissionSessions(list))
<1> DEFINE Place(item) == Position(StatusOrder, item.primary)
           Kept(item) == item.board /\ item.category # "historical"
           kept == {i \in DOMAIN list : Kept(list[i])}
           order == {q \in kept \X kept :
                       \/ CompareMissionSessions(list[q[1]], list[q[2]])
                       \/ ~CompareMissionSessions(list[q[2]], list[q[1]]) /\ q[1] < q[2]}
           cards == Arranged(list, kept, order)
<1>1. MissionSessions(list) = cards
  BY DEF MissionSessions, Sorted, Arranged
<1>2. \A i \in kept : /\ i \in Nat /\ list[i].board /\ Genuine(list[i]) /\ Timed(list[i])
                      /\ Place(list[i]) \in Nat
  BY Positions DEF Entries, Genuine, Asks
<1> HIDE DEF Place
<1>3. ASSUME NEW i \in kept, NEW j \in kept
      PROVE  <<i, j>> \in order <=>
               Leads(list[i], list[j]) \/ (~Leads(list[j], list[i]) /\ i < j)
  <2>1. <<i, j>> \in order <=>
          \/ CompareMissionSessions(list[i], list[j])
          \/ ~CompareMissionSessions(list[j], list[i]) /\ i < j
    OBVIOUS
  <2>2. /\ CompareMissionSessions(list[i], list[j]) <=> Leads(list[i], list[j])
        /\ CompareMissionSessions(list[j], list[i]) <=> Leads(list[j], list[i])
    BY <1>2, CompareIs DEF Place
  <2> HIDE DEF order, kept
  <2> QED
    BY <2>1, <2>2, Zenon
<1>4. StrictOrder(kept, order)
  <2> DEFINE f == [i \in kept |-> Place(list[i])]
             g == [i \in kept |-> list[i].confidence]
             h == [i \in kept |-> list[i].signalAt]
  <2>1. kept \subseteq Nat /\ \A i \in kept : f[i] \in Nat /\ g[i] \in Nat /\ h[i] \in Nat
    BY <1>2 DEF Timed
  <2>2. ASSUME NEW i \in kept, NEW j \in kept
        PROVE  Leads(list[i], list[j]) <=>
                 \/ f[i] < f[j]
                 \/ f[i] = f[j] /\ g[i] < g[j]
                 \/ f[i] = f[j] /\ g[i] = g[j] /\ h[i] > h[j]
    <3>1. /\ f[i] = Place(list[i]) /\ g[i] = list[i].confidence /\ h[i] = list[i].signalAt
          /\ f[j] = Place(list[j]) /\ g[j] = list[j].confidence /\ h[j] = list[j].signalAt
      OBVIOUS
    <3>2. Leads(list[i], list[j]) <=>
            \/ Place(list[i]) < Place(list[j])
            \/ Place(list[i]) = Place(list[j]) /\ list[i].confidence < list[j].confidence
            \/ /\ Place(list[i]) = Place(list[j])
               /\ list[i].confidence = list[j].confidence
               /\ list[i].signalAt > list[j].signalAt
      BY DEF Leads, Place
    <3> HIDE DEF f, g, h, order, kept
    <3> QED
      BY <3>1, <3>2
  <2> HIDE DEF f, g, h, order, kept
  <2>3. ASSUME NEW i \in kept, NEW j \in kept
        PROVE  <<i, j>> \in order <=>
                 \/ f[i] < f[j]
                 \/ f[i] = f[j] /\ g[i] < g[j]
                 \/ f[i] = f[j] /\ g[i] = g[j] /\ h[i] > h[j]
                 \/ f[i] = f[j] /\ g[i] = g[j] /\ h[i] = h[j] /\ i < j
    <3>1. Leads(list[i], list[j]) <=>
            \/ f[i] < f[j]
            \/ f[i] = f[j] /\ g[i] < g[j]
            \/ f[i] = f[j] /\ g[i] = g[j] /\ h[i] > h[j]
      BY <2>2
    <3>2. Leads(list[j], list[i]) <=>
            \/ f[j] < f[i]
            \/ f[j] = f[i] /\ g[j] < g[i]
            \/ f[j] = f[i] /\ g[j] = g[i] /\ h[j] > h[i]
      BY <2>2
    <3>3. <<i, j>> \in order <=>
            Leads(list[i], list[j]) \/ (~Leads(list[j], list[i]) /\ i < j)
      BY <1>3
    <3>4. {i, j, f[i], f[j], g[i], g[j], h[i], h[j]} \subseteq Nat
      BY <2>1
    <3> QED
      BY <3>1, <3>2, <3>3, <3>4
  <2>4. Keyed(kept, order, f, g, h)
    BY <2>1, <2>3 DEF Keyed
  <2> QED
    BY <2>4, KeysOrder
<1>5. kept \in SUBSET DOMAIN list
  OBVIOUS
<1>6. ASSUME NEW i \in kept, NEW j \in kept, <<i, j>> \in order
      PROVE  Place(list[i]) <= Place(list[j])
  <2>1. Leads(list[i], list[j]) \/ ~Leads(list[j], list[i])
    BY <1>3, <1>6
  <2>2. /\ Leads(list[i], list[j]) => Place(list[i]) < Place(list[j])
                                        \/ Place(list[i]) = Place(list[j])
        /\ Place(list[j]) < Place(list[i]) => Leads(list[j], list[i])
    BY DEF Leads, Place
  <2>3. Place(list[i]) \in Nat /\ Place(list[j]) \in Nat
    BY <1>2
  <2> HIDE DEF order, kept
  <2> QED
    BY <2>1, <2>2, <2>3
<1>7. ASSUME NEW i \in kept, NEW j \in kept, Place(list[i]) <= Place(list[j])
      PROVE  /\ list[j].action => list[i].action
             /\ list[j].primary = "waiting_on_human_input" =>
                  list[i].primary = "waiting_on_human_input"
  <2>1. \A k \in kept : /\ list[k].primary \in Asks \cup {"running"}
                        /\ list[k].action <=> list[k].primary \in Asks
    BY <1>2 DEF Genuine, ActionRequired, Asks
  <2>2. /\ \A k \in kept : list[k].primary \in Asks => Place(list[k]) \in 1..4
        /\ \A k \in kept : list[k].primary = "running" => Place(list[k]) = 5
        /\ \A k \in kept : list[k].primary = "waiting_on_human_input" <=> Place(list[k]) = 1
    BY <2>1, Positions DEF Place, Asks
  <2> QED
    BY <1>7, <2>1, <2>2
<1>8. IsArranged(cards, list, kept, order)
  BY <1>4, <1>5, EntriesArranged
<1> HIDE DEF kept, order, cards
<1>9. InFront(cards)
  <2> SUFFICES ASSUME NEW k \in DOMAIN cards, NEW l \in DOMAIN cards, k < l
               PROVE  /\ cards[l].action => cards[k].action
                      /\ cards[l].primary = "waiting_on_human_input" =>
                           cards[k].primary = "waiting_on_human_input"
    BY DEF InFront
  <2>1. PICK i \in kept, j \in kept :
          <<i, j>> \in order /\ cards[k] = list[i] /\ cards[l] = list[j]
    BY <1>8 DEF IsArranged
  <2> QED
    BY <1>6, <1>7, <2>1
<1> QED
  BY <1>1, <1>9

------------------------------------------------------------------------------
(* What the answers under way and the board hold. *)

LEMMA ReconciledDated ==
  ASSUME NEW n \in Nat, NEW p \in Nat, NEW s, Dated(s, n, p)
  PROVE  Dated(Reconciled(s, n), n, p)
<1>1. CASE Reconciled(s, n) = s
  BY <1>1
<1>2. CASE Reconciled(s, n) # s
  <2>1. s.row # NoRow /\ Reconciled(s, n) = [s EXCEPT !.row.status = "parked"]
    BY <1>2 DEF Reconciled, RowOf
  <2> DEFINE row == [s.row EXCEPT !.status = "parked"]
             t == [s EXCEPT !.row = row]
  <2>2. s \in Store /\ s.row \in Row
    BY <2>1 DEF Dated, Store
  <2>3. /\ row \in Row /\ row.updatedAt = s.row.updatedAt
        /\ row.completedAt = s.row.completedAt
    BY <2>2 DEF Row, RuntimeStatus, Historical
  <2>4. row # NoRow
    BY <2>3, IngestOK
  <2>5. Reconciled(s, n) = t
    BY <2>1, <2>2 DEF Store
  <2> HIDE DEF row
  <2>6. /\ t \in Store /\ t.row = row /\ t.session = s.session /\ t.events = s.events
        /\ t.traces = s.traces /\ t.processAt = s.processAt
    BY <2>2, <2>3 DEF Store
  <2> HIDE DEF t
  <2> QED
    BY <2>1, <2>3, <2>4, <2>5, <2>6 DEF Dated
<1> QED
  BY <1>1, <1>2

Dates == DOMAIN stores = Session /\ \A s \in Session : Dated(stores[s], now, posts)
Carries(r) ==
  /\ DOMAIN r.answers \subseteq {"mission-control"}
  /\ "mission-control" \in DOMAIN r.answers =>
       Entries(r.answers["mission-control"].sessions)
  /\ r.stage # "sent" => "mission-control" \in DOMAIN r.answers
Boards ==
  page.kind = "board" =>
    /\ \A r \in requests : Carries(r)
    /\ page.data # <<>> => InFront(page.data[1].view.cards)
Ordered == Dates /\ Boards

LEMMA OrderedInit == Init => Ordered
<1> SUFFICES ASSUME Init PROVE Ordered
  OBVIOUS
<1>1. now = 1 /\ posts = 0 /\ requests = {NewRequest(1)} /\ page.data = <<>>
  BY DEF Init
<1>2. Dated(EmptyStore, 1, 0) /\ Dated(OldStore, 1, 0)
  <2>1. Dated(EmptyStore, 1, 0) /\ EmptyStore \in Store
    BY EmptyIsDated
  <2> DEFINE session == [known |-> TRUE, startedAt |-> 1, endedAt |-> 0, lastEventAt |-> 1]
             question == [id |-> 0, type |-> "agent.question_asked", note |-> "unresolved",
                          at |-> 1]
  <2>2. /\ OldStore.session = session /\ OldStore.events = {question}
        /\ OldStore.task = "none" /\ OldStore.row = NoRow /\ OldStore.traces = {}
        /\ OldStore.processAt = 0
        /\ DOMAIN OldStore = {"session", "events", "task", "row", "traces", "processAt"}
    BY DEF OldStore, EmptyStore
  <2>3. /\ session \in [known : BOOLEAN, startedAt : Nat, endedAt : Nat, lastEventAt : Nat]
        /\ question \in StoredEvent
    BY DEF StoredEvent, EventType, Note
  <2>4. OldStore \in Store
    BY <2>2, <2>3 DEF Store, OldStore, EmptyStore
  <2>5. Dated(OldStore, 1, 0)
    BY <2>2, <2>4 DEF Dated
  <2> QED
    BY <2>1, <2>5
<1>3. Dates
  BY <1>1, <1>2 DEF Init, Dates
<1>4. Carries(NewRequest(1))
  BY DEF Carries, NewRequest
<1> QED
  BY <1>1, <1>3, <1>4 DEF Ordered, Boards

(* The page is loaded, or a request is disturbed or lost. *)
LEMMA BoardsKept ==
  ASSUME Boards, page'.kind = page.kind, page'.data = page.data,
         \A r \in requests' :
           \/ \E q \in requests :
                r.answers = q.answers /\ (r.stage = "sent" <=> q.stage = "sent")
           \/ Carries(r)
  PROVE  Boards'
  BY DEF Boards, Carries

LEMMA LoadKept ==
  ASSUME NEW p, PageOK(p, now), p.kind = page.kind, p.data = page.data, LoadData(p), Boards
  PROVE  Boards'
<1>1. PICK number : requests' = requests \cup {NewRequest(number)}
  BY DEF LoadData
<1>2. Carries(NewRequest(number))
  BY DEF Carries, NewRequest
<1>3. page'.kind = page.kind /\ page'.data = page.data
  <2>1. \/ page' = [p EXCEPT !.error = FALSE]
        \/ page' = [[p EXCEPT !.error = FALSE] EXCEPT !.idle = 0]
    BY DEF LoadData, Rendered
  <2> QED
    BY <2>1 DEF PageOK
<1> QED
  BY <1>1, <1>2, <1>3, BoardsKept

LEMMA OrderedStep == IInv /\ Ordered /\ [Next]_vars => Ordered'
<1> SUFFICES ASSUME IInv, Ordered, [Next]_vars PROVE Ordered'
  OBVIOUS
<1>1. /\ now \in Nat \ {0} /\ posts \in Nat /\ PageOK(page, now) /\ Dates /\ Boards
      /\ \A r \in requests : RequestOK(r, now, posts)
  <2>1. Bound[page.kind].time \in Nat /\ Bound[page.kind].posts \in Nat
    BY Numbers DEF IInv, Typed, PageOK
  <2> QED
    BY <2>1 DEF IInv, Typed, Ordered
<1>2. ASSUME UNCHANGED <<now, stores, posts>>, Boards' PROVE Ordered'
  BY <1>1, <1>2 DEF Ordered, Dates
<1>3. ASSUME NEW report \in Reports, Post(report) PROVE Ordered'
  <2> DEFINE e == [id |-> posts + 1, at |-> now, type |-> report.type, note |-> report.note,
                   from |-> report.from, task |-> report.task]
  <2>1. /\ posts' = posts + 1 /\ UNCHANGED <<now, page, requests>>
        /\ stores' = [stores EXCEPT ![report.session] =
                        IngestEvents(stores[report.session], <<e>>)]
    BY <1>3 DEF Post
  <2>2. e \in PostedEvent /\ e.at \in 1..now /\ e.id \in 0..(posts + 1)
    BY <1>1, DashboardOK DEF PostedEvent
  <2> HIDE DEF e
  <2>3. \A s \in Session : Dated(stores[s], now, posts + 1)
    BY <1>1, DatedLater DEF Dates
  <2>4. report.session \in Session
    BY DashboardOK
  <2>5. Dated(IngestEvents(stores[report.session], <<e>>), now, posts + 1)
    BY <1>1, <2>2, <2>3, <2>4, IngestDated
  <2>6. Dates'
    BY <1>1, <2>1, <2>3, <2>5 DEF Dates
  <2>7. Boards'
    BY <1>1, <2>1, BoardsKept
  <2> QED
    BY <2>6, <2>7 DEF Ordered
<1>4. CASE Broadcast \/ Connect \/ \E noticed \in BOOLEAN : Disconnect(noticed)
  <2>1. UNCHANGED <<now, stores, posts, page, requests>>
    BY <1>4 DEF Broadcast, Connect, Disconnect
  <2> QED
    BY <1>1, <1>2, <2>1, BoardsKept
<1>5. CASE ApiRestart
  <2>1. /\ UNCHANGED <<now, posts, page>>
        /\ stores' = [s \in Session |-> Reconciled(stores[s], now)]
        /\ requests' = {[r EXCEPT !.broken = TRUE] : r \in requests}
    BY <1>5 DEF ApiRestart
  <2>2. Dates'
    BY <1>1, <2>1, ReconciledDated DEF Dates
  <2>3. \A r \in requests' : \E q \in requests :
          r.answers = q.answers /\ (r.stage = "sent" <=> q.stage = "sent")
    BY <1>1, <2>1 DEF RequestOK
  <2>4. Boards'
    BY <1>1, <2>1, <2>3, BoardsKept
  <2> QED
    BY <2>2, <2>4 DEF Ordered
<1>6. CASE OnMessage
  <2>1. LoadData(page) /\ UNCHANGED <<now, stores, posts>>
    BY <1>6 DEF OnMessage
  <2> QED
    BY <1>1, <1>2, <2>1, LoadKept
<1>7. CASE Beat
  <2> DEFINE p == [page EXCEPT !.idle = 0]
  <2>1. LoadData(p) /\ UNCHANGED <<now, stores, posts>>
    BY <1>7 DEF Beat
  <2>2. PageOK(p, now) /\ p.kind = page.kind /\ p.data = page.data
    BY <1>1, Numbers DEF PageOK
  <2> HIDE DEF p
  <2> QED
    BY <1>1, <1>2, <2>1, <2>2, LoadKept
<1>8. CASE Retry
  <2>1. LoadData(page) /\ UNCHANGED <<now, stores, posts>>
    BY <1>8 DEF Retry
  <2> QED
    BY <1>1, <1>2, <2>1, LoadKept
<1>9. ASSUME NEW r \in requests, NEW part \in Parts, Serve(r, part) PROVE Ordered'
  <2>1. /\ UNCHANGED <<now, stores, posts, page>> /\ RequestOK(r, now, posts)
    BY <1>1, <1>9 DEF Serve
  <2>2. CASE page.kind # "board"
    BY <1>2, <2>1, <2>2 DEF Boards
  <2>3. CASE page.kind = "board"
    <3> DEFINE answer == MissionControl(stores, now)
               answers == Needed(With(r.answers, part, answer))
    <3>1. part = "mission-control" /\ Carries(r)
      BY <1>1, <2>3 DEF Parts, Boards
    <3>2. PICK q : requests' = (requests \ {r}) \cup {q} /\ q.answers = answers
      <4> DEFINE q == [r EXCEPT !.answers = answers,
                                !.servedAt = IF r.servedAt = 0 THEN now ELSE @,
                                !.seen = IF r.servedAt = 0 THEN posts ELSE @]
      <4>1. requests' = (requests \ {r}) \cup {q}
        BY <1>9, <2>3, <3>1 DEF Serve, ReadsOf
      <4>2. q.answers = answers
        BY <2>1 DEF RequestOK
      <4> QED
        BY <4>1, <4>2
    <3>3. /\ DOMAIN answers = {"mission-control"} /\ answers["mission-control"] = answer
      BY <3>1 DEF Needed, With, Carries
    <3>4. Entries(answer.sessions)
      BY <1>1, MissionControlIs DEF Dates
    <3> HIDE DEF answer, answers
    <3>5. Carries(q)
      BY <3>2, <3>3, <3>4 DEF Carries
    <3>6. Boards'
      BY <1>1, <2>1, <3>2, <3>5, BoardsKept
    <3> QED
      BY <1>2, <2>1, <3>6
  <2> QED
    BY <2>2, <2>3
<1>10. ASSUME NEW r \in requests, LoseDetail(r) PROVE Ordered'
  BY <1>2, <1>10 DEF LoseDetail, Boards
<1>11. ASSUME NEW r \in requests, Receive(r) PROVE Ordered'
  <2>1. /\ UNCHANGED <<now, stores, posts>> /\ requests' = requests \ {r}
        /\ r.stage # "sent"
    BY <1>11 DEF Receive
  <2>2. page'.kind = page.kind
    <3>1. \A x : Rendered([page EXCEPT !.data = x]).kind = page.kind
      BY <1>1 DEF Rendered, PageOK
    <3>2. ShowsError(page).kind = page.kind
      BY <1>1 DEF ShowsError, Rendered, PageOK
    <3> QED
      BY <1>11, <3>1, <3>2 DEF Receive
  <2>3. CASE page.kind # "board"
    BY <1>2, <2>1, <2>2, <2>3 DEF Boards
  <2>4. CASE page.kind = "board"
    <3> DEFINE list == r.answers["mission-control"].sessions
               view == View(r.answers)
    <3>1. Entries(list)
      BY <1>1, <2>1, <2>4 DEF Boards, Carries
    <3>2. view.cards = MissionSessions(list)
      BY <2>4 DEF View, BoardViewModel
    <3>3. InFront(view.cards)
      BY <3>1, <3>2, CardsInFront
    <3>4. page'.data[1].view = view
      <4> DEFINE datum == [view |-> view, servedAt |-> r.servedAt, seen |-> r.seen,
                           late |-> r.stage = "stalled"]
      <4>1. page' = Rendered([page EXCEPT !.data = <<datum>>])
        BY <1>11, <2>4 DEF Receive
      <4>2. datum.view = view
        OBVIOUS
      <4> HIDE DEF datum
      <4>3. page'.data = <<datum>>
        BY <1>1, <4>1 DEF Rendered, PageOK
      <4> QED
        BY <4>2, <4>3
    <3> HIDE DEF view
    <3>5. \A q \in requests' : Carries(q)
      BY <1>1, <2>1, <2>4 DEF Boards
    <3>6. Boards'
      BY <3>3, <3>4, <3>5 DEF Boards, Carries
    <3> QED
      BY <1>2, <2>1, <3>6
  <2> QED
    BY <2>3, <2>4
<1>12. ASSUME NEW r \in requests, Fail(r) PROVE Ordered'
  <2>1. UNCHANGED <<now, stores, posts>> /\ requests' = requests \ {r}
        /\ page' = ShowsError(page)
    BY <1>12 DEF Fail
  <2>2. page'.kind = page.kind /\ page'.data = page.data
    BY <1>1, <2>1 DEF ShowsError, Rendered, PageOK
  <2>3. Boards'
    BY <1>1, <2>1, <2>2, BoardsKept
  <2> QED
    BY <1>2, <2>1, <2>3
<1>13. CASE TimePasses
  <2>1. /\ now' = now + 1 /\ UNCHANGED <<stores, posts>>
        /\ page' = [page EXCEPT !.idle = @ + 1]
        /\ requests' = {Waits(r) : r \in requests}
    BY <1>13 DEF TimePasses, Waits
  <2>2. page'.kind = page.kind /\ page'.data = page.data
    BY <1>1, <2>1 DEF PageOK
  <2>3. \A s \in Session : Dated(stores[s], now + 1, posts)
    BY <1>1, DatedLater DEF Dates
  <2>4. \A r \in requests : /\ Waits(r).answers = r.answers
                            /\ Waits(r).stage = "sent" <=> r.stage = "sent"
    BY <1>1 DEF Waits, RequestOK
  <2>5. Boards'
    BY <1>1, <2>1, <2>2, <2>4, BoardsKept
  <2> QED
    BY <1>1, <2>1, <2>3, <2>5 DEF Ordered, Dates
<1>14. CASE UNCHANGED vars
  <2>1. UNCHANGED <<now, stores, posts, page, requests>>
    BY <1>14 DEF vars
  <2> QED
    BY <1>1, <1>2, <2>1, BoardsKept
<1>15. ASSUME NEW r \in requests, Answered(r) PROVE Ordered'
  <2> DEFINE q == [r EXCEPT !.stage = "answered"]
  <2>1. /\ UNCHANGED <<now, stores, posts, page>> /\ DOMAIN r.answers = Parts
        /\ requests' = (requests \ {r}) \cup {q}
    BY <1>15 DEF Answered
  <2>2. q.answers = r.answers
    BY <1>1 DEF RequestOK
  <2> HIDE DEF q
  <2>3. Boards'
    BY <1>1, <2>1, <2>2 DEF Boards, Carries, Parts
  <2> QED
    BY <1>2, <2>1, <2>3
<1> QED
  BY <1>3, <1>4, <1>5, <1>6, <1>7, <1>8, <1>9, <1>10, <1>11, <1>12, <1>13, <1>14,
     <1>15 DEF Next

(* The cards that ask for something are above those that do not, and those  *)
(* somebody waits behind above all, for any stores and windows.  The sort   *)
(* alone does not give that: an unknown status asks and is sorted below a   *)
(* running one, but no item with it earns a place on the board.             *)
THEOREM DemandsComeFirst == Spec => []DemandsFirst
<1>1. Ordered => DemandsFirst
  BY DEF Ordered, Boards, InFront, DemandsFirst
<1>2. Spec => []Ordered
  BY Invariant, OrderedInit, OrderedStep, PTL DEF Spec
<1> QED
  BY <1>1, <1>2, PTL

=============================================================================
