----------------------------- MODULE OperatorViews -----------------------------
(***************************************************************************)
(* From what is stored of all sessions to what the operator sees of them:  *)
(* the answers of services/andon-api to /mission-control, /history and     *)
(* /sessions/:id, and the view models apps/andon-dashboard makes of them.  *)
(* Every answer is made from the store at a time; no wording is modelled.  *)
(***************************************************************************)
EXTENDS AndonIngest

CONSTANTS
  Session,         \* the sessions there can be, numbers
  DisconnectedMs   \* a source that was silent for longer is disconnected

ASSUME ViewsOK ==
  Session \subseteq Nat /\ IsFiniteSet(Session) /\ DisconnectedMs \in Nat

(* The elements of a finite set, in a strict order (a set of pairs).  Like  *)
(* the stable sort of what is kept of a list, it is written so that it can   *)
(* be reasoned about: SetToSortSeq and SelectSeq are recursive inside.       *)
InOrder(elements, order) ==
  LET Place(x) == Cardinality({y \in elements : <<y, x>> \in order}) + 1
  IN [k \in 1..Cardinality(elements) |-> CHOOSE x \in elements : Place(x) = k]

Sorted(list, Keeps(_), Precedes(_, _)) ==
  LET kept == {i \in DOMAIN list : Keeps(list[i])}
      order == {p \in kept \X kept :
                  \/ Precedes(list[p[1]], list[p[2]])
                  \/ ~Precedes(list[p[2]], list[p[1]]) /\ p[1] < p[2]}
      places == InOrder(kept, order)
  IN [k \in DOMAIN places |-> list[places[k]]]

Position(list, x) == CHOOSE i \in DOMAIN list : list[i] = x

------------------------------------------------------------------------------
(* The sessions, as buildOperationalSessions lists them: the rows, then the *)
(* sessions that only posted events, each with the last heard of first.     *)
HasRow(store) == store.row # NoRow
Known(stores) == {s \in Session : HasRow(stores[s]) \/ stores[s].session.known}
Touched(store) == IF HasRow(store) THEN store.row.updatedAt ELSE store.session.lastEventAt

SignalAt(store) ==
  IF HasRow(store) THEN LastSignal(RowOf(store))
  ELSE Newest({store.session.endedAt, store.session.lastEventAt})
AgentSignalAt(store) ==
  IF HasRow(store)
  THEN Newest({LastHeartbeat(RowOf(store)), LastActivity(RowOf(store)), SignalAt(store)})
  ELSE SignalAt(store)

Confidence(card) ==
  IF card.category = "unknown" THEN 0
  ELSE IF card.reason \in {"missing_runtime_signal", "stale_runtime",
                           "legacy_active_without_runtime"} THEN 1 ELSE 2

ApiItem(s, store, now) ==
  LET item == Board(store, now)
  IN [id |-> s, category |-> item.category, primary |-> item.primary,
      action |-> item.action, board |-> item.board, confidence |-> Confidence(item),
      source |-> IF HasRow(store) THEN store.row.owner.id ELSE "none",
      signalAt |-> SignalAt(store), agentAt |-> AgentSignalAt(store),
      at |-> Touched(store)]

OperationalSessions(stores, now) ==
  LET known == Known(stores)
      listed == InOrder(known, {p \in known \X known : p[1] < p[2]})
      items == [i \in DOMAIN listed |-> ApiItem(listed[i], stores[listed[i]], now)]
      All(item) == TRUE
      First(a, b) ==
        \/ HasRow(stores[a.id]) /\ ~HasRow(stores[b.id])
        \/ HasRow(stores[a.id]) = HasRow(stores[b.id]) /\ a.at > b.at
  IN Sorted(items, All, First)

CategoryOrder == <<"needs_action", "degraded_active", "unknown", "review", "live",
                   "historical">>
Recent(item) == IF item.signalAt # 0 THEN item.signalAt ELSE item.at
SortOperational(items, onBoard) ==
  LET Keeps(item) == item.board <=> onBoard
      Ranks(a, b) ==
        \/ Position(CategoryOrder, a.category) < Position(CategoryOrder, b.category)
        \/ a.category = b.category /\ Recent(a) > Recent(b)
  IN Sorted(items, Keeps, Ranks)

------------------------------------------------------------------------------
(* Who reports, and whether anybody does. *)
SourceStatus(items, now) ==
  LET heard(item) == IF item.agentAt # 0 THEN item.agentAt ELSE item.at
      lastAt == Newest({heard(item) : item \in items})
  IN IF \E item \in items : item.board THEN "active"
     ELSE IF Age(lastAt, now) <= ColdMs THEN "idle"
     ELSE IF Age(lastAt, now) <= DisconnectedMs THEN "stale" ELSE "disconnected"

(* Rows are grouped by their source.  No source marks itself as             *)
(* uninstrumented, and every row has been written at some time.             *)
Sources(items, now) ==
  LET names == {items[i].source : i \in DOMAIN items} \ {"none"}
      Of(name) == {items[i] : i \in {j \in DOMAIN items : items[j].source = name}}
  IN [name \in names |-> SourceStatus(Of(name), now)]

IngestionStatus(sources, visible, historical) ==
  LET Some(status) == \E name \in DOMAIN sources : sources[name] = status
  IN IF DOMAIN sources = {}
     THEN IF historical > 0 THEN "historical_only" ELSE "no_sources_configured"
     ELSE IF Some("active") \/ visible > 0 THEN "active"
     ELSE IF Some("idle") THEN "idle"
     ELSE IF Some("stale") THEN "stale" ELSE "disconnected"

Answer(items, onBoard, now) ==
  LET Visible(item) == item.board
      visible == Len(SelectSeq(items, Visible))
      historical == Len(items) - visible
      sources == Sources(items, now)
  IN [sessions |-> SortOperational(items, onBoard), sources |-> sources,
      ingestion |-> IngestionStatus(sources, visible, historical),
      historical |-> historical]

MissionControl(stores, now) == Answer(OperationalSessions(stores, now), TRUE, now)
History(stores, now) == Answer(OperationalSessions(stores, now), FALSE, now)

(* A session nobody has stored is not found. *)
SessionDetail(stores, s, now) ==
  IF s \in Known(stores) THEN <<ApiItem(s, stores[s], now)>> ELSE <<>>

------------------------------------------------------------------------------
(* The dashboard. *)

StatusOrder == <<"waiting_on_human_input", "needs_intervention", "awaiting_assignment",
                 "waiting_for_review", "running", "unknown", "parked_idle",
                 "done_historical">>

(* Mutant: the cards are left in the order of the answer. *)
AsAnswered(a, b) == FALSE

CompareMissionSessions(a, b) ==
  LET byStatus == Position(StatusOrder, a.primary) - Position(StatusOrder, b.primary)
  IN \/ byStatus < 0
     \/ byStatus = 0 /\ a.confidence < b.confidence
     \/ /\ byStatus = 0 /\ a.confidence = b.confidence
        /\ a.signalAt > b.signalAt

MissionSessions(sessions) ==
  LET Kept(item) == item.board /\ item.category # "historical"
  IN Sorted(sessions, Kept, CompareMissionSessions)

HistorySessions(sessions) ==
  LET Kept(item) == ~item.board /\ item.category = "historical"
  IN SelectSeq(sessions, Kept)

(* What the board page says above and around its cards. *)
BoardViewModel(answer) ==
  LET cards == MissionSessions(answer.sessions)
      Running_(card) == card.primary = "running"
      Calls(card) == card.action
      connected == {n \in DOMAIN answer.sources : answer.sources[n] \in {"active", "idle"}}
  IN [cards |-> cards, running |-> Len(SelectSeq(cards, Running_)),
      attention |-> Len(SelectSeq(cards, Calls)), connected |-> Cardinality(connected),
      ingestion |-> answer.ingestion, history |-> answer.historical]

(* The detail page prefers the detail to the lists. *)
FindProjectionSession(s, lists) ==
  LET Match(item) == item.id = s
      found == [i \in DOMAIN lists |-> SelectSeq(lists[i], Match)]
      hits == {i \in DOMAIN lists : found[i] # <<>>}
  IN IF hits = {} THEN <<>>
     ELSE <<Head(found[CHOOSE i \in hits : \A j \in hits : i <= j])>>

=============================================================================
