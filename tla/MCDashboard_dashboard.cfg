SPECIFICATION Spec
CONSTANTS
  NoRow = NoRow
  Rejected = Rejected
  FreshMs = 1
  ColdMs = 2
  ExpiredMs = 3
  LegacyHistoryMs = 4
  ReviewStaleMs = 5
  ActionableStaleMs = 5
  DisconnectedMs = 3
  RecentActivityMs = 3
  Session <- MCSession
  Reports <- MCReports
  PageKind = {"board", "history", "detail"}
  Opened = 1
  FetchMs = 1
  BeatMs = 2
  Bound <- MCBound
  MaxFaults = 1
INVARIANTS TypeOK PageIsRecent NoUpdateLost DemandsFirst
CHECK_DEADLOCK FALSE
