SPECIFICATION Spec
CONSTANTS
  NoRow = NoRow
  Rejected = Rejected
  NoFile = NoFile
  FreshMs = 0
  ColdMs = 1
  ExpiredMs = 2
  LegacyHistoryMs = 3
  ReviewStaleMs = 4
  ActionableStaleMs = 4
  RecentActivityMs = 1
  StaleFileMs = 2
  Session <- MCSession
  MaxCommands = 3
  MaxAtOnce = 2
  MaxTime = 6
INVARIANTS
  FileIsShown
  ClosedStaysClosed
CHECK_DEADLOCK FALSE
