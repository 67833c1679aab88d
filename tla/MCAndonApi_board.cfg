SPECIFICATION Spec
CONSTANTS
  NoRow = NoRow
  Rejected = Rejected
  FreshMs = 0
  ColdMs = 1
  ExpiredMs = 2
  LegacyHistoryMs = 3
  ReviewStaleMs = 4
  ActionableStaleMs = 4
  RecentActivityMs = 1
  Reports <- MCReports
  ServiceTypes <- MCServiceTypes
  MaxPosts = 3
  LastPost = 3
  MaxTime = 7
INVARIANTS
  TypeOK
  RequestsAreShown
  RedeliveryHarmless
PROPERTIES
  TimeDemandsNothing
  DemandsLeaveByAge
  NoRewind
