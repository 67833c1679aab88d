SPECIFICATION FairSpec
CONSTANTS
  NoRow = NoRow
  Rejected = Rejected
  FreshMs = 0
  ColdMs = 1
  ExpiredMs = 2
  LegacyHistoryMs = 3
  ReviewStaleMs = 6
  ActionableStaleMs = 6
  RecentActivityMs = 1
  a = a
  b = b
  Agent = {a, b}
  Shared = Shared
  AgentOf <- MCAgentOf
  Hooks <- MCHooks
  StaleSessionMs = 2
  LifecycleReassertMs = 2
  MaxChanges = 2
  LastChange = 2
  MaxTime = 4
  MaxTicks = 2
  MaxFaults = 1
INVARIANTS
  TypeOK
  LivenessIsOwned
PROPERTIES
  TurnReachesBoard
CHECK_DEADLOCK FALSE
