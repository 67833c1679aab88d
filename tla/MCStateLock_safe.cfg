SPECIFICATION LockSpec
CONSTANTS
  p1 = p1
  p2 = p2
  p3 = p3
  Proc <- Processes
  Nobody = Nobody
  Patient = {p1}
  Periodic = {}
  Mortal <- Processes
  DeathPoints <- InCriticalOnly
  PidReuse = TRUE
  WriteGap = FALSE
  UnlinkFails = TRUE
INVARIANTS
  HolderOwnsFile
  MutualExclusion
PROPERTIES
  ImplementsLock
