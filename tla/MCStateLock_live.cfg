SPECIFICATION FairLockSpec
CONSTANTS
  p1 = p1
  p2 = p2
  p3 = p3
  Proc <- Processes
  Nobody = Nobody
  Patient <- Processes
  Periodic = {p1}
  Mortal = {p2, p3}
  DeathPoints <- Anywhere
  PidReuse = FALSE
  WriteGap = TRUE
  UnlinkFails = FALSE
PROPERTIES
  StaleLockRemoved
  CallReturns
