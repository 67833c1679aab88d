SPECIFICATION FairStoreSpec
CONSTANTS
  s1 = s1
  s2 = s2
  k1 = k1
  k2 = k2
  c1 = c1
  Nil = Nil
  OldSession = {s1, s2}
  Keeper = {k1, k2}
  Command = {c1}
  MaxFaults = 2
INVARIANTS
  NoSessionLost
PROPERTIES
  StaleSettles
  LookupFinds
