SPECIFICATION FairDaemonSpec
CONSTANTS
  f = f
  g = g
  main = main
  dev = dev
  p1 = p1
  p2 = p2
  None = None
  NoPid = NoPid
  File = {f, g}
  Branch = {main, dev}
  Pid = {p1, p2}
  Threshold = 2
  QuietTicks = 1
  Meanwhile = {{}, {f}}
  Andon = TRUE
INVARIANTS
  EditsTracked
  SoleOwner
PROPERTIES
  NoRefire
  QuietLeadsToCheckpoint
