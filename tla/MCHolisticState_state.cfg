SPECIFICATION Spec
CONSTANTS
  a = a
  b = b
  l = l
  c1 = c1
  m1 = m1
  Cli = {c1}
  Mcp = {}
  None = None
  Step = {a}
  Lesson = {l}
  DefaultStep = a
  DefaultLesson = l
  MaxPending = 2
  MaxSessions = 3
  Ages = FALSE
  AutoDrafts = TRUE
  SaveFails = TRUE
INVARIANTS
  PendingIsHistory
  LastHandoffIsLatest
  DraftIsFaithful
PROPERTIES
  WorkConserved
