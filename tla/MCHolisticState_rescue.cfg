SPECIFICATION Spec
CONSTANTS
  a = a
  b = b
  l = l
  c1 = c1
  m1 = m1
  Cli = {c1}
  Mcp = {m1}
  None = None
  Step = {a, b}
  Lesson = {l}
  DefaultStep = a
  DefaultLesson = l
  MaxPending = 2
  MaxSessions = 2
  Ages = TRUE
  AutoDrafts = FALSE
  SaveFails = FALSE
PROPERTIES
  AnswersKept
  RescuedAnswersKept
