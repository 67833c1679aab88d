SPECIFICATION FairTaskSpec
CONSTANTS
  NoStatus = NoStatus
  MaxOutput <- ShortOutput
  Restarts = TRUE
INVARIANTS
  TerminalIsStamped
PROPERTIES
  EndedRowIsStable
  EndAgrees
  ExitIsRecorded
CHECK_DEADLOCK FALSE
