SPECIFICATION Spec
CONSTANTS
  Machine <- MCMachine
  Process <- MCProcess
  MachineOf <- MCMachineOf
  Config <- MCConfig
  Legacy <- MCLegacy
  MaxSaves = 2
  MaxRestores = 1
  MaxRuns = 2
INVARIANTS WorkingBranchStaysHome NewestFilesWin
PROPERTIES HistoryGrows
CHECK_DEADLOCK FALSE
