SPECIFICATION Spec
CONSTANTS
  Programs <- MCPrograms
  Values = {0, 3}
  MaxVariables = 2
  NullContainer = NullContainer
  NullBuffer = NullBuffer
INVARIANTS IdsIdentify BuffersReady ReadsLatest
CHECK_DEADLOCK FALSE
