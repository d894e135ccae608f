SPECIFICATION Spec
CONSTANTS
  Execution = {e1}
  Program <- AllPrograms
  NoProgram = NoProgram
  MaxStreams = 2
  Limit = 0
  PipeCapacity = 1
INVARIANTS NoneRunsAfterExit
CHECK_DEADLOCK FALSE
