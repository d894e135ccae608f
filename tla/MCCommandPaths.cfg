SPECIFICATION FairSpec
CONSTANTS
  Execution = {e1}
  Program <- AllPrograms
  NoProgram = NoProgram
  MaxStreams = 2
  Limit = 0
  PipeCapacity = 1
INVARIANTS TypeOK CompletedMeansExited
PROPERTIES TameCommandsAnswered ServiceSpec
CHECK_DEADLOCK FALSE
