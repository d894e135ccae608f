SPECIFICATION Spec
CONSTANTS
  Execution = {e1, e2}
  Program <- FewPrograms
  NoProgram = NoProgram
  MaxStreams = 2
  Limit = 0
  PipeCapacity = 1
SYMMETRY Symmetry
INVARIANTS OneCompletion TrackedWhileRunning
PROPERTIES StopKillsStarted
CHECK_DEADLOCK FALSE
