SPECIFICATION Spec
CONSTANTS
  Request <- Requests
  Configs <- AllConfigs
  Cwd <- Home
  Programs <- Files
  Starts <- Begins
  MaxText = 3
  MaxRoom = 6
  Written <- AllVersions
INVARIANTS
  NeverInherits
  TextRight
  OnlyConversionFails
  NewerIsGreater
PROPERTIES
  AdmittedExactly
  LateRefusalMeansChange
CHECK_DEADLOCK FALSE
