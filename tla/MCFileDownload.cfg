SPECIFICATION FairSpec
CONSTANTS
  File = {"two", "empty"}
  Chunks <- ChunksOf
  NoFile = NoFile
  Garbage = Garbage
  MaxRetries = 2
  Path = {p}
  Call = {d1, d2}
INVARIANTS TypeOK DestinationWhole SuccessDelivers
PROPERTIES CallEnds
