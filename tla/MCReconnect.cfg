SPECIFICATION FairSpec
CONSTANTS
  Worker = {w1, w2, w3}
  MaxRetries = 0
  HasCredentials = TRUE
  AttemptCap = 2
INVARIANTS TypeOK OneWorkerInSection ConnectedMeansOpen NoLeakedConnection AtMostTwoWorkers
PROPERTIES WorkerSucceeds StopsCleanly
