SPECIFICATION FairSpec
CONSTANTS
  Hosts = {h1, h2}
  Plain = plain
  Absent = absent
  Disturbances = 3
INVARIANTS
  TypeOK
  LatestCredentials
PROPERTIES
  CredentialsReused
  EventuallyServes
  StopsOncePublished
