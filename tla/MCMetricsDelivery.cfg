SPECIFICATION FairSpec
CONSTANTS
  Sample = {s1, s2, s3, s4}
  NoSample = NoSample
  Reporter = {r1, r2}
  Ticker = r1
  Flusher = {f1, f2}
  CacheSize = 2
INVARIANTS TypeOK CacheBounded SingleCustody
PROPERTIES StoreSpec CacheDrains
