CONSTANTS
  Threads = {t1, t2}
  MaxPly = 0
  k1 = k1
  k2 = k2
  k3 = k3
  Keys = {k1, k2}
  Buckets = {0}
  Hash <- OneBucket
  METs = {m1, m2}
  Locking = TRUE
  NoKey = NoKey
  NoValue = NoValue
SPECIFICATION FairSpec
INVARIANTS
  TypeOK
  MutualExclusion
  EntriesAreTrue
PROPERTIES
  TransparentCache
  LocksAreReleased
