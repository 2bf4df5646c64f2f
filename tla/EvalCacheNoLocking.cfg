CONSTANTS
  Threads = {t1}
  MaxPly = 1
  k1 = k1
  k2 = k2
  k3 = k3
  Keys = {k1, k2, k3}
  Buckets <- MCBuckets
  Hash <- TwoBuckets
  METs = {m1}
  Locking = FALSE
  NoKey = NoKey
  NoValue = NoValue
SPECIFICATION Spec
PROPERTIES
  LeastRecentlyUsed
