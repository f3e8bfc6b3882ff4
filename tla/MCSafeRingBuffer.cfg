SPECIFICATION Spec
CONSTANTS
  Threads = {t1, t2, t3}
  Elements = {e1, e2, e3}
  Capacity = 2
  NoElement = NoElement
INVARIANTS TypeOK Exclusive OneOwner
PROPERTIES CachedForGood PoolSpec
