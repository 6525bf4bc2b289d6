SPECIFICATION Spec
CONSTANTS
  Threads = {t1, t2}
  Keys = {k1, k2}
  MaxSize = 2
  ExpireSeconds = {1}
  MaxTime = 0
  MaxIndex = 4
  Nobody = Nobody
INVARIANT
  EvictionAssert
