SPECIFICATION Spec
CONSTANTS
  t1 = t1
  t2 = t2
  t3 = t3
  a = a
  b = b
  MutexThreads = {t1, t2, t3}
  NoHolder = NoHolder
  ResetHolder = ResetHolder
  Threads = {t1, t2, t3, t4}
  Initial = 2
  Quantities = {1}
  MaxQuantity = 2
  Callers = {t1, t2, t3}
  Values = {a, b}
  CallsOf <- MCCallsOf
  Readers = {t1, t2}
  Writers = {t3, t4}
  ReadKinds = {"block", "timed"}
  WriteKinds = {"block", "timed", "try"}
  Resolvers = {t1, t2}
  Keys = {k1, k2, k3}
  MaxSize = 2
  ExpireSeconds = {0, 1}
  MaxTime = 1
  MaxIndex = 3
  Nobody = Nobody
INVARIANTS
  PlainMutexExact
  NeverOverGranted
  NoLostWakeup
  LocksTrue
  SizeBounded
  CachedAreIndexed
PROPERTIES
  ImplementsSyncCell
  WaitsEnd
