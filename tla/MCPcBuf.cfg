SPECIFICATION FairSpec
CONSTANTS
  Threads = {t1, t2, t3}
  Values = {a, b}
  Capacity = 2
  NoResult = NoResult
  CallsOf <- MCCallsOf
  Pushers = {t2}
  Poppers = {t2, t3}
  Clearers = {t3}
  TimedPushers = {t1}
  TimedPoppers = {t3}
INVARIANTS
  NoLostWakeup
PROPERTIES
  ImplementsBoundedFifo
  CallsProgress
