SPECIFICATION Spec
CONSTANTS
  Threads = {t1}
  Keys = {k1, k2}
  MaxSize = 2
  ExpireSeconds = {1}
  MaxTime = 2
  MaxIndex = 4
  Nobody = Nobody
PROPERTY
  EntriesExpire
