SPECIFICATION FairSpec
CONSTANTS
  c1 = c1
  c2 = c2
  r1 = r1
  Chans = {c1, c2}
  Writers = {w1, w2}
  Linkers = {l1}
  Readers = {r1}
  ReadsFrom <- MCReadsFrom
  Nobody = Nobody
  MaxWrites = 2
INVARIANT
  NoLostWakeup
PROPERTIES
  ImplementsBroadcast
  CallsEnd
