SPECIFICATION Spec
CONSTANTS
  Threads = {t1, t2}
  Initial = 2
  Quantities = {1, 2}
  MaxQuantity = 4
INVARIANT
  NeverOverGranted
