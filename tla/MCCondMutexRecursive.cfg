SPECIFICATION Spec
CONSTANTS
  Threads = {t1, t2, t3}
  NoHolder = NoHolder
  ResetHolder = ResetHolder
  Recursive = TRUE
  MaxDepth = 3
INVARIANTS
  MutualExclusion
  HolderTestExact
  CountExact
PROPERTY
  ImplementsMonitor
