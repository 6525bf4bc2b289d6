SPECIFICATION Spec
CONSTANTS
  Readers = {r1, r2}
  Writers = {w1}
  ReadKinds = {"try"}
  WriteKinds = {"block"}
  Nobody = Nobody
INVARIANT
  BeliefExact
