CONSTANTS
  BufSize = 3
  MaxSize = 6
  MaxSent = 6
  MaxPeer = 5
  MaxConns = 2
  Vars = {x, y}
  Names = {a}
  MaxCells = 4
  MaxArray = 1
  LruKeys = {k1, k2, k3}
  LruValues = {1, 2}
  Fresh = 1
  LruSize = 2
  MaxUses = 6
  InternKeys = {k1, k2, k3}
  Objects = {o1, o2}
  TreeSize = 7
  MaxIncreases = 3
  MaxCalls = 3
  MaxLosses = 2
  MaxRefusals = 2
  Int32Max = 7
  RowBuf = 2
  MaxNumber = 20
  MaxText = 5
  MaxTerm = 4
  MaxComponent = 2
  AQuote = AQuote
  AComma = AComma
  ACr = ACr
  ALf = ALf
  AChar = AChar
  FieldEnd = FieldEnd
  RowEnd = RowEnd
SPECIFICATION Spec
INVARIANTS StreamsExact ClonesApart IdsExact SumsExact RunsOnce AtomicUnlessBroken MathExact SqlReadBack CsvExact
PROPERTIES ImplementsRecencyList
CHECK_DEADLOCK FALSE
