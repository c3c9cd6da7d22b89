SPECIFICATION Spec
CONSTANTS
  Keys = {empty, k1, k2}
  EmptyKey = empty
  Values = {a, b}
  NotFound = NotFound
  NoOp = NoOp
  Writers = {w1}
  Readers = {r1}
  Nobody = Nobody
  MaxKeys = 2
SYMMETRY KeyAndValueSymmetry
INVARIANTS
  TypeOK
  PositiveAnswerIsStored
  UndisturbedReadsAreSnapshots
PROPERTY
  ImplementsMap
