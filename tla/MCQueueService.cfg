SPECIFICATION Spec
CONSTANTS
  Names = {n1}
  Items = {a, b}
  NotFound = NotFound
  NoOp = NoOp
  Nobody = Nobody
  Writers = {w1}
  Readers = {r1}
  MaxItems = 2
  QITEM_MIN_SEQ = 3
  QITEM_MAX_SEQ = 8
SYMMETRY ItemSymmetry
INVARIANTS
  CallIsAPrefix
  PeekIsRightWithoutPops
