SPECIFICATION StoreSpec
CONSTANTS
  Names = {n1}
  Items = {a, b}
  NotFound = NotFound
  NoOp = NoOp
  QITEM_MIN_SEQ = 3
  QITEM_MAX_SEQ = 9
SYMMETRY ItemSymmetry
INVARIANTS
  TypeOK
  QueuesWellFormed
PROPERTY
  ImplementsDeque
