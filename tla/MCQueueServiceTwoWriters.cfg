SPECIFICATION FairSpec
CONSTANTS
  Names = {n1}
  Items = {a}
  NotFound = NotFound
  NoOp = NoOp
  Nobody = Nobody
  Writers = {w1, w2}
  Readers = {r1}
  MaxItems = 2
  QITEM_MIN_SEQ = 3
  QITEM_MAX_SEQ = 8
VIEW WritersView
PROPERTIES
  TransactionsAreAtomic
  CallsReturn
