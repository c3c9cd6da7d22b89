SPECIFICATION Spec
CONSTANTS
  Fds = {1, 2}
  Conns = {c1, c2}
  NoConn = NoConn
  Readers = {r1, r2}
  Writers = {w1}
  Parts = 2
  MaxRequests = 2
  SendBuf = 1
SYMMETRY ConnAndReaderSymmetry
INVARIANTS
  TypeOK
  NoDanglingLink
  OneOwner
  FlagsAgree
  ResponsesInOrder
PROPERTY
  DroppedForAReason
