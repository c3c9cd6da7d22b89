SPECIFICATION FairSpec
CONSTANTS
  Fds = {1}
  Conns = {c1}
  NoConn = NoConn
  Readers = {r1}
  Writers = {w1}
  Parts = 1
  MaxRequests = 2
  SendBuf = 1
PROPERTY
  OutputIsFlushed
