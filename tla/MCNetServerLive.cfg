SPECIFICATION FairSpec
CONSTANTS
  Fds = {1}
  Conns = {c1, c2}
  NoConn = NoConn
  Readers = {r1}
  Writers = {w1}
  Parts = 2
  MaxRequests = 2
  SendBuf = 1
PROPERTY
  EveryRequestIsAnswered
