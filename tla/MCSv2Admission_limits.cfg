SPECIFICATION FairSpec
CONSTANTS
  c1 = c1
  c2 = c2
  c3 = c3
  c4 = c4
  a = a
  b = b
  Conn <- MCConn
  NoConn = NoConn
  Addr = {a, b}
  AddrOf <- MCAddrOf
  MaxConnections = 3
  MaxPerIp = 2
  MaxHandshakes = 1
INVARIANTS TypeOK LimitsHold PermitsBalance CountersAgree
PROPERTIES HandshakesHappen Drains
CHECK_DEADLOCK FALSE
