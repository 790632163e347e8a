SPECIFICATION FairSpec
CONSTANTS
  g = g
  a1 = a1
  a2 = a2
  b1 = b1
  NoBlock = NoBlock
  Block <- MCPair
  Parent <- MCPairParent
  Height <- MCPairHeight
  Genesis = g
  NodeRejects = {a1, b1}
  WrongBits = {}
  BadPow = {}
  FastHeight = {3}
  UnsupportedRules = {}
  Unbuildable = {}
  RefreshTask = {r1}
  Longpoll = Longpoll
  P2P = P2P
  Nobody = Nobody
  MaxGen = 1
  MaxZmq = 1
  MaxFaults = 1
  MaxAnnouncements = 1
PROPERTY FastJobIsReplaced
