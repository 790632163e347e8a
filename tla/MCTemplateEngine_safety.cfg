SPECIFICATION Spec
CONSTANTS
  g = g
  a1 = a1
  a2 = a2
  b1 = b1
  NoBlock = NoBlock
  Block <- MCBlock
  Parent <- MCParent
  Height <- MCHeight
  Genesis = g
  NodeRejects = {b1}
  WrongBits = {}
  BadPow = {b1}
  FastHeight = {3}
  UnsupportedRules = {a2}
  Unbuildable <- MCUnbuildable
  RefreshTask = {r1}
  Longpoll = Longpoll
  P2P = P2P
  Nobody = Nobody
  MaxGen = 1
  MaxZmq = 1
  MaxFaults = 1
  MaxAnnouncements = 2
INVARIANTS TypeOK OneHolder CopiesAgree
PROPERTIES ImplementsFeed FastExtendsCurrent
