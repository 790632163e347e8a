SPECIFICATION FairSpec
CONSTANTS
  g = g
  a1 = a1
  a2 = a2
  b1 = b1
  NoBlock = NoBlock
  Block <- MCChain
  Parent <- MCChainParent
  Height <- MCChainHeight
  Genesis = g
  NodeRejects = {}
  WrongBits = {}
  BadPow = {}
  FastHeight = {3}
  UnsupportedRules = {}
  Unbuildable <- MCChainUnbuildable
  RefreshTask = {r1}
  Longpoll = Longpoll
  P2P = P2P
  Nobody = Nobody
  MaxGen = 1
  MaxZmq = 2
  MaxFaults = 1
  MaxAnnouncements = 1
PROPERTIES FollowsNode PendingIsTaken
