SPECIFICATION FairSpec
CONSTANTS
  g = g
  a1 = a1
  b1 = b1
  Block <- MCPair
  Height <- MCPairHeight
  NoBlock = NoBlock
  ForbidsOld = {}
  Difficulty = {1, 2}
  StartDifficulty = 1
  Retargeter = {"vardiff"}
  VersionBit = {v1}
  MaskChoice = {}
  VbRequired = {}
  Pow = {p1, p2}
  BlockPow = {p1, p2}
  JobLimit = 3
  MaxId = 9
  DupLimit = 2
  BucketCapacity = 1
  MaxTemplates = 2
  MaxGen = 1
  MaxAuthorize = 1
  MaxRetargets = 1
  MaxSubmits = 0
PROPERTY MinerFollowsTip
CHECK_DEADLOCK FALSE
