SPECIFICATION Spec
CONSTANTS
  g = g
  a1 = a1
  b1 = b1
  Block <- MCPair
  Height <- MCPairHeight
  NoBlock = NoBlock
  ForbidsOld = {}
  Difficulty = {1, 2}
  StartDifficulty = 1
  Retargeter = {}
  VersionBit = {v1, v2}
  MaskChoice = {{}, {v1}}
  VbRequired = {v2}
  Pow = {p1, p2}
  BlockPow = {p1, p2}
  JobLimit = 3
  MaxId = 9
  DupLimit = 2
  BucketCapacity = 1
  MaxTemplates = 1
  MaxGen = 1
  MaxAuthorize = 1
  MaxRetargets = 0
  MaxSubmits = 1
INVARIANT MaskMatchesJob
CHECK_DEADLOCK FALSE
