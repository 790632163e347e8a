SPECIFICATION Spec
CONSTANTS
  g = g
  a1 = a1
  b1 = b1
  Block <- MCPair
  Height <- MCPairHeight
  NoBlock = NoBlock
  ForbidsOld = {}
  Difficulty = {1, 2}
  StartDifficulty = 1
  Retargeter = {"vardiff", "submit", "suggest"}
  VersionBit = {v1, v2}
  MaskChoice = {{v1}}
  VbRequired = {v2}
  Pow = {p1}
  BlockPow = {p1}
  JobLimit = 2
  MaxId = 9
  DupLimit = 1
  BucketCapacity = 0
  MaxTemplates = 2
  MaxGen = 0
  MaxAuthorize = 2
  MaxRetargets = 2
  MaxSubmits = 3
INVARIANTS TypeOK NoReplay
PROPERTY StaleCheckIsRight
CHECK_DEADLOCK FALSE
