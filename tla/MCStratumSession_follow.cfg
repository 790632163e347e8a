SPECIFICATION FairSpec
CONSTANTS
  g = g
  a1 = a1
  b1 = b1
  Block <- MCBlock
  Height <- MCHeight
  NoBlock = NoBlock
  ForbidsOld = {1}
  Difficulty = {1, 2}
  StartDifficulty = 1
  Retargeter = {}
  VersionBit = {v1}
  MaskChoice = {}
  VbRequired = {}
  Pow = {p1, p2}
  BlockPow = {p1, p2}
  JobLimit = 2
  MaxId = 3
  DupLimit = 2
  BucketCapacity = 1
  MaxTemplates = 6
  MaxGen = 1
  MaxAuthorize = 1
  MaxRetargets = 0
  MaxSubmits = 0
INVARIANTS JobIdsDistinct JobsOnOneTip MinerHasNewest
PROPERTY MinerFollowsTip
CHECK_DEADLOCK FALSE
