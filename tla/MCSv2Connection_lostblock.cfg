SPECIFICATION Spec
CONSTANTS
  g = g
  a1 = a1
  weak = weak
  strong = strong
  Block <- MCBlock
  Height <- MCHeight
  NoBlock = NoBlock
  ForbidsOld = {}
  SetupFlag = {"rolling", "standard"}
  VersionRolling = "rolling"
  Difficulty = {1, 2}
  StartDifficulty = 1
  VersionBit = {b1, b2}
  JobVersion = {b1}
  VersionMask = {b2}
  Pow = {weak, strong}
  Quality <- MCQuality
  NetworkDifficulty = 3
  JobLimit = 2
  ShareLimit = 1
  MaxTemplates = 2
  MaxGen = 1
  MaxOpens = 1
  MaxRetargets = 1
  MaxSubmits = 1
INVARIANT BlockIsSubmitted
CHECK_DEADLOCK FALSE
