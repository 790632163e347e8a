SPECIFICATION FairSpec
CONSTANTS
  g = g
  a1 = a1
  weak = weak
  strong = strong
  Block <- MCBlock
  Height <- MCHeight
  NoBlock = NoBlock
  ForbidsOld = {}
  SetupFlag = {"rolling", "standard"}
  VersionRolling = "rolling"
  Difficulty = {1, 2}
  StartDifficulty = 1
  VersionBit = {b1, b2}
  JobVersion = {b1}
  VersionMask = {b2}
  Pow = {weak}
  Quality <- MCShareQuality
  NetworkDifficulty = 2
  JobLimit = 2
  ShareLimit = 1
  MaxTemplates = 3
  MaxGen = 0
  MaxOpens = 2
  MaxRetargets = 1
  MaxSubmits = 2
INVARIANTS TypeOK TargetsAgree OneTip NoReplay
PROPERTIES ChannelsFollowEngine JobsKeepTheirWork
CHECK_DEADLOCK FALSE
