SPECIFICATION FairSpec
CONSTANTS
  Hash = {h1, h2}
  NoHash = NoHash
  Submission = {s1, s2}
  Attempts = 2
  Maturity = 2
  MaxBlocks = 1
  MaxFinds = 3
  MaxFaults = 2
  MaxReorgs = 1
PROPERTIES VerdictIsReached RewardSettles
CHECK_DEADLOCK FALSE
