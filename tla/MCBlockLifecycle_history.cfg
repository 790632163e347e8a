SPECIFICATION Spec
CONSTANTS
  Hash = {h1, h2, h3}
  NoHash = NoHash
  Submission = {s1, s2}
  Attempts = 2
  Maturity = 2
  MaxBlocks = 2
  MaxFinds = 3
  MaxFaults = 2
  MaxReorgs = 1
INVARIANTS TypeOK TakenIsKnown CandidateHasTask
SYMMETRY MCSymmetry
CHECK_DEADLOCK FALSE
