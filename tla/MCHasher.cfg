CONSTANTS
  MaxBlocks = 3
  WipeThreshold = 2
  ThreadCounts = {1, 2}
SPECIFICATION HasherSpec
INVARIANTS
  NoRatchet
  AtRest
PROPERTY PoolOutlivesCalls
