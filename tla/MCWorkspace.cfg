CONSTANTS
  MaxBlocks = 3
  WipeThreshold = 2
  ThreadCounts = {1, 2}
SPECIFICATION WorkspaceSpec
INVARIANTS
  KnownZeroedIsZero
  TailIsZero
  NothingFreedDirty
PROPERTIES
  AcquireReturnsZero
  ShrinksOnlyOnPurpose
