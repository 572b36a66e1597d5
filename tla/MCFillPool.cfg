CONSTANTS
  leader = leader
  h1 = h1
  h2 = h2
  Leader <- leader
  Helpers <- TwoHelpers
  Lanes = 3
  Passes = 2
  GenModulus = 2
SPECIFICATION Spec
SYMMETRY HelperSymmetry
INVARIANTS
  DisjointSegments
  EarlierStepsHappenBefore
  TraceIsQuiescent
  ReturnsOnlyWhenFilled
PROPERTY ImplementsFillSpec
