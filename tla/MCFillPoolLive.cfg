CONSTANTS
  leader = leader
  h1 = h1
  h2 = h2
  Leader <- leader
  Helpers <- TwoHelpers
  Lanes = 3
  Passes = 1
  GenModulus = 2
SPECIFICATION FairSpec
PROPERTY Terminates
