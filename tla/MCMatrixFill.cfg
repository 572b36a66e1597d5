CONSTANTS
  Word = 32
  SegmentLength = 4
  Lanes = 2
  Passes = 2
  AddressesInBlock = 3
  Seeds = {0, 1, 5, 6}
  Leftovers = {0, 17}
SPECIFICATION Spec
INVARIANTS
  ReadsAreSettled
  CarriedIsPrevious
  WindowFollowed
  TagIsDeterministic
