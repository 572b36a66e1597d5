CONSTANTS
  Lengths = {1, 2, 3, 4, 5, 6, 7}
  MaxWorkers = 3
  Units = {1, 2, 4}
  Starts = {0, 4, 6}
  PageBytes = 8
  SaltLengths = {0, 1, 4, 5}
  EntropyMax = 2
  MaxInterrupts = 2
  Threads <- ModelThreads
  Sizes = {3, 4, 5, 7, 60}
  PageSize = 2
  HugePage = 4
  Top = 24
  MaxAddress = 63
  MaxLeaks = 1
  Word = 1024
  MaxLanes = 127
  BoundedMaxSalt = 16
  Texts <- MCTexts
  Ceilings <- MCCeilings
SPECIFICATION SinglesSpec
INVARIANTS
  WipesEverything
  StripesApart
  ArenaStaysMapped
  SlackGivenBack
  DrawIsWhole
  WithinCeiling
  DecodeIsGated
  OwnStringsPass
  DecodersAgree
PROPERTIES
  DrawEnds
