CONSTANTS
  Lengths = {12}
  MaxWorkers = 2
  Units = {1}
  Starts = {0}
  PageBytes = 4
SPECIFICATION StripeSpec
INVARIANTS
  StripesOwnPages
