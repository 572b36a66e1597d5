CONSTANTS
  t1 = t1
  t2 = t2
  t3 = t3
  Threads <- ThreeThreads
  Hosts <- SomeHosts
  MaxCalls = 2
SPECIFICATION Spec
SYMMETRY ThreadSymmetry
INVARIANTS
  AnswersCanRun
  AgreeUnlessTimed
