\* Two turns in a row with a stale worker of the first still at work.
CONSTANTS
  r1 = r1
  r2 = r2
  r3 = r3
  w1 = w1
  w2 = w2
  n1 = n1
  n2 = n2
  none = none
  Requests <- TwoRequests
  NoTurn <- none
  Resolvers <- TwoResolvers
  Narrators <- OneNarrator
  InputKinds = {"free", "choice"}
  OpenScenario = FALSE
  MaxAttempts = 2
  Budget = 2
  MaxFaults = 1
SPECIFICATION Spec
SYMMETRY WorkerSymmetry
INVARIANTS
  OffersAreCurrent
PROPERTIES
  AppliesToExpectedState
  ImplementsContract
