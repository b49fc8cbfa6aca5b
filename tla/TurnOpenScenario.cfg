\* Three turns of an open scenario: a warning, its confirmation, and a second try.
CONSTANTS
  r1 = r1
  r2 = r2
  r3 = r3
  w1 = w1
  w2 = w2
  n1 = n1
  n2 = n2
  none = none
  Requests <- ThreeRequests
  NoTurn <- none
  Resolvers <- OneResolver
  Narrators <- OneNarrator
  InputKinds = {"free", "registered", "confirm"}
  OpenScenario = TRUE
  MaxAttempts = 1
  Budget = 2
  MaxFaults = 0
SPECIFICATION Spec
INVARIANTS
  ProposalAppliedOnce
