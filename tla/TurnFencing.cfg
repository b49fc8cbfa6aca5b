\* One turn of an open scenario, two workers for each phase, two faults: who may
\* write, and that the turn closes.
CONSTANTS
  r1 = r1
  r2 = r2
  r3 = r3
  w1 = w1
  w2 = w2
  n1 = n1
  n2 = n2
  none = none
  Requests <- OneRequest
  NoTurn <- none
  Resolvers <- TwoResolvers
  Narrators <- TwoNarrators
  InputKinds = {"free", "registered"}
  OpenScenario = TRUE
  MaxAttempts = 2
  Budget = 2
  MaxFaults = 2
SPECIFICATION FairSpec
INVARIANTS
  TypeOK
  OneHolder
  EventsMatchTurns
  CallsWithinBudget
PROPERTIES
  OutcomeIsFinal
  StopIsObeyed
  EveryTurnCloses
