\* Several hundred small definitions; the budget is smaller than the largest graphs.
CONSTANTS
  none = none
  NoRef <- none
  Drafts <- SomeDrafts
  StateLimit = 6
  SceneLimit = 3
  FlagLimit = 2
  ActionLimit = 4
SPECIFICATION Spec
INVARIANTS
  VerdictIsExact
  BudgetIsExact
CHECK_DEADLOCK FALSE
