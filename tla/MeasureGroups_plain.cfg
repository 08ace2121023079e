SPECIFICATION Spec
CONSTANTS
  Steps = 3
  Bsec2 = FALSE
  MaxCycle = 2
INVARIANTS
  MixedOnlyAfterLoss
  NoneDropped
