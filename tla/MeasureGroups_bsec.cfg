SPECIFICATION Spec
CONSTANTS
  Steps = 2
  Bsec2 = TRUE
  MaxCycle = 2
INVARIANTS
  TypeOK
  MixedOnlyWithoutStart
  IaqOfGroup
PROPERTIES
  GroupsInOrder
