SPECIFICATION Spec
CONSTANTS
  Lens = {5, 6, 10}
  NbSteps = 10
INVARIANTS
  TypeOK
  ConfigurationHolds
  ReadAsAsked
PROPERTIES
  ConfigureOnlyAsleep
  ForcedPassDelivers
