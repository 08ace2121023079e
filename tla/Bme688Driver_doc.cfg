SPECIFICATION Spec
CONSTANTS
  Lens = {5, 10}
  NbSteps = 10
INVARIANTS
  AsDocumented
