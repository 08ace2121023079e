SPECIFICATION Spec
CONSTANTS
  Oversamplings <- FewOversamplings
  Durations <- EdgeDurations
  Multipliers <- EdgeMultipliers
INVARIANTS
  WaitCoversMeasurement
  HeatsAsAsked
