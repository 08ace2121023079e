SPECIFICATION Spec
CONSTANTS
  FirstSave = 1
  Period = 4
  MaxLate = 1
  Words = 2
  Faults <- FlashFaults
  MaxUptime = 6
  MaxTaken = 3
INVARIANTS
  StoreInv
PROPERTIES
  SavedStateSpec
