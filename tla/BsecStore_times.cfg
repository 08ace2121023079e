SPECIFICATION Spec
CONSTANTS
  FirstSave = 2
  Period = 4
  MaxLate = 2
  Words = 1
  Faults <- AllFaults
  MaxUptime = 16
  MaxTaken = 3
INVARIANTS
  TypeOK
  WearBound
  StoredIsRecent
PROPERTIES
  SavesSpaced
  QuietUntilFirstSave
