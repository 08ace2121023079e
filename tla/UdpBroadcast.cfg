SPECIFICATION FairSpec
CONSTANTS
  main = main
  bme688 = bme688
  third = third
  Threads <- ThreeThreads
INVARIANTS
  TypeOK
  OneStartEach
  SettledConnected
PROPERTIES
  SendFailsOnlyInRace
  CallLeadsToConnected
