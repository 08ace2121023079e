SPECIFICATION Spec
CONSTANTS
  IndexSize = 5
  MaxMade = 11
INVARIANTS
  TypeOK
PROPERTIES
  FieldStreamSpec
  GapsOnlyByOverwriting
