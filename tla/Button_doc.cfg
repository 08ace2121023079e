SPECIFICATION Spec
CONSTANTS
  ShortPress = 2
  LongPress = 8
PROPERTIES
  DocumentedLongPress
