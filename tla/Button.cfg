SPECIFICATION FairSpec
CONSTANTS
  ShortPress = 2
  LongPress = 8
INVARIANTS
  TypeOK
  PinIsKnown
PROPERTIES
  HoldStartsOnlyAfterLongPress
  RebootNeedsNewPress
  WipeCutOnlyByNewPress
  ClickOnlyIfShort
  HoldLeadsToWipe
  WipeLeadsToReboot
