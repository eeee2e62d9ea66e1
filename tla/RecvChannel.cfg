SPECIFICATION FairSpec
CONSTANTS
  Size = 7
  HeadLen = 2
  Lens = {1, 2}
  BufLens = {1, 2}
  CountWrap = 3
  MaxAppend = 3
  MaxCrash = 1
INVARIANTS
  IInv
  WholePacketsInOrder
  UnreadIntact
  CallOnARealPacket
PROPERTIES
  EveryPacketTaken
  ImplementsStream
CHECK_DEADLOCK FALSE
