SPECIFICATION FairSpec
CONSTANTS
  Size = 7
  HeadLen = 2
  Lens = {1, 2, 3}
  CountWrap = 3
  MaxSend = 4
  MaxCrash = 1
INVARIANTS
  IInv
  WholePacketsInOrder
  UnreadIntact
  CopyFits
PROPERTIES
  EveryPacketFetched
  ImplementsStream
CHECK_DEADLOCK FALSE
