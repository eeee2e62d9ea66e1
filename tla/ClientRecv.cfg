SPECIFICATION CarrierSpec
CONSTANTS
  Clients = {c1, c2}
  Lens = {2}
  VerifyLen = 1
  PackMax = 2
  Over = 1
  MainBuffSize = 4
  MaxClientBuff = 5
  RecvSize = 4
  MaxSent = 6
  MaxLost = 1
INVARIANTS IInv RecvHasSpace CompleteInOrder
PROPERTIES DroppedOnlyAtLimit OnlyVerified HandlerEnds
CHECK_DEADLOCK FALSE
