SPECIFICATION FairSpec
CONSTANTS
  Clients = {c1}
  Lens = {2}
  VerifyLen = 1
  PackMax = 2
  Over = 1
  MainBuffSize = 4
  MaxClientBuff = 5
  RecvSize = 4
  MaxSent = 3
  MaxLost = 0
PROPERTIES KeptIsDelivered
CHECK_DEADLOCK FALSE
