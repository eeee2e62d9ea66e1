SPECIFICATION FairSpec
CONSTANTS
  PackMax = 2
  Mega = 14
  SendSize = 4
  Over = 1
  SafeOver = 1
  Ids = {8}
  PackLens = {2}
  InnerLens = {1}
  OwnRoom = 2
  MaxReload = 1
  MaxKill = 0
PROPERTY
  BlockingEndsAlways
