SPECIFICATION Spec
CONSTANTS
  PackMax = 2
  Mega = 14
  SendSize = 4
  Over = 1
  SafeOver = 1
  Ids = {15}
  PackLens = {2}
  InnerLens = {1}
  OwnRoom = 2
  MaxReload = 0
  MaxKill = 1
INVARIANT
  NoDropForSpace
