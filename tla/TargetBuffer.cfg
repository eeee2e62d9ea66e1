SPECIFICATION Spec
CONSTANTS
  PackMax = 2
  Mega = 6
  SendSize = 2
  Over = 1
  SafeOver = 1
  PackLens = {1, 2}
  InnerLens = {2}
INVARIANTS
  IInv
  UnsentInOrder
  DroppedOnlyAtLimit
  BlockedIsBeingFlushed
PROPERTY
  ImplementsAmounts
