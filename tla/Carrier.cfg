SPECIFICATION FairSpec
CONSTANTS
  Fds = {0, 2, 3, 4}
  Cids = {c}
  IsManager = TRUE
  Ids = {1, 9}
  Managers = {1}
  a = a
  b = b
  Addrs = {a, b}
  Configs <- MCConfigs
  MaxSignals = 1
INVARIANTS
  IInv
  OneOwner
  LookupAgrees
  ListMatchesMarks
  ItemsAgree
PROPERTIES
  ReloadKeepsConnections
  ConnectedInTheEnd
