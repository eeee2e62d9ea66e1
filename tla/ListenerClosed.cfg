SPECIFICATION Spec
CONSTANTS
  Fds = {0, 2, 3, 4}
  Cids = {c}
  IsManager = FALSE
  Ids = {1, 9}
  Managers = {1}
  a = a
  b = b
  Addrs = {a, b}
  Configs <- MCConfigs
  MaxSignals = 1
INVARIANT
  StaysReachable
