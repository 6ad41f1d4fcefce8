SPECIFICATION Spec
CONSTANTS
  N = 4
  k1 = k1
  k2 = k2
  k3 = k3
  Bytes = {k1, k2, k3}
  NoKey = NoKey
CHECK_DEADLOCK TRUE
INVARIANT TakesWhatItReturns
