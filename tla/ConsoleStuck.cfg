SPECIFICATION ConsoleSpec
CONSTANTS
  N = 3
  CAP = 2
  LF = LF
  CR = CR
  k = k
  Bytes = {LF, CR, k}
  NoKey = NoKey
PROPERTY KeysReachRing
