SPECIFICATION ConsoleSpec
CONSTANTS
  N = 4
  CAP = 2
  LF = LF
  CR = CR
  k = k
  Bytes = {LF, CR, k}
  NoKey = NoKey
INVARIANTS TypeOK RingIsQueue DeliversOldest InterruptMeansKey
PROPERTIES NoKeyMeansEmpty KeysAreRead KeysKeepOrder
