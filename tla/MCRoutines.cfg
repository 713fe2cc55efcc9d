CONSTANTS
  At = At
  B = B
  T = T
  L = L
  Lf = Lf
  MSG <- MCMsg
  Stale = {x}
  TIMEOUT = 14
  MaxWire = 5
  MaxKills = 1
  MaxLost = 2
  Bits = {0}
  TOP = 9
  FLASH_BLOCK_SIZ = 3
  Calls <- MCCalls
SPECIFICATION MCSpec
INVARIANTS
  AcceptsOnlyHandshake
  SecondHandshakeHeard
  WritesPrefix
  OnlyTheTarget
PROPERTY
  ExpectReturns
CHECK_DEADLOCK FALSE
