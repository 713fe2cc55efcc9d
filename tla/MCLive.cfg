CONSTANTS
  A = A
  B = B
  Big = Big
  Images = {A, B}
  Blks <- MCBlks
  CodeCell <- MCCodeCell
  SigCell <- MCSigCell
  SizeCell <- MCSizeCell
  NoiseCell <- MCNoise
  UserCell <- MCUserCell
  None = None
  ERASED = ERASED
  GOTO_BTLD = GOTO_BTLD
  GARBLED = GARBLED
  ERASE_BLK_CNT = 3
  LineMax = 6
  MaxSessions = 2
  MaxFaults = 0
  Timely = TRUE
  CutPoints = {}
SPECIFICATION FairSpec
PROPERTIES
  SessionSucceeds
CHECK_DEADLOCK FALSE
