CONSTANTS
  A = A
  B = B
  Big = Big
  Images = {A, Big}
  Blks <- MCBlks
  CodeCell <- MCCodeCell
  SigCell <- MCSigCell
  SizeCell <- MCSizeCell
  NoiseCell <- MCNoise
  UserCell <- MCUserCell
  None = None
  ERASED = ERASED
  GOTO_BTLD = GOTO_BTLD
  GARBLED = GARBLED
  ERASE_BLK_CNT = 3
  LineMax = 6
  MaxSessions = 3
  MaxFaults = 1
  Timely = FALSE
  CutPoints = {"boot", "user", "read", "spare", "backup", "erase", "restore", "recv"}
SPECIFICATION Spec
INVARIANTS
  TypeOK
  UnharmedRunsBootloader
  NoMixedImages
PROPERTIES
  CutRestartsBootloader
  EraseReturnsBlank
  DoneMeansInstalled
  KeepsPromise
  ImplementsEraseFlash
