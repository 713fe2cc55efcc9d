CONSTANTS
  ERASE_BLK_CNT = 4
  ERASED = ERASED
  GOTO_BTLD = GOTO_BTLD
  GARBLED = GARBLED
  UserCell = {code}
  CutPoints = {"boot", "user", "read", "spare", "backup", "erase", "restore", "recv"}
SPECIFICATION EraseSpec
INVARIANT
  ResetRunsBootloader
