CONSTANTS
  Bits = {0, 1, 2, 3, 4, 5}
  RADIX = 64
  NumOf <- BitsToNum
  ByteOf <- NumToBits
  TOP = 38
  BTLD_OFFSET = 36
  SIGNAT_SIZE = 2
  ADDR_MOD = 64
  CHUNK = 8
  SIZE_MOD = 64
  SEGMENT = 16
  LAST_UPPER = 1
  Vector <- MCVector
  JunkByte <- MCJunkByte
  Requests = {}
  Files <- MCFiles
  Signature <- MCSignature
  None = None
SPECIFICATION TransferSpec
INVARIANTS
  HashesAgree
  InstallsTheFile
CHECK_DEADLOCK FALSE
