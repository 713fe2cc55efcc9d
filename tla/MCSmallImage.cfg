CONSTANTS
  Bits = {0, 1}
  RADIX = 4
  NumOf <- BitsToNum
  ByteOf <- NumToBits
  TOP = 20
  BTLD_OFFSET = 16
  SIGNAT_SIZE = 2
  ADDR_MOD = 32
  CHUNK = 8
  SIZE_MOD = 64
  BLOCK = 8
  LENGTH_BYTES = 4
  BYTE_BITS = 2
  Vector <- MCVector
  JunkByte <- MCJunkByte
  Requests <- MCRequests
  Memories <- MCMemories
  None = None
SPECIFICATION DeviceSpec
INVARIANT
  HashesSizeBytes
