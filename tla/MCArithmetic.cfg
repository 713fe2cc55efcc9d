CONSTANTS
  Offsets <- MCOffsets
  WORD = 16
  WORDS = 3
  OMEGA = 7
  Moduli <- MCModuli
  Factors <- MCFactors
  LIMIT = 512
  InvModuli <- MCInvModuli
  CURVE_P = 499
  CURVE_B = 11
  CURVE_N = 457
  CURVE_G <- MCG
  Secrets <- MCSecrets
  Signatures <- MCSignatures
  Hashed <- MCHashed
  BYTE = 4
  uECC_WORD_SIZE = 2
  Orders = {19, 41, 67, 131, 257}
  HashBytes <- MCHashBytes
  PrivateKeys <- MCKeys
  RandomWords = {0, 2, 498, 499}
  MAX_TRIES = 2
  Compressed <- MCCompressed
  Uncompressed <- MCUncompressed
SPECIFICATION MCSpec
INVARIANTS
  ResetJumpsToBootloader
  DigestsStandard
  ReducedResult
  InverseLoop
  Bits2IntRight
  TracksTheSum
  VerdictRight
  PublicKeyRight
  PointsChecked
PROPERTIES
  InverseEnds
CHECK_DEADLOCK FALSE
