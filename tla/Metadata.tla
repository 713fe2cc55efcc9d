----------------------------- MODULE Metadata -----------------------------
(***************************************************************************)
(* What lies below the bootloader in the program memory: the signature,    *)
(* and above it the code size (bootloader/main.c:18-21).                   *)
(***************************************************************************)
EXTENDS ByteFlash

CONSTANTS
  RADIX,         \* how many values a byte has: 256
  NumOf(_),      \* the number a byte stands for
  ByteOf(_),     \* and back
  BTLD_OFFSET,   \* the bootloader's own code begins here
  SIGNAT_SIZE    \* 64 in the code

CODE_SIZE_BYTES == 3
CODE_SIZE_OFFSET == BTLD_OFFSET - CODE_SIZE_BYTES
SIGNAT_OFFSET == CODE_SIZE_OFFSET - SIGNAT_SIZE

ASSUME LayoutAssumption ==
  /\ BTLD_OFFSET \in Nat /\ SIGNAT_SIZE \in Nat
  /\ BTLD_OFFSET <= TOP
  /\ SIGNAT_OFFSET > 8

ASSUME ByteAssumption ==
  /\ RADIX \in Nat /\ RADIX > 0
  /\ \A byte \in Byte : NumOf(byte) \in 0 .. RADIX - 1
  /\ \A n \in 0 .. RADIX - 1 : ByteOf(n) \in Byte /\ NumOf(ByteOf(n)) = n

\* Three bytes, the highest first.
SizeBytes(n) ==
  <<ByteOf((n \div (RADIX * RADIX)) % RADIX), ByteOf((n \div RADIX) % RADIX),
    ByteOf(n % RADIX)>>

SizeFrom(d) == NumOf(d[1]) * RADIX * RADIX + NumOf(d[2]) * RADIX + NumOf(d[3])
============================================================================
