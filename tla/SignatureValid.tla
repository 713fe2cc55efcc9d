-------------------------- MODULE SignatureValid --------------------------
(***************************************************************************)
(* signature_valid() of bootloader/main.c: what it feeds to SHA-256, chunk *)
(* by chunk, before uECC_verify() compares the hash with the signature.    *)
(*                                                                         *)
(* The code size is a uint24_t, so subtracting a chunk from it wraps.      *)
(***************************************************************************)
EXTENDS Metadata

CONSTANTS
  CHUNK,     \* sizeof(flread): 64
  SIZE_MOD   \* one more than the largest uint24_t

ASSUME ChunkAssumption ==
  /\ CHUNK \in Nat /\ CHUNK >= 8
  /\ SIZE_MOD \in Nat /\ SIZE_MOD > CHUNK

VARIABLES
  step,    \* where signature_valid() is, "off" when it is not running
  siz,     \* what is left to hash
  addr,    \* where it goes on
  hashed   \* the bytes SHA-256 has been fed

verifyVars == <<step, siz, addr, hashed>>
validVars == <<flash, verifyVars>>

\* The code size in the metadata.
StoredSize(f) == SizeFrom(ReadBytes(f, CODE_SIZE_OFFSET, CODE_SIZE_BYTES))

VerifyInit ==
  /\ step = "size" /\ siz = 0 /\ addr = 0 /\ hashed = << >>

ValidInit ==
  /\ flash \in [Addr -> Byte]
  /\ VerifyInit

-----------------------------------------------------------------------------

ReadSize ==
  /\ step = "size"
  /\ siz' = StoredSize(flash) % SIZE_MOD
  /\ step' = "first"
  /\ UNCHANGED <<flash, addr, hashed>>

\* Mutant: the bytes the GOTO was moved to are hashed as they are.
RelocatedHalf(chunk) ==
  [k \in 1 .. CHUNK |-> IF k <= 4 THEN chunk[k + 4] ELSE chunk[k]]

\* The user's GOTO as if it were still at address 0, and 0xFF where it is.
Relocated(chunk) ==
  [k \in 1 .. CHUNK |->
     IF k <= 4 THEN chunk[k + 4] ELSE IF k <= 8 THEN ERASED ELSE chunk[k]]

\* The first chunk is read and hashed whatever siz is.
HashFirst ==
  /\ step = "first"
  /\ hashed' = Relocated(ReadBytes(flash, 0, CHUNK))
  /\ siz' = (siz - CHUNK) % SIZE_MOD
  /\ addr' = CHUNK
  /\ step' = "loop"
  /\ UNCHANGED flash

\* Mutant: a size that is a multiple of the chunk leaves one chunk over.
HashChunkStrict ==
  /\ step = "loop" /\ siz > CHUNK
  /\ hashed' = hashed \o ReadBytes(flash, addr, CHUNK)
  /\ siz' = siz - CHUNK
  /\ addr' = addr + CHUNK
  /\ UNCHANGED <<flash, step>>

HashChunk ==
  /\ step = "loop" /\ siz >= CHUNK
  /\ hashed' = hashed \o ReadBytes(flash, addr, CHUNK)
  /\ siz' = siz - CHUNK
  /\ addr' = addr + CHUNK
  /\ UNCHANGED <<flash, step>>

HashRest ==
  /\ step = "loop" /\ siz < CHUNK
  /\ hashed' = IF siz = 0 THEN hashed ELSE hashed \o ReadBytes(flash, addr, siz)
  /\ step' = "verify"
  /\ UNCHANGED <<flash, siz, addr>>

VerifyNext == ReadSize \/ HashFirst \/ HashChunk \/ HashRest

ValidSpec == ValidInit /\ [][VerifyNext]_validVars /\ WF_validVars(VerifyNext)

-----------------------------------------------------------------------------

ValidTypeOK ==
  /\ flash \in [Addr -> Byte]
  /\ step \in {"off", "size", "first", "loop", "verify"}
  /\ siz \in 0 .. SIZE_MOD - 1
  /\ addr \in Nat
  /\ hashed \in Seq(Byte)

\* The user code as the hex file had it: n bytes of the memory with its GOTO
\* moved back from address 4 to address 0.
ImageByte(f, a) ==
  IF a < 4 THEN f[a + 4]
  ELSE IF a < 8 THEN ERASED
  ELSE IF a \in DOMAIN f THEN f[a] ELSE {}

ImageOf(f, n) == [k \in 1 .. n |-> ImageByte(f, k - 1)]

(***************************************************************************)
(* What is hashed is the user code, all of it and nothing else, whatever   *)
(* its size is modulo the chunk - if it is a chunk at least.               *)
(***************************************************************************)
HashesTheImage ==
  LET size == StoredSize(flash) % SIZE_MOD IN
    step = "verify" /\ size >= CHUNK => hashed = ImageOf(flash, size)

(***************************************************************************)
(* "bootloader reads and computes the SHA256 checksum of the flashed       *)
(* firmware(on a count of `size` bytes from previous step)" (README.md:80) *)
(***************************************************************************)
HashesSizeBytes ==
  step = "verify" => Len(hashed) = StoredSize(flash) % SIZE_MOD

(***************************************************************************)
(* The loop ends, whatever is in the metadata: even for a size that has    *)
(* wrapped or was never programmed (main.c:230-239).                       *)
(***************************************************************************)
Verifies == step = "size" ~> step = "verify"
============================================================================
