------------------------------- MODULE Sha256 -------------------------------
(***************************************************************************)
(* sha256_init(), sha256_update() and sha256_final() of sha256/sha256.c:   *)
(* how the bytes of a message fill blocks, and the last blocks are padded. *)
(* The compression function is not computed: two messages have the same    *)
(* state when the same blocks have been transformed.                       *)
(***************************************************************************)
EXTENDS Metadata

CONSTANTS
  BLOCK,         \* the bytes of a block: 64
  LENGTH_BYTES,  \* the bytes of the length at the end of the last block: 8
  BYTE_BITS      \* 8

ASSUME BlockAssumption ==
  /\ LENGTH_BYTES \in Nat /\ BYTE_BITS \in Nat
  /\ BLOCK \in Nat /\ LENGTH_BYTES < BLOCK

MARK == ByteOf(RADIX \div 2)   \* 0x80

ZERO == ByteOf(0)

\* data, whose first datalen bytes are of the block that is being filled, and
\* what has been transformed, in place of state.  At first data holds what was
\* on the stack: here it is bytes that no padding has.
sha256_init ==
  [data |-> [k \in 1 .. BLOCK |-> ERASED], datalen |-> 0, bitlen |-> 0,
   transformed |-> << >>]

Transform(ctx) == [ctx EXCEPT !.transformed = Append(@, ctx.data)]

\* Mutant: the length of a message counts whole blocks only once.
UpdateByteUncounted(ctx, byte) ==
  LET filled == [ctx EXCEPT !.data[ctx.datalen + 1] = byte, !.datalen = @ + 1]
  IN  IF filled.datalen = BLOCK
        THEN [Transform(filled) EXCEPT !.bitlen = BLOCK * BYTE_BITS, !.datalen = 0]
        ELSE filled

UpdateByte(ctx, byte) ==
  LET filled == [ctx EXCEPT !.data[ctx.datalen + 1] = byte, !.datalen = @ + 1]
  IN  IF filled.datalen = BLOCK
        THEN [Transform(filled) EXCEPT !.bitlen = @ + BLOCK * BYTE_BITS, !.datalen = 0]
        ELSE filled

sha256_update(ctx, bytes) ==
  LET upTo[k \in 0 .. Len(bytes)] ==
        IF k = 0 THEN ctx ELSE UpdateByte(upTo[k - 1], bytes[k])
  IN  upTo[Len(bytes)]

\* The length in bits, highest byte first.
LengthBytes(bits) ==
  [k \in 1 .. LENGTH_BYTES |-> ByteOf((bits \div RADIX^(LENGTH_BYTES - k)) % RADIX)]

\* The mark and zeros from datalen on; when the length does not fit behind
\* them, a block of its own for it.
Padded(ctx) ==
  LET Mark(last) ==
        [k \in 1 .. BLOCK |->
           IF k = ctx.datalen + 1 THEN MARK
           ELSE IF k \in ctx.datalen + 2 .. last THEN ZERO
           ELSE ctx.data[k]]
      limit == BLOCK - LENGTH_BYTES
  IN  IF ctx.datalen < limit
        THEN [ctx EXCEPT !.data = Mark(limit)]
        ELSE LET full == Transform([ctx EXCEPT !.data = Mark(BLOCK)])
             IN  [full EXCEPT !.data =
                    [k \in 1 .. BLOCK |-> IF k <= limit THEN ZERO ELSE @[k]]]

sha256_final(ctx) ==
  LET bits == ctx.bitlen + ctx.datalen * BYTE_BITS
      limit == BLOCK - LENGTH_BYTES
      padded == Padded(ctx)
  IN  Transform([padded EXCEPT
        !.bitlen = bits,
        !.data = [k \in 1 .. BLOCK |->
                    IF k <= limit THEN @[k] ELSE LengthBytes(bits)[k - limit]]])

-----------------------------------------------------------------------------

\* What the standard hashes for a message: the message, a 1 bit, as few zeros
\* as fill whole blocks with the length, which comes last.
Sha256Message(bytes) ==
  LET zeros == (BLOCK - 1 - LENGTH_BYTES - Len(bytes)) % BLOCK
  IN  bytes \o <<MARK>> \o [k \in 1 .. zeros |-> ZERO]
        \o LengthBytes(Len(bytes) * BYTE_BITS)

BlocksOf(bytes) ==
  [n \in 1 .. Len(bytes) \div BLOCK |->
     SubSeq(bytes, (n - 1) * BLOCK + 1, n * BLOCK)]
=============================================================================
