------------------------------ MODULE VliBytes ------------------------------
(***************************************************************************)
(* How the bytes of a hash become the number that uECC_verify() computes   *)
(* with: bits2int() of bootloader/uECC/uECC.c, for a hash of any length.   *)
(***************************************************************************)
EXTENDS Vli

CONSTANTS
  BYTE,            \* the values of a byte: 256
  uECC_WORD_SIZE,  \* the bytes of a word: 4
  Orders,          \* the orders of the curves
  HashBytes        \* the hashes, sequences of bytes

BYTE_SIZE == NumBits(BYTE - 1)

uECC_WORD_BITS == uECC_WORD_SIZE * BYTE_SIZE

ASSUME VliBytesAssumption ==
  /\ BYTE \in Nat /\ BYTE > 1 /\ BYTE = Power(2, BYTE_SIZE)
  /\ uECC_WORD_SIZE \in Nat \ {0} /\ WORD = Power(BYTE, uECC_WORD_SIZE)
  /\ Orders \subseteq Nat \ {0}
  /\ HashBytes \subseteq Seq(0 .. BYTE - 1)

VARIABLES
  bpc,     \* the next step
  curve_n, \* the order
  bits,    \* the argument
  native   \* the result, words

bitsVars == <<bpc, curve_n, bits, native>>

num_bits == NumBits(curve_n)

RoundedUp(a, b) == (a + b - 1) \div b

num_n_bytes == RoundedUp(num_bits, BYTE_SIZE)

num_n_words == RoundedUp(num_bits, uECC_WORD_BITS)

\* A longer hash is cut.
bits_size == IF Len(bits) > num_n_bytes THEN num_n_bytes ELSE Len(bits)

BitsInit ==
  /\ bpc = "take"
  /\ curve_n \in Orders /\ bits \in HashBytes
  /\ native = Zeros(num_n_words)

-----------------------------------------------------------------------------

\* num_bytes - 1 - i: the last byte is the lowest.
LowestFirst(bytes) == [k \in 1 .. Len(bytes) |-> bytes[Len(bytes) + 1 - k]]

\* uECC_vli_bytesToNative(): the last bytes are those of the first word.
BytesToNative(bytes, words) ==
  LET Lowest(b) == IF b <= Len(bytes) THEN LowestFirst(bytes)[b] ELSE 0 IN
    [w \in 1 .. words |->
       NumberOf([j \in 1 .. uECC_WORD_SIZE |-> Lowest((w - 1) * uECC_WORD_SIZE + j)], BYTE)]

\* uECC_vli_nativeToBytes()
NativeToBytes(words, n) ==
  [k \in 1 .. n |->
     (words[((n - k) \div uECC_WORD_SIZE) + 1]
        \div Power(BYTE, (n - k) % uECC_WORD_SIZE)) % BYTE]

Take ==
  /\ bpc = "take"
  /\ native' = BytesToNative(SubSeq(bits, 1, bits_size), num_n_words)
  /\ bpc' = IF bits_size * BYTE_SIZE <= num_bits THEN "done" ELSE "shift"
  /\ UNCHANGED <<curve_n, bits>>

\* Mutant: the bits that leave a word are lost.
ShiftedApart(words, n) == [w \in 1 .. Len(words) |-> words[w] \div Power(2, n)]

\* Every word gets the lowest n bits of the one above as its highest.
Shifted(words, n) ==
  [w \in 1 .. Len(words) |->
     (words[w] \div Power(2, n))
       + IF w < Len(words)
           THEN (words[w + 1] * Power(2, uECC_WORD_BITS - n)) % WORD
           ELSE 0]

Shift ==
  /\ bpc = "shift"
  /\ native' = Shifted(native, bits_size * BYTE_SIZE - num_bits)
  /\ bpc' = "reduce"
  /\ UNCHANGED <<curve_n, bits>>

Reduce ==
  /\ bpc = "reduce"
  /\ LET n == WordsOf(curve_n, num_n_words) IN
       native' = IF vli_cmp(n, native) # 1 THEN vli_sub(native, n).words
                 ELSE native
  /\ bpc' = "done"
  /\ UNCHANGED <<curve_n, bits>>

BitsNext == Take \/ Shift \/ Reduce

BitsSpec == BitsInit /\ [][BitsNext]_bitsVars

-----------------------------------------------------------------------------

\* The number with these bytes, the highest first.
BytesNum(bytes) == NumberOf(LowestFirst(bytes), BYTE)

\* The number that ECDSA takes from a hash: its leftmost bits, as many as the
\* order has.
Leftmost ==
  LET size == Len(bits) * BYTE_SIZE IN
    IF size > num_bits THEN BytesNum(bits) \div Power(2, size - num_bits)
    ELSE BytesNum(bits)

(***************************************************************************)
(* Whatever the lengths of hash, order, bytes and words, bits2int() takes  *)
(* the number of ECDSA, up to a multiple of the order that uECC_verify()   *)
(* does not see; what it cut within a byte is also reduced.  The words     *)
(* have the same bytes again (uECC.c:994-1013 and 1097-1133).              *)
(***************************************************************************)
Bits2IntRight ==
  bpc = "done" =>
    /\ Num(native) % curve_n = Leftmost % curve_n
    /\ bits_size * BYTE_SIZE > num_bits => Num(native) < curve_n
    /\ BytesNum(NativeToBytes(native, num_n_bytes)) = Num(native)
=============================================================================
