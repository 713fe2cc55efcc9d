-------------------------------- MODULE Vli --------------------------------
(***************************************************************************)
(* The multi-word integers ("vli") of bootloader/uECC/uECC.c that          *)
(* uECC_verify() computes with: sequences of words, the lowest word first. *)
(* Words wrap; a carry is found by comparing the wrapped sum with a        *)
(* summand, as the C code does it.                                         *)
(***************************************************************************)
EXTENDS Numbers, Sequences

CONSTANTS
  WORD,    \* 2^uECC_WORD_BITS, 2^32 on this MCU
  WORDS,   \* num_words: 8
  OMEGA    \* 0x3D1: the prime is CAPACITY - WORD - OMEGA

WORD_BITS == NumBits(WORD - 1)

ASSUME VliAssumption ==
  /\ WORD \in Nat /\ WORD >= 4 /\ WORD = Power(2, WORD_BITS)
  /\ WORDS \in Nat /\ WORDS >= 3 /\ WORDS <= WORD
  /\ OMEGA \in 1 .. WORD - 1

Word == 0 .. WORD - 1

Bit(condition) == IF condition THEN 1 ELSE 0

\* One more than the largest number that WORDS words can hold.
CAPACITY == Power(WORD, WORDS)

\* The number that the words of x stand for, and the n words of a number.
Num(x) == NumberOf(x, WORD)

WordsOf(k, n) == [i \in 1 .. n |-> (k \div Power(WORD, i - 1)) % WORD]

Zeros(n) == [i \in 1 .. n |-> 0]

Low(x) == SubSeq(x, 1, WORDS)

High(x) == SubSeq(x, WORDS + 1, 2 * WORDS)

-----------------------------------------------------------------------------

\* left + right: the words and the carry out of the last one.
vli_add(left, right) ==
  LET upTo[i \in 0 .. Len(left)] ==
        IF i = 0 THEN [words |-> << >>, carry |-> 0]
        ELSE LET before == upTo[i - 1]
                 sum == (left[i] + right[i] + before.carry) % WORD
             IN  [words |-> Append(before.words, sum),
                  carry |-> IF sum # left[i] THEN Bit(sum < left[i])
                            ELSE before.carry]
  IN  upTo[Len(left)]

\* left - right: the words and the borrow.
vli_sub(left, right) ==
  LET upTo[i \in 0 .. Len(left)] ==
        IF i = 0 THEN [words |-> << >>, borrow |-> 0]
        ELSE LET before == upTo[i - 1]
                 diff == (left[i] - right[i] - before.borrow) % WORD
             IN  [words |-> Append(before.words, diff),
                  borrow |-> IF diff # left[i] THEN Bit(diff > left[i])
                             ELSE before.borrow]
  IN  upTo[Len(left)]

\* uECC_vli_cmp_unsafe(): the highest word that differs decides.
vli_cmp(left, right) ==
  LET differ == {i \in 1 .. Len(left) : left[i] # right[i]} IN
    IF differ = {} THEN 0
    ELSE LET top == CHOOSE i \in differ : \A j \in differ : j <= i
         IN  IF left[top] > right[top] THEN 1 ELSE -1

vli_rshift1(x) ==
  [i \in 1 .. Len(x) |->
     (x[i] \div 2) + IF i < Len(x) THEN (x[i + 1] % 2) * (WORD \div 2) ELSE 0]

\* One product added to the three words of the column sum, lowest first.
muladd(a, b, r) ==
  LET p == a * b
      r01 == (r[2] * WORD + r[1] + p) % (WORD * WORD)
  IN  <<r01 % WORD, r01 \div WORD, (r[3] + Bit(r01 < p)) % WORD>>

\* uECC_vli_mult(): column by column, each beginning with the carries of the
\* one before.
vli_mult(left, right) ==
  LET Column(k, r) ==
        LET first == IF k <= WORDS THEN 1 ELSE k + 1 - WORDS
            last == IF k <= WORDS THEN k ELSE WORDS
            upTo[i \in first - 1 .. last] ==
              IF i < first THEN r
              ELSE muladd(left[i], right[k + 1 - i], upTo[i - 1])
        IN  upTo[last]
      upTo[k \in 0 .. 2 * WORDS - 1] ==
        IF k = 0 THEN [words |-> << >>, r |-> <<0, 0, 0>>]
        ELSE LET before == upTo[k - 1]
                 r == Column(k, before.r)
             IN  [words |-> Append(before.words, r[1]), r |-> <<r[2], r[3], 0>>]
      columns == upTo[2 * WORDS - 1]
  IN  Append(columns.words, columns.r[1])

\* omega_mult_secp256k1(): right times WORD + OMEGA, in WORDS + 2 words.
omega_mult(right) ==
  LET upTo[k \in 0 .. WORDS] ==
        IF k = 0 THEN [words |-> << >>, carry |-> 0]
        ELSE LET before == upTo[k - 1]
                 p == OMEGA * right[k] + before.carry
             IN  [words |-> Append(before.words, p % WORD),
                  carry |-> p \div WORD]
      low == upTo[WORDS]
      high == vli_add(Append(Tail(low.words), low.carry), right)
  IN  <<low.words[1]>> \o high.words \o <<high.carry>>
=============================================================================
