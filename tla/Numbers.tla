------------------------------ MODULE Numbers ------------------------------
(* The bits of a number, as bootloader/uECC/uECC.c counts and tests them.    *)
EXTENDS Integers, Sequences

\* base to the n, as a function: the provers know no law of ^.
Power(base, n) ==
  LET upTo[k \in 0 .. n] == IF k = 0 THEN 1 ELSE base * upTo[k - 1]
  IN  upTo[n]

\* The number with these digits, the lowest first.
NumberOf(digits, base) ==
  LET upTo[k \in 0 .. Len(digits)] ==
        IF k = 0 THEN 0 ELSE upTo[k - 1] + digits[k] * Power(base, k - 1)
  IN  upTo[Len(digits)]

\* uECC_vli_numBits(): the bits that k needs.
NumBits(k) == CHOOSE n \in 0 .. k : Power(2, n) > k /\ (n = 0 \/ Power(2, n - 1) <= k)

\* uECC_vli_testBit()
TestBit(k, i) == (k \div Power(2, i)) % 2 = 1
============================================================================
