------------------------------ MODULE ModMult ------------------------------
(***************************************************************************)
(* The modular arithmetic of uECC_verify() (uECC.c, curve-specific.inc):   *)
(* uECC_vli_modAdd(), uECC_vli_modSub(), uECC_vli_modMult() for any        *)
(* modulus, which subtracts shifted multiples of it, and                   *)
(* uECC_vli_modMult_fast() for the prime of the curve, which folds the     *)
(* high half of the product into the low one.                              *)
(***************************************************************************)
EXTENDS Vli, Numbers

CONSTANTS
  Moduli,    \* the moduli of modMult(), numbers
  Factors(_) \* the pairs of numbers to compute with modulo m

\* The prime, and the pointer to its words curve->p.
Prime == CAPACITY - WORD - OMEGA

curve_p == WordsOf(Prime, WORDS)

\* "Currently only designed to work for curve_p or curve_n": the highest word
\* of a modulus is not zero.  The factors are any numbers that fit.
ASSUME ModuliAssumption ==
  /\ Moduli \subseteq Power(WORD, WORDS - 1) .. CAPACITY - 1
  /\ \A m \in Moduli \cup {Prime} :
       Factors(m) \subseteq (0 .. CAPACITY - 1) \X (0 .. CAPACITY - 1)

ASSUME PrimeAssumption == \A d \in 2 .. Prime - 1 : Prime % d # 0

VARIABLES
  left, right, mod,   \* the arguments, left and right as words
  mpc,                \* the function to call; the next step of modMult(),
                      \* "align" and "subtract", or of modMult_fast(),
                      \* "fold", "again", "carry"; what has returned
  product,            \* 2 * WORDS words: in mmod(), v[index]
  multiple,           \* mod_multiple: 2 * WORDS words
  shift,
  result, carry

multVars == <<left, right, mod, mpc, product, multiple, shift, result, carry>>

multArgs == <<left, right, mod>>

\* Only modMult() is given factors that are not reduced: the hash, which
\* bits2int() leaves at or above the order.
MultInit ==
  /\ mpc \in {"add", "sub", "mult", "multFast"}
  /\ \E m \in Moduli \cup {Prime} : \E f \in Factors(m) :
       /\ mod = m
       /\ mpc # "mult" => f[1] < m /\ f[2] < m
       /\ left = WordsOf(f[1], WORDS) /\ right = WordsOf(f[2], WORDS)
  /\ mpc = "multFast" => mod = Prime
  /\ mpc # "multFast" => mod \in Moduli
  /\ product = Zeros(2 * WORDS) /\ multiple = Zeros(2 * WORDS)
  /\ shift = 0 /\ result = Zeros(WORDS) /\ carry = 0

-----------------------------------------------------------------------------

ReturnResult(words, done) ==
  /\ result' = words /\ mpc' = done
  /\ UNCHANGED <<multArgs, product, multiple, shift, carry>>

ModAdd ==
  /\ mpc = "add"
  /\ LET sum == vli_add(left, right)
         reducible == sum.carry = 1 \/ vli_cmp(WordsOf(mod, WORDS), sum.words) # 1
     IN  ReturnResult(IF reducible THEN vli_sub(sum.words, WordsOf(mod, WORDS)).words
                      ELSE sum.words, "added")

ModSub ==
  /\ mpc = "sub"
  /\ LET difference == vli_sub(left, right) IN
       ReturnResult(IF difference.borrow = 1
                      THEN vli_add(difference.words, WordsOf(mod, WORDS)).words
                      ELSE difference.words, "subtracted")

-----------------------------------------------------------------------------
(* uECC_vli_modMult(): uECC_vli_mult(), uECC_vli_mmod().                   *)

Mult ==
  /\ mpc \in {"mult", "multFast"}
  /\ product' = vli_mult(left, right)
  /\ mpc' = IF mpc = "mult" THEN "align" ELSE "fold"
  /\ UNCHANGED <<multArgs, multiple, shift, result, carry>>

\* The highest bit of the modulus goes to the highest bit of mod_multiple: by
\* whole words, then by the bits left over, with the carry of each word.
AlignMod ==
  /\ mpc = "align"
  /\ shift' = 2 * WORDS * WORD_BITS - NumBits(mod)
  /\ LET x == WordsOf(mod, WORDS)
         bit_shift == shift' % WORD_BITS
         Carry(i) == IF i = 1 THEN 0 ELSE x[i - 1] \div Power(2, WORD_BITS - bit_shift)
     IN  multiple' = Zeros(shift' \div WORD_BITS)
           \o [i \in 1 .. WORDS |-> ((x[i] * Power(2, bit_shift)) % WORD) + Carry(i)]
  /\ mpc' = "subtract"
  /\ UNCHANGED <<multArgs, product, result, carry>>

\* Mutant: the bit that leaves the upper half is lost.
HalvedApart(x) == vli_rshift1(Low(x)) \o vli_rshift1(High(x))

\* mod_multiple is shifted in two halves.
Halved(x) ==
  LET low == vli_rshift1(Low(x))
      carried == [low EXCEPT ![WORDS] = @ + (High(x)[1] % 2) * (WORD \div 2)]
  IN  carried \o vli_rshift1(High(x))

\* The difference replaces the product (v[] are swapped) unless it borrows.
SubtractMultiple ==
  /\ mpc = "subtract" /\ shift >= 0
  /\ LET difference == vli_sub(product, multiple) IN
       product' = IF difference.borrow = 1 THEN product ELSE difference.words
  /\ multiple' = Halved(multiple)
  /\ shift' = shift - 1
  /\ UNCHANGED <<multArgs, mpc, result, carry>>

SetResult ==
  /\ mpc = "subtract" /\ shift < 0
  /\ ReturnResult(Low(product), "done")

-----------------------------------------------------------------------------
(* uECC_vli_modMult_fast(): uECC_vli_mult(), vli_mmod_fast_secp256k1().    *)

\* The words tmp + num_words of the code are kept in multiple.
FoldHigh ==
  /\ mpc = "fold"
  /\ LET tmp == omega_mult(High(product)) \o Zeros(WORDS - 2)
         sum == vli_add(Low(product), Low(tmp))
     IN  /\ multiple' = tmp
         /\ result' = sum.words /\ carry' = sum.carry
  /\ mpc' = "again"
  /\ UNCHANGED <<multArgs, product, shift>>

FoldAgain ==
  /\ mpc = "again"
  /\ LET sum == vli_add(result, Low(omega_mult(High(multiple)))) IN
       result' = sum.words /\ carry' = carry + sum.carry
  /\ mpc' = "carry"
  /\ UNCHANGED <<multArgs, product, multiple, shift>>

\* while (carry > 0)
SubtractCarry ==
  /\ mpc = "carry" /\ carry > 0
  /\ result' = vli_sub(result, curve_p).words
  /\ carry' = carry - 1
  /\ UNCHANGED <<multArgs, mpc, product, multiple, shift>>

\* A remainder that is the prime itself is not reduced.
SubtractLast ==
  /\ mpc = "carry" /\ carry = 0
  /\ ReturnResult(IF vli_cmp(result, curve_p) > 0
                    THEN vli_sub(result, curve_p).words
                    ELSE result, "doneFast")

MultNext ==
  \/ ModAdd
  \/ ModSub
  \/ Mult
  \/ AlignMod
  \/ SubtractMultiple
  \/ SetResult
  \/ FoldHigh
  \/ FoldAgain
  \/ SubtractCarry
  \/ SubtractLast

MultSpec == MultInit /\ [][MultNext]_multVars

-----------------------------------------------------------------------------

\* What the fast function has folded the product x into, before it subtracts.
Folded(x) ==
  LET high == (x \div CAPACITY) * (WORD + OMEGA) IN
    (x % CAPACITY) + (high % CAPACITY)
      + (high \div CAPACITY) * (WORD + OMEGA)

\* A carry beside a remainder that has the prime in it: one subtraction clears
\* the carry without a borrow.  Of the products on the real curve, fewer than
\* one in 2^380 are like this.
CarryLost(x) == Folded(x) \in CAPACITY + Prime .. 2 * CAPACITY - 1

(***************************************************************************)
(* Sums, differences and products are the reduced ones: carries and        *)
(* borrows cross the words and are made good by the modulus, the two       *)
(* halves of the shift fit together, and what the fast product leaves      *)
(* after folding twice and subtracting the prime has nothing left to       *)
(* reduce, but for the sums of CarryLost (uECC.c:538-633,                  *)
(* curve-specific.inc:1157-1178).                                          *)
(***************************************************************************)
ReducedResult ==
  LET x == Num(left) y == Num(right) IN
    /\ mpc = "added" => Num(result) = (x + y) % mod
    /\ mpc = "subtracted" => Num(result) = (x - y) % mod
    /\ mpc = "done" => Num(result) = (x * y) % mod
    /\ mpc = "doneFast" => (Num(result) = (x * y) % mod <=> ~CarryLost(x * y))
============================================================================
