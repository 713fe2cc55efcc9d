------------------------------- MODULE ModInv -------------------------------
(***************************************************************************)
(* uECC_vli_modInv() of bootloader/uECC/uECC.c: 1 / input modulo an odd    *)
(* number, by subtracting and halving.  The vlis are the numbers they      *)
(* stand for (module ModMult has their words); sums wrap at LIMIT.         *)
(***************************************************************************)
EXTENDS Integers

CONSTANTS
  LIMIT,      \* one more than the largest number in num_words words
  InvModuli   \* the moduli, primes: curve_p and curve_n

ASSUME InvAssumption ==
  /\ LIMIT \in Nat /\ LIMIT % 2 = 0
  /\ \A m \in InvModuli :
       m \in 3 .. LIMIT - 1 /\ \A d \in 2 .. m - 1 : m % d # 0

VARIABLES
  input, imod,   \* the arguments
  a, b, u, v,
  inverse,       \* the result
  running

invVars == <<input, imod, a, b, u, v, inverse, running>>

InvInit ==
  /\ imod \in InvModuli
  /\ input \in 0 .. imod - 1
  /\ a = input /\ b = imod /\ u = 1 /\ v = 0
  /\ inverse = 0 /\ running = TRUE

-----------------------------------------------------------------------------

even(x) == x % 2 = 0

\* Mutant: the carry out of uv + mod is not shifted back in.
InvUpdateNoCarry(uv) ==
  IF even(uv) THEN uv \div 2 ELSE ((uv + imod) % LIMIT) \div 2

\* vli_modInv_update(): the carry becomes the highest bit.
InvUpdate(uv) ==
  IF even(uv) THEN uv \div 2
  ELSE LET sum == (uv + imod) % LIMIT
           carry == uv + imod >= LIMIT
       IN  (sum \div 2) + IF carry THEN LIMIT \div 2 ELSE 0

\* uv - vu modulo imod: a carry out of the sum is dropped, the borrow of the
\* difference makes up for it.
InvMinus(uv, vu) ==
  LET sum == IF uv < vu THEN (uv + imod) % LIMIT ELSE uv
  IN  (sum - vu) % LIMIT

ReturnZero ==
  /\ running /\ input = 0
  /\ inverse' = 0 /\ running' = FALSE
  /\ UNCHANGED <<input, imod, a, b, u, v>>

\* Mutant: 0 is not returned early.
LoopingOnZero == running /\ a # b

Looping == running /\ input # 0 /\ a # b

HalveA ==
  /\ Looping /\ even(a)
  /\ a' = a \div 2 /\ u' = InvUpdate(u)
  /\ UNCHANGED <<input, imod, b, v, inverse, running>>

HalveB ==
  /\ Looping /\ ~even(a) /\ even(b)
  /\ b' = b \div 2 /\ v' = InvUpdate(v)
  /\ UNCHANGED <<input, imod, a, u, inverse, running>>

SubtractB ==
  /\ Looping /\ ~even(a) /\ ~even(b) /\ a > b
  /\ a' = (a - b) \div 2 /\ u' = InvUpdate(InvMinus(u, v))
  /\ UNCHANGED <<input, imod, b, v, inverse, running>>

SubtractA ==
  /\ Looping /\ ~even(a) /\ ~even(b) /\ a < b
  /\ b' = (b - a) \div 2 /\ v' = InvUpdate(InvMinus(v, u))
  /\ UNCHANGED <<input, imod, a, u, inverse, running>>

SetInverse ==
  /\ running /\ input # 0 /\ a = b
  /\ inverse' = u /\ running' = FALSE
  /\ UNCHANGED <<input, imod, a, b, u, v>>

InvNext ==
  \/ ReturnZero
  \/ HalveA
  \/ HalveB
  \/ SubtractB
  \/ SubtractA
  \/ SetInverse

InvSpec == InvInit /\ [][InvNext]_invVars /\ WF_invVars(InvNext)

-----------------------------------------------------------------------------

(***************************************************************************)
(* Through every wrap of the loop, u and v are the reduced multipliers     *)
(* that make a and b of the input, so that the 1 it ends with makes u the  *)
(* inverse (uECC.c:693-739).                                               *)
(***************************************************************************)
InverseLoop ==
  /\ u \in 0 .. imod - 1 /\ v \in 0 .. imod - 1
  /\ (u * input) % imod = a % imod /\ (v * input) % imod = b % imod
  /\ ~running /\ input # 0 => (inverse * input) % imod = 1

(***************************************************************************)
(* The loop ends: a and b, which are compared whole in every round, meet   *)
(* for every input (uECC.c:711).                                           *)
(***************************************************************************)
InverseEnds == <>~running
=============================================================================
