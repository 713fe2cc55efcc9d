------------------------------- MODULE EcMult -------------------------------
(***************************************************************************)
(* EccPoint_compute_public_key() of bootloader/uECC/uECC.c: the generator  *)
(* times a private key, by a Montgomery ladder on points that share a Z    *)
(* which is never computed.                                                *)
(***************************************************************************)
EXTENDS Curve

CONSTANTS
  PrivateKeys,
  RandomWords,    \* what the random number generator may fill in
  MAX_TRIES       \* uECC_RNG_MAX_TRIES: 64

\* As on secp256k1 the order fills its words, num_n_bits are all of their bits.
num_n_bits == NumBits(CURVE_N)

FULL == Power(2, num_n_bits)

\* The prime and the order fill their words without being all ones, and the
\* generator has no x of 0, which the last bit divides by.
ASSUME MultAssumption ==
  /\ CURVE_P < FULL /\ CURVE_N + 1 < FULL
  /\ CURVE_G[1] # 0
  /\ PrivateKeys \subseteq 0 .. CURVE_N - 1
  /\ RandomWords \subseteq 0 .. FULL - 1
  /\ MAX_TRIES \in Nat \ {0}

VARIABLES
  kpc,           \* "draw", "begin", "ladder"; "done", "refused" or "no_random"
  private_key,   \* the argument
  tries,         \* random numbers that were no good
  initial_Z,     \* the Z to begin with: 1 without a generator
  scalar,        \* the words of the regularised key, below their implied bit
  R,             \* the two points of the ladder
  bit,           \* the next bit of scalar
  public_key     \* the result

keyVars == <<kpc, private_key, tries, initial_Z, scalar, R, bit, public_key>>

\* With a g_rng_function and without one.
KeyInit ==
  /\ kpc \in {"draw", "begin"}
  /\ private_key \in PrivateKeys
  /\ tries = 0 /\ initial_Z = 1 /\ scalar = 0 /\ bit = 0
  /\ R = <<CURVE_G, CURVE_G>> /\ public_key = <<0, 0>>

-----------------------------------------------------------------------------

\* One round of uECC_generate_random_int(), below the prime; NoRandom is the
\* generator's own failure or the end of its tries.
DrawZ ==
  /\ kpc = "draw" /\ tries < MAX_TRIES
  /\ \E random \in RandomWords :
       LET masked == random % Power(2, NumBits(CURVE_P)) IN
         IF masked # 0 /\ masked < CURVE_P
           THEN initial_Z' = masked /\ kpc' = "begin" /\ UNCHANGED tries
           ELSE tries' = tries + 1 /\ UNCHANGED <<initial_Z, kpc>>
  /\ UNCHANGED <<private_key, scalar, R, bit, public_key>>

NoRandom ==
  /\ kpc = "draw"
  /\ kpc' = "no_random"
  /\ UNCHANGED <<private_key, tries, initial_Z, scalar, R, bit, public_key>>

\* Mutant: the order is added once, whether or not it makes a carry.
RegularizedOnce(k) == (k + CURVE_N) % FULL

\* regularize_k(): k + n if that carries out of the words, else k + 2n, which
\* does: one bit more than the words have, and always a 1.
Regularized(k) ==
  LET k0 == (k + CURVE_N) % FULL
      carry == k + CURVE_N >= FULL
  IN  IF carry THEN k0 ELSE (k0 + CURVE_N) % FULL

\* EccPoint_mult() up to its loop: XYcZ_initial_double() makes 2P of P and
\* brings P to the same Z.  R[1] and R[2] are Rx[0], Ry[0] and Rx[1], Ry[1].
BeginMult ==
  /\ kpc = "begin"
  /\ scalar' = Regularized(private_key)
  /\ LET double == DoubleJacobian(ApplyZ(CURVE_G, initial_Z), initial_Z) IN
       R' = <<ApplyZ(CURVE_G, double.z), double.point>>
  /\ bit' = num_n_bits - 1
  /\ kpc' = "ladder"
  /\ UNCHANGED <<private_key, tries, initial_Z, public_key>>

\* The point that a bit doubles, and the other one.
Doubled(set) == IF set THEN 2 ELSE 1

\* The points after both additions of a round: those at `to` and at the other
\* index become their sum and twice the one at `to`.
Rung(to, diff, sum) ==
  LET both == XYcZ_add(sum, diff) IN
    [j \in 1 .. 2 |-> IF j = to THEN both.sum ELSE both.same]

Ladder ==
  /\ kpc = "ladder" /\ bit > 0
  /\ LET to == Doubled(TestBit(scalar, bit))
         added == XYcZ_addC(R[to], R[3 - to])
     IN  R' = Rung(to, added.diff, added.sum)
  /\ bit' = bit - 1
  /\ UNCHANGED <<kpc, private_key, tries, initial_Z, scalar, public_key>>

\* The last bit: 1 / Z comes from the difference of the points, which is P.
\* The point at infinity is an error.
LastBit ==
  /\ kpc = "ladder" /\ bit = 0
  /\ LET to == Doubled(TestBit(scalar, 0))
         added == XYcZ_addC(R[to], R[3 - to])
         Q == [j \in 1 .. 2 |-> IF j = to THEN added.diff ELSE added.sum]
         zz == ((Q[2][1] - Q[1][1]) * Q[to][2] * CURVE_G[1]) % CURVE_P
         inverse_Z == (InvP[zz] * CURVE_G[2] * Q[to][1]) % CURVE_P
         result == ApplyZ(Rung(to, added.diff, added.sum)[1], inverse_Z)
     IN  /\ public_key' = result
         /\ kpc' = IF result = <<0, 0>> THEN "refused" ELSE "done"
  /\ UNCHANGED <<private_key, tries, initial_Z, scalar, R, bit>>

KeyNext == DrawZ \/ NoRandom \/ BeginMult \/ Ladder \/ LastBit

KeySpec == KeyInit /\ [][KeyNext]_keyVars

-----------------------------------------------------------------------------

(***************************************************************************)
(* A public key that is returned is the generator times the private key,   *)
(* whatever Z the ladder began with; the keys that are refused are exactly *)
(* 0 and 1, n - 2 and n - 1, for which the ladder meets infinity or two    *)
(* opposite points (uECC.c:862-972).                                       *)
(***************************************************************************)
PublicKeyRight ==
  LET refused == {0, 1, CURVE_N - 2, CURVE_N - 1} IN
    /\ kpc = "done" => public_key = Times[private_key] /\ private_key \notin refused
    /\ kpc = "refused" => private_key \in refused
=============================================================================
