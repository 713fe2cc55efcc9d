------------------------------ MODULE EcVerify ------------------------------
(***************************************************************************)
(* uECC_verify() of bootloader/uECC/uECC.c: ECDSA on y^2 = x^3 + CURVE_B,  *)
(* with Shamir's trick in Jacobian coordinates.                            *)
(***************************************************************************)
EXTENDS Curve

CONSTANTS
  Secrets,        \* the secret numbers of the public keys
  Signatures(_)   \* hashes and signatures for a secret number

VARIABLES
  epc,         \* the next step, or the verdict
  secret,      \* the number behind the public key
  hash, r, s,  \* the arguments
  u1, u2,      \* hash / s and r / s
  sum,         \* G + Q
  point, z,    \* the sum so far, in Jacobian coordinates
  i            \* the next bit of u1 and u2

ecArgs == <<secret, hash, r, s>>
ecVars == <<epc, ecArgs, u1, u2, sum, point, z, i>>

-----------------------------------------------------------------------------
(* The verdict that is wanted.                                             *)

\* Verification as ECDSA defines it.
Valid(d, e, rr, ss) ==
  /\ rr \in 1 .. CURVE_N - 1 /\ ss \in 1 .. CURVE_N - 1
  /\ LET sumPoint == Times[((e + rr * d) * InvN[ss]) % CURVE_N]
     IN  sumPoint # Infinity /\ sumPoint[1] % CURVE_N = rr

\* The key is not the generator or its opposite: their sum would not be one
\* of two different points.
ASSUME SecretAssumption ==
  /\ Secrets \subseteq 2 .. CURVE_N - 2
  /\ \A d \in Secrets : Signatures(d) \subseteq Nat \X Nat \X Nat

-----------------------------------------------------------------------------

EcInit ==
  /\ epc = "check"
  /\ secret \in Secrets
  /\ \E signature \in Signatures(secret) :
       hash = signature[1] /\ r = signature[2] /\ s = signature[3]
  /\ u1 = 0 /\ u2 = 0 /\ sum = << >> /\ point = << >> /\ z = 1 /\ i = 0

_public == Times[secret]

Verdict(accepted) == epc' = IF accepted THEN "accept" ELSE "reject"

\* r and s must not be 0 and must be < n.
CheckSignature ==
  /\ epc = "check"
  /\ r = 0 \/ s = 0 \/ r >= CURVE_N \/ s >= CURVE_N
  /\ Verdict(FALSE)
  /\ UNCHANGED <<ecArgs, u1, u2, sum, point, z, i>>

\* bits2int() leaves a hash as long as n as it is, reduced or not.
ComputeU ==
  /\ epc = "check"
  /\ r \in 1 .. CURVE_N - 1 /\ s \in 1 .. CURVE_N - 1
  /\ u1' = (hash * InvN[s]) % CURVE_N
  /\ u2' = (r * InvN[s]) % CURVE_N
  /\ epc' = "sum"
  /\ UNCHANGED <<ecArgs, sum, point, z, i>>

AddG ==
  /\ epc = "sum"
  /\ sum' = ApplyZ(XYcZ_add(CURVE_G, _public).sum,
                   InvP[(_public[1] - CURVE_G[1]) % CURVE_P])
  /\ epc' = "start"
  /\ UNCHANGED <<ecArgs, u1, u2, point, z, i>>

\* points[], 0 for none.
Points(bit) ==
  IF TestBit(u1, bit)
    THEN IF TestBit(u2, bit) THEN sum ELSE CURVE_G
    ELSE IF TestBit(u2, bit) THEN _public ELSE << >>

Larger(k, l) == IF k > l THEN k ELSE l

\* The highest bit of u1 and u2; u2 is not 0.
StartLoop ==
  /\ epc = "start"
  /\ LET num_bits == Larger(NumBits(u1), NumBits(u2)) IN
       point' = Points(num_bits - 1) /\ i' = num_bits - 2
  /\ z' = 1
  /\ epc' = "loop"
  /\ UNCHANGED <<ecArgs, u1, u2, sum>>

\* Mutant: z does not follow the addition.
DoubleAndAddKeepZ ==
  /\ epc = "loop" /\ i >= 0
  /\ LET double == DoubleJacobian(point, z)
         t == ApplyZ(Points(i), double.z)
     IN  /\ point' = IF Points(i) = << >> THEN double.point
                     ELSE XYcZ_add(t, double.point).sum
         /\ z' = double.z
  /\ i' = i - 1
  /\ UNCHANGED <<epc, ecArgs, u1, u2, sum>>

DoubleAndAdd ==
  /\ epc = "loop" /\ i >= 0
  /\ LET double == DoubleJacobian(point, z)
         t == ApplyZ(Points(i), double.z)
     IN  IF Points(i) = << >>
           THEN point' = double.point /\ z' = double.z
           ELSE /\ point' = XYcZ_add(t, double.point).sum
                /\ z' = (double.z * (double.point[1] - t[1])) % CURVE_P
  /\ i' = i - 1
  /\ UNCHANGED <<epc, ecArgs, u1, u2, sum>>

\* Mutant: the x coordinate is compared as it is.
CompareWhole ==
  /\ epc = "loop" /\ i < 0
  /\ Verdict(ApplyZ(point, InvP[z])[1] = r)
  /\ UNCHANGED <<ecArgs, u1, u2, sum, point, z, i>>

\* Accept only if the x coordinate, modulo n, is r.
Compare ==
  /\ epc = "loop" /\ i < 0
  /\ LET x == ApplyZ(point, InvP[z])[1]
         v == IF x >= CURVE_N THEN x - CURVE_N ELSE x
     IN  Verdict(v = r)
  /\ UNCHANGED <<ecArgs, u1, u2, sum, point, z, i>>

EcNext ==
  \/ CheckSignature
  \/ ComputeU
  \/ AddG
  \/ StartLoop
  \/ DoubleAndAdd
  \/ Compare

EcSpec == EcInit /\ [][EcNext]_ecVars

-----------------------------------------------------------------------------

\* The bits of u1 and u2 that the loop has passed, as a multiple of G.
Passed ==
  LET weight == Power(2, i + 1) IN
    ((u1 \div weight) + (u2 \div weight) * secret) % CURVE_N

(***************************************************************************)
(* In every round the point is the sum for the bits passed so far, unless  *)
(* an addition has met two points with the same x coordinate, which makes  *)
(* z 0 for good (uECC.c:1213-1230).                                        *)
(***************************************************************************)
TracksTheSum ==
  epc = "loop" /\ z # 0 => ApplyZ(point, InvP[z]) = Times[Passed]

(***************************************************************************)
(* What is accepted is a valid signature of this hash with this key; what  *)
(* is rejected is not one, or z has become 0: two summands had the same x. *)
(* No check keeps a signature from that.  With the nonce 2, u1 odd and u2  *)
(* even the last sum is G + G, and a valid signature is rejected, against  *)
(* uECC.h:202 (uECC.c:1097-1242).                                          *)
(***************************************************************************)
VerdictRight ==
  /\ epc = "accept" => Valid(secret, hash, r, s)
  /\ epc = "reject" => z = 0 \/ ~Valid(secret, hash, r, s)
=============================================================================
