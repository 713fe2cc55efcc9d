------------------------------ MODULE EcPoint ------------------------------
(***************************************************************************)
(* Public keys as bootloader/uECC/uECC.c takes and gives them:             *)
(* uECC_decompress(), uECC_valid_public_key() and uECC_compress().         *)
(***************************************************************************)
EXTENDS Curve

CONSTANTS
  Compressed,   \* compressed keys, right and wrong: first byte and x
  Uncompressed  \* keys, right and wrong: x and y

ASSUME KeysAssumption ==
  Compressed \subseteq Nat \X Nat /\ Uncompressed \subseteq Nat \X Nat

\* Roots are powers modulo such a prime, and there are no points of the curve
\* but the multiples of the generator.
ASSUME RootAssumption ==
  /\ CURVE_P % 4 = 3
  /\ \A p \in Coordinates : OnCurve(p) => \E k \in 1 .. CURVE_N - 1 : p = Times[k]

VARIABLES
  ppc,         \* the next step
  compressed,  \* the compressed key, << >> for none
  key,         \* the public key
  valid,       \* what uECC_valid_public_key() returned
  again        \* the key compressed

pointVars == <<ppc, compressed, key, valid, again>>

PointInit ==
  /\ \/ ppc = "decompress" /\ compressed \in Compressed /\ key = <<0, 0>>
     \/ ppc = "validate" /\ compressed = << >> /\ key \in Uncompressed
  /\ valid = FALSE /\ again = << >>

-----------------------------------------------------------------------------

\* x_side_secp256k1(): the right hand side of the curve's equation.
x_side(x) == (((x * x) % CURVE_P) * x + CURVE_B) % CURVE_P

\* mod_sqrt_default(): a to the power (p + 1) / 4, by the bits of p + 1 from
\* the highest down to bit 2.
mod_sqrt(a) ==
  LET top == NumBits(CURVE_P + 1)
      power[i \in 2 .. top] ==
        IF i = top THEN 1
        ELSE (power[i + 1] * power[i + 1]
                * IF TestBit(CURVE_P + 1, i) THEN a ELSE 1) % CURVE_P
  IN  power[2]

\* Mutant: the root is taken for the one that is asked for.
DecompressedAsIs(octets) == <<octets[2], mod_sqrt(x_side(octets[2]))>>

\* The root with the same lowest bit as the first byte.
Decompressed(octets) ==
  LET y == mod_sqrt(x_side(octets[2])) IN
    <<octets[2], IF y % 2 = octets[1] % 2 THEN y ELSE CURVE_P - y>>

Decompress ==
  /\ ppc = "decompress"
  /\ key' = Decompressed(compressed)
  /\ ppc' = "validate"
  /\ UNCHANGED <<compressed, valid, again>>

\* uECC_valid_point()
ValidPoint(p) ==
  /\ p # <<0, 0>>
  /\ p[1] < CURVE_P /\ p[2] < CURVE_P
  /\ (p[2] * p[2]) % CURVE_P = x_side(p[1])

Validate ==
  /\ ppc = "validate"
  /\ valid' = ValidPoint(key)
  /\ ppc' = "compress"
  /\ UNCHANGED <<compressed, key, again>>

Compress ==
  /\ ppc = "compress"
  /\ again' = <<2 + (key[2] % 2), key[1]>>
  /\ ppc' = "done"
  /\ UNCHANGED <<compressed, key, valid>>

PointNext == Decompress \/ Validate \/ Compress

PointSpec == PointInit /\ [][PointNext]_pointVars

-----------------------------------------------------------------------------

\* Every point of the curve but infinity.
CurvePoints == {Times[k] : k \in 1 .. CURVE_N - 1}

(***************************************************************************)
(* A key is called valid exactly when it is a point of the curve, and a    *)
(* valid one is the same after it was compressed and decompressed.  An x   *)
(* without a point, or above the prime, is decompressed to something, but  *)
(* never to a key that is called valid (uECC.c:1019-1094).                 *)
(***************************************************************************)
PointsChecked ==
  ppc = "done" =>
    /\ valid <=> key \in CurvePoints
    /\ valid => Decompressed(again) = key
    /\ compressed # << >> =>
         (valid <=> \E p \in CurvePoints : p[1] = compressed[2])
    /\ valid /\ compressed # << >> => again[1] % 2 = compressed[1] % 2
=============================================================================
