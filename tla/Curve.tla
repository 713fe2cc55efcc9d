------------------------------- MODULE Curve -------------------------------
(***************************************************************************)
(* The curve y^2 = x^3 + CURVE_B of bootloader/uECC: its group, and the    *)
(* steps in Jacobian coordinates that uECC.c computes with.  The vlis are  *)
(* numbers here: modules ModMult and ModInv have the arithmetic they stand *)
(* for, VliBytes the bytes they are made of.                               *)
(***************************************************************************)
EXTENDS Numbers, Sequences

CONSTANTS
  CURVE_P, CURVE_B, CURVE_N,   \* the prime, the constant, the order of G
  CURVE_G                      \* the generator, a pair

-----------------------------------------------------------------------------
(* The group of the curve, in affine coordinates.                          *)

InverseMod(m) ==
  [x \in 0 .. m - 1 |->
     IF x = 0 THEN 0 ELSE CHOOSE y \in 1 .. m - 1 : (x * y) % m = 1]

InvP == InverseMod(CURVE_P)

InvN == InverseMod(CURVE_N)

Infinity == << >>

Plus(p, q) ==
  IF p = Infinity THEN q
  ELSE IF q = Infinity THEN p
  ELSE IF p[1] = q[1] /\ (p[2] + q[2]) % CURVE_P = 0 THEN Infinity
  ELSE LET slope == IF p = q
                      THEN (3 * p[1] * p[1] * InvP[(2 * p[2]) % CURVE_P]) % CURVE_P
                      ELSE ((q[2] - p[2]) * InvP[(q[1] - p[1]) % CURVE_P]) % CURVE_P
           x == (slope * slope - p[1] - q[1]) % CURVE_P
       IN  <<x, (slope * (p[1] - x) - p[2]) % CURVE_P>>

\* k times the generator, for every k modulo its order.
Times ==
  LET times[k \in 0 .. CURVE_N - 1] ==
        IF k = 0 THEN Infinity
        ELSE IF k % 2 = 1 THEN Plus(times[k - 1], CURVE_G)
        ELSE LET half == times[k \div 2] IN Plus(half, half)
  IN  [k \in 0 .. CURVE_N - 1 |-> times[k]]

ASSUME CurveAssumption ==
  /\ CURVE_P \in Nat /\ CURVE_N \in Nat /\ CURVE_B \in Nat
  /\ 3 < CURVE_N /\ CURVE_N < CURVE_P /\ CURVE_P < 2 * CURVE_N
  /\ \A d \in 2 .. CURVE_P - 1 : CURVE_P % d # 0
  /\ \A d \in 2 .. CURVE_N - 1 : CURVE_N % d # 0

\* The coordinates of a point, and the equation.
Coordinates == (0 .. CURVE_P - 1) \X (0 .. CURVE_P - 1)

OnCurve(p) ==
  (p[2] * p[2]) % CURVE_P = (p[1] * p[1] * p[1] + CURVE_B) % CURVE_P

\* What is known of such curves: the multiples of the generator are points of
\* it, but for infinity, and add up as their numbers do modulo the order.
ASSUME GroupAssumption ==
  /\ CURVE_G \in Coordinates
  /\ \A k \in 1 .. CURVE_N - 1 : Times[k] \in Coordinates /\ OnCurve(Times[k])
  /\ \A j, k \in 0 .. CURVE_N - 1 : Plus(Times[j], Times[k]) = Times[(j + k) % CURVE_N]

-----------------------------------------------------------------------------
(* Jacobian coordinates.                                                   *)

\* apply_z()
ApplyZ(p, zz) ==
  LET z2 == (zz * zz) % CURVE_P
  IN  <<(p[1] * z2) % CURVE_P, (p[2] * ((z2 * zz) % CURVE_P)) % CURVE_P>>

\* XYcZ_add(): p and q have the same Z; p and p + q come out with a new one.
XYcZ_add(p, q) ==
  LET A == ((q[1] - p[1]) * (q[1] - p[1])) % CURVE_P
      B == (p[1] * A) % CURVE_P
      C == (q[1] * A) % CURVE_P
      dy == (q[2] - p[2]) % CURVE_P
      E == (p[2] * (C - B)) % CURVE_P
      x3 == (dy * dy - B - C) % CURVE_P
  IN  [same |-> <<B, E>>, sum |-> <<x3, (dy * (B - x3) - E) % CURVE_P>>]

\* XYcZ_addC(): p - q and p + q, with a new Z again.
XYcZ_addC(p, q) ==
  LET sum == XYcZ_add(p, q)
      B == sum.same[1]
      C == (q[1] * (q[1] - p[1]) * (q[1] - p[1])) % CURVE_P
      sy == (q[2] + p[2]) % CURVE_P
      x3 == (sy * sy - B - C) % CURVE_P
  IN  [diff |-> <<x3, (sy * (x3 - B) - sum.same[2]) % CURVE_P>>, sum |-> sum.sum]

\* Half of t modulo the prime; the carry of the sum is shifted back in.
HalfMod(t) == (IF t % 2 = 1 THEN t + CURVE_P ELSE t) \div 2

\* double_jacobian_secp256k1(): the point and its z.
DoubleJacobian(p, zz) ==
  LET y2 == (p[2] * p[2]) % CURVE_P
      A == (p[1] * y2) % CURVE_P
      B == HalfMod((3 * p[1] * p[1]) % CURVE_P)
      x3 == (B * B - 2 * A) % CURVE_P
  IN  IF zz = 0 THEN [point |-> p, z |-> zz]
      ELSE [point |-> <<x3, (B * (A - x3) - y2 * y2) % CURVE_P>>,
            z |-> (p[2] * zz) % CURVE_P]
=============================================================================
