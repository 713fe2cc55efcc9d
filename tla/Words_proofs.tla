---------------------------- MODULE Words_proofs ----------------------------
(***************************************************************************)
(* The arithmetic of multi-word integers, for every size of a word, every  *)
(* number of words and every prime of the form of the curve's: powers and  *)
(* digits; what uECC_vli_add(), uECC_vli_sub(), uECC_vli_cmp(),            *)
(* uECC_vli_rshift1(), uECC_vli_mult() and omega_mult_secp256k1() make of  *)
(* the numbers that their words stand for; and that the sums, differences  *)
(* and products of ModMult are the reduced ones.                           *)
(***************************************************************************)
EXTENDS ModMult, SequenceTheorems, WellFoundedInduction, TLAPS

-----------------------------------------------------------------------------
(* Natural numbers.                                                        *)

\* A set of numbers that is not empty has a smallest.
LEMMA Smallest ==
  ASSUME NEW T \in SUBSET Nat, T # {}
  PROVE  \E x \in T : \A y \in T : x <= y
<1> DEFINE R == OpToRel(<, Nat)
<1>1. \E x \in T : \A y \in T : ~ (<<y, x>> \in R)
  <2>1. IsWellFoundedOn(R, Nat)
    BY NatLessThanWellFounded
  <2>2. T \subseteq Nat
    OBVIOUS
  <2> HIDE DEF R
  <2> QED BY <2>1, <2>2, WFMin, Zenon
<1>2. PICK x \in T : \A y \in T : ~ (<<y, x>> \in R)
  BY <1>1
<1>3. \A y \in T : y < x => <<y, x>> \in R
  BY DEF OpToRel
<1>4. \A y \in T : ~ (y < x)
  BY <1>2, <1>3
<1> QED BY <1>4

\* Induction, as a statement about a set.
LEMMA Induction ==
  ASSUME NEW T \in SUBSET Nat, 0 \in T, \A k \in Nat : k \in T => k + 1 \in T
  PROVE  T = Nat
<1> SUFFICES ASSUME Nat \ T # {} PROVE FALSE
  OBVIOUS
<1>1. PICK x \in Nat \ T : \A y \in Nat \ T : x <= y
  BY Smallest
<1>2. x # 0 /\ x - 1 \in Nat
  BY <1>1
<1>3. x - 1 \in T
  BY <1>1, <1>2
<1>4. (x - 1) + 1 \in T
  BY <1>2, <1>3
<1> QED BY <1>1, <1>2, <1>4

\* Quotient and remainder are determined by the range of the remainder.
LEMMA DivideUnique ==
  ASSUME NEW x \in Int, NEW n \in Nat, n > 0, NEW q \in Int,
         NEW rest \in 0 .. n - 1, x = q * n + rest
  PROVE  x \div n = q /\ x % n = rest
<1>1. /\ x \div n \in Int /\ x % n \in 0 .. n - 1
      /\ x = n * (x \div n) + (x % n)
  OBVIOUS
<1>2. (q - (x \div n)) * n = (x % n) - rest
  BY <1>1
<1>3. q - (x \div n) = 0
  BY <1>1, <1>2
<1> QED BY <1>1, <1>2, <1>3

\* The function f that begins with start and goes on with step.
Unfolds(f, n, A, start, step) ==
  f \in [0 .. n -> A] /\ f[0] = start /\ \A k \in 1 .. n : f[k] = step[k][f[k - 1]]

\* A function that is defined by recursion on a number exists.
LEMMA Recursion ==
  ASSUME NEW n \in Nat, NEW A, NEW start \in A, NEW step \in [1 .. n -> [A -> A]]
  PROVE  \E f : Unfolds(f, n, A, start, step)
<1> USE DEF Unfolds
<1> DEFINE Good(m, f) == Unfolds(f, m, A, start, step)
           T == {m \in Nat : m <= n => \E f : Good(m, f)}
<1>1. 0 \in T
  <2>1. Good(0, [k \in 0 .. 0 |-> start])
    OBVIOUS
  <2> QED BY <2>1
<1>2. ASSUME NEW m \in Nat, m \in T
      PROVE  m + 1 \in T
  <2> SUFFICES ASSUME m + 1 <= n
               PROVE  \E f : Good(m + 1, f)
    OBVIOUS
  <2>1. PICK f : Good(m, f)
    BY <1>2
  <2>2. m \in 0 .. m /\ f[m] \in A /\ m + 1 \in 1 .. n
    BY <2>1
  <2>3. step[m + 1][f[m]] \in A
    BY <2>2
  <2> DEFINE g == [k \in 0 .. m + 1 |-> IF k <= m THEN f[k] ELSE step[m + 1][f[m]]]
  <2>4. g \in [0 .. m + 1 -> A]
    BY <2>1, <2>3
  <2>5. g[0] = start
    BY <2>1
  <2>6. ASSUME NEW k \in 1 .. m + 1
        PROVE  g[k] = step[k][g[k - 1]]
    <3>1. CASE k <= m
      <4>1. k \in 1 .. m /\ g[k] = f[k] /\ g[k - 1] = f[k - 1]
        BY <3>1
      <4> QED BY <2>1, <4>1
    <3>2. CASE k = m + 1
      <4>1. g[k] = step[m + 1][f[m]] /\ g[m] = f[m] /\ k - 1 = m
        BY <3>2
      <4> QED BY <3>2, <4>1
    <3> QED BY <3>1, <3>2
  <2> QED BY <2>4, <2>5, <2>6
<1>3. T = Nat
  <2> HIDE DEF T
  <2>1. T \in SUBSET Nat
    BY DEF T
  <2> QED BY <1>1, <1>2, <2>1, Induction
<1>4. n \in T
  BY <1>3
<1> QED BY <1>4

\* Two functions that begin alike and go on alike.
GoAlike(n, f, g) ==
  f[0] = g[0] /\ \A k \in 1 .. n : f[k - 1] = g[k - 1] => f[k] = g[k]

\* Two functions with the same first value and the same steps are the same.
LEMMA SameSteps ==
  ASSUME NEW n \in Nat, NEW f, NEW g, GoAlike(n, f, g)
  PROVE  \A k \in 0 .. n : f[k] = g[k]
<1> USE DEF GoAlike
<1> DEFINE T == {k \in Nat : k <= n => f[k] = g[k]}
<1>1. 0 \in T
  OBVIOUS
<1>2. ASSUME NEW k \in Nat, k \in T
      PROVE  k + 1 \in T
  <2>1. k + 1 <= n => k + 1 \in 1 .. n /\ (k + 1) - 1 = k
    OBVIOUS
  <2> QED BY <1>2, <2>1
<1>3. T = Nat
  <2> HIDE DEF T
  <2>1. T \in SUBSET Nat
    BY DEF T
  <2> QED BY <1>1, <1>2, <2>1, Induction
<1> QED BY <1>3

-----------------------------------------------------------------------------
(* Powers.                                                                 *)

\* The function that Power() chooses.
PowersUpTo(base, n, f) ==
  f = [k \in 0 .. n |-> IF k = 0 THEN 1 ELSE base * f[k - 1]]

\* It exists, in natural numbers.
LEMMA PowersExist ==
  ASSUME NEW base \in Nat, NEW n \in Nat
  PROVE  \E f \in [0 .. n -> Nat] : PowersUpTo(base, n, f)
<1> DEFINE step == [k \in 1 .. n |-> [x \in Nat |-> base * x]]
<1>1. step \in [1 .. n -> [Nat -> Nat]]
  <2>1. \A x \in Nat : base * x \in Nat
    OBVIOUS
  <2> QED BY <2>1
<1>2. PICK f : Unfolds(f, n, Nat, 1, step)
  <2> HIDE DEF step
  <2> QED BY <1>1, Recursion
<1>3. /\ f \in [0 .. n -> Nat] /\ f[0] = 1
      /\ \A k \in 1 .. n : f[k] = base * f[k - 1]
  <2>1. \A k \in 1 .. n : \A x \in Nat : step[k][x] = base * x
    OBVIOUS
  <2> HIDE DEF step
  <2>2. \A k \in 1 .. n : k - 1 \in 0 .. n
    OBVIOUS
  <2> QED BY <1>2, <2>1, <2>2 DEF Unfolds
<1>4. \A k \in 0 .. n : f[k] = IF k = 0 THEN 1 ELSE base * f[k - 1]
  BY <1>3
<1>5. f = [k \in 0 .. n |-> f[k]]
  BY <1>3
<1> HIDE DEF step
<1>6. PowersUpTo(base, n, f)
  BY <1>4, <1>5 DEF PowersUpTo
<1> QED BY <1>3, <1>6

\* The first power is 1, and every other the base times the one before.
LEMMA PowerSteps ==
  ASSUME NEW base \in Nat
  PROVE  /\ Power(base, 0) = 1
         /\ \A n \in Nat : Power(base, n + 1) = base * Power(base, n)
         /\ \A n \in Nat : Power(base, n) \in Nat
<1> DEFINE F(n) == CHOOSE f : PowersUpTo(base, n, f)
<1>1. \A n \in Nat : PowersUpTo(base, n, F(n))
  BY PowersExist, Zenon
<1>2. \A n \in Nat : Power(base, n) = F(n)[n]
  BY DEF Power, PowersUpTo
<1> HIDE DEF F
<1>3. \A n \in Nat : \A k \in 0 .. n :
        F(n)[k] = IF k = 0 THEN 1 ELSE base * F(n)[k - 1]
  BY <1>1 DEF PowersUpTo
<1>4. \A n \in Nat : F(n)[0] = 1
  BY <1>3
<1>5. ASSUME NEW n \in Nat
      PROVE  Power(base, n + 1) = base * Power(base, n)
  <2>1. \A k \in 1 .. n : F(n + 1)[k - 1] = F(n)[k - 1] => F(n + 1)[k] = F(n)[k]
    <3> SUFFICES ASSUME NEW k \in 1 .. n, F(n + 1)[k - 1] = F(n)[k - 1]
                 PROVE  F(n + 1)[k] = F(n)[k]
      OBVIOUS
    <3>1. n + 1 \in Nat /\ k \in 0 .. n + 1 /\ k \in 0 .. n /\ k # 0
      OBVIOUS
    <3>2. F(n + 1)[k] = base * F(n + 1)[k - 1] /\ F(n)[k] = base * F(n)[k - 1]
      BY <1>3, <3>1
    <3> QED BY <3>2
  <2>2. F(n + 1)[0] = F(n)[0]
    BY <1>4
  <2>3. F(n + 1)[n] = F(n)[n]
    <3>1. GoAlike(n, F(n + 1), F(n))
      BY <2>1, <2>2 DEF GoAlike
    <3>2. \A k \in 0 .. n : F(n + 1)[k] = F(n)[k]
      BY <3>1, SameSteps
    <3> QED BY <3>2
  <2>4. n + 1 \in Nat /\ n + 1 \in 0 .. n + 1 /\ n + 1 # 0 /\ (n + 1) - 1 = n
    OBVIOUS
  <2>5. F(n + 1)[n + 1] = base * F(n + 1)[n]
    BY <1>3, <2>4
  <2> QED BY <1>2, <2>3, <2>4, <2>5
<1>6. Power(base, 0) = 1
  BY <1>2, <1>4
<1> DEFINE T == {n \in Nat : Power(base, n) \in Nat}
<1>7. T = Nat
  <2>1. 0 \in T
    BY <1>6
  <2>2. ASSUME NEW n \in Nat, n \in T
        PROVE  n + 1 \in T
    <3>1. \A x \in Nat : base * x \in Nat
      OBVIOUS
    <3> QED BY <1>5, <2>2, <3>1
  <2> HIDE DEF T
  <2>3. T \in SUBSET Nat
    BY DEF T
  <2> QED BY <2>1, <2>2, <2>3, Induction
<1> QED BY <1>5, <1>6, <1>7

\* A power of a sum is a product of powers.
LEMMA PowerOfSum ==
  ASSUME NEW base \in Nat, NEW m \in Nat
  PROVE  \A n \in Nat : Power(base, m + n) = Power(base, m) * Power(base, n)
<1> DEFINE T == {n \in Nat : Power(base, m + n) = Power(base, m) * Power(base, n)}
<1>1. 0 \in T
  BY PowerSteps
<1>2. ASSUME NEW n \in Nat, n \in T
      PROVE  n + 1 \in T
  <2>1. m + n \in Nat /\ m + (n + 1) = (m + n) + 1
    OBVIOUS
  <2>5. Power(base, m) \in Nat /\ Power(base, n) \in Nat
    BY PowerSteps
  <2>2. Power(base, m + (n + 1)) = base * Power(base, m + n)
    BY <2>1, PowerSteps
  <2>3. Power(base, n + 1) = base * Power(base, n)
    BY PowerSteps
  <2>4. \A x, y \in Nat : base * (x * y) = x * (base * y)
    OBVIOUS
  <2> QED BY <1>2, <2>2, <2>3, <2>4, <2>5
<1>3. T = Nat
  <2> HIDE DEF T
  <2>1. T \in SUBSET Nat
    BY DEF T
  <2> QED BY <1>1, <1>2, <2>1, Induction
<1> QED BY <1>3

\* Powers of a number above 0 are above 0.
LEMMA PowerPositive ==
  ASSUME NEW base \in Nat, base > 0
  PROVE  \A n \in Nat : Power(base, n) \in Nat /\ Power(base, n) > 0
<1> DEFINE T == {n \in Nat : Power(base, n) > 0}
<1>1. 0 \in T
  BY PowerSteps
<1>2. ASSUME NEW n \in Nat, n \in T
      PROVE  n + 1 \in T
  <2>1. \A x \in Nat : x > 0 => base * x > 0
    OBVIOUS
  <2> QED BY <1>2, <2>1, PowerSteps
<1>3. T = Nat
  <2> HIDE DEF T
  <2>1. T \in SUBSET Nat
    BY DEF T
  <2> QED BY <1>1, <1>2, <2>1, Induction
<1> QED BY <1>3, PowerSteps

\* A power of a power.
LEMMA PowerOfPower ==
  ASSUME NEW base \in Nat, NEW m \in Nat
  PROVE  \A n \in Nat : Power(Power(base, m), n) = Power(base, m * n)
<1> DEFINE T == {n \in Nat : Power(Power(base, m), n) = Power(base, m * n)}
<1>0. Power(base, m) \in Nat
  BY PowerSteps
<1>1. 0 \in T
  BY <1>0, PowerSteps
<1>2. ASSUME NEW n \in Nat, n \in T
      PROVE  n + 1 \in T
  <2>1. m * n \in Nat /\ m * (n + 1) = m + m * n
    OBVIOUS
  <2>2. Power(base, m * (n + 1)) = Power(base, m) * Power(base, m * n)
    BY <2>1, PowerOfSum
  <2>3. Power(Power(base, m), n + 1) = Power(base, m) * Power(Power(base, m), n)
    BY <1>0, PowerSteps
  <2> QED BY <1>2, <2>2, <2>3
<1>3. T = Nat
  <2> HIDE DEF T
  <2>1. T \in SUBSET Nat
    BY DEF T
  <2> QED BY <1>1, <1>2, <2>1, Induction
<1> QED BY <1>3

\* Larger exponents, larger powers.
LEMMA PowerMonotone ==
  ASSUME NEW base \in Nat, base > 1, NEW m \in Nat, NEW n \in Nat, m <= n
  PROVE  Power(base, m) <= Power(base, n) /\ (m < n => Power(base, m) < Power(base, n))
<1>1. n - m \in Nat /\ m + (n - m) = n
  OBVIOUS
<1>2. Power(base, n) = Power(base, m) * Power(base, n - m)
  BY <1>1, PowerOfSum
<1>3. /\ Power(base, m) \in Nat /\ Power(base, m) > 0
      /\ Power(base, n - m) \in Nat /\ Power(base, n - m) > 0
  <2>1. base > 0
    OBVIOUS
  <2> QED BY <1>1, <2>1, PowerPositive
<1>4. \A x, y \in Nat : x > 0 /\ y > 0 => x <= x * y
  OBVIOUS
<1>5. ASSUME m < n
      PROVE  Power(base, n - m) > 1
  <2>1. (n - m) - 1 \in Nat /\ n - m = ((n - m) - 1) + 1
    BY <1>5
  <2>2. Power(base, n - m) = base * Power(base, (n - m) - 1)
    BY <2>1, PowerSteps
  <2>3. Power(base, (n - m) - 1) \in Nat /\ Power(base, (n - m) - 1) > 0
    BY <2>1, PowerPositive
  <2>4. \A x \in Nat : x > 0 => base * x > 1
    OBVIOUS
  <2> QED BY <2>2, <2>3, <2>4
<1>6. \A x, y \in Nat : x > 0 /\ y > 1 => x < x * y
  OBVIOUS
<1> QED BY <1>2, <1>3, <1>4, <1>5, <1>6

-----------------------------------------------------------------------------
(* The number of a sequence of digits.                                     *)

\* The function that NumberOf() chooses.
NumbersUpTo(digits, base, f) ==
  f = [k \in 0 .. Len(digits) |->
         IF k = 0 THEN 0 ELSE f[k - 1] + digits[k] * Power(base, k - 1)]

\* It exists, in natural numbers.
LEMMA NumbersExist ==
  ASSUME NEW base \in Nat, NEW digits \in Seq(Nat)
  PROVE  \E f \in [0 .. Len(digits) -> Nat] : NumbersUpTo(digits, base, f)
<1> DEFINE n == Len(digits)
           step == [k \in 1 .. n |-> [x \in Nat |-> x + digits[k] * Power(base, k - 1)]]
<1>0. n \in Nat
  OBVIOUS
<1>1. step \in [1 .. n -> [Nat -> Nat]]
  <2>1. ASSUME NEW k \in 1 .. n
        PROVE  \A x \in Nat : x + digits[k] * Power(base, k - 1) \in Nat
    <3>1. k - 1 \in Nat
      OBVIOUS
    <3>2. Power(base, k - 1) \in Nat /\ digits[k] \in Nat
      BY <3>1, PowerSteps, ElementOfSeq
    <3>3. \A x, y, w \in Nat : x + y * w \in Nat
      OBVIOUS
    <3> QED BY <3>2, <3>3
  <2> QED BY <2>1
<1>2. PICK f : Unfolds(f, n, Nat, 0, step)
  <2> HIDE DEF step, n
  <2> QED BY <1>0, <1>1, Recursion
<1>3. /\ f \in [0 .. n -> Nat] /\ f[0] = 0
      /\ \A k \in 1 .. n : f[k] = f[k - 1] + digits[k] * Power(base, k - 1)
  <2>1. \A k \in 1 .. n : \A x \in Nat : step[k][x] = x + digits[k] * Power(base, k - 1)
    OBVIOUS
  <2> HIDE DEF step, n
  <2>2. \A k \in 1 .. n : k - 1 \in 0 .. n
    BY <1>0
  <2> QED BY <1>2, <2>1, <2>2 DEF Unfolds
<1>4. \A k \in 0 .. n : f[k] = IF k = 0 THEN 0 ELSE f[k - 1] + digits[k] * Power(base, k - 1)
  <2> HIDE DEF step, n
  <2>1. \A k \in 0 .. n : k = 0 \/ k \in 1 .. n
    BY <1>0
  <2> QED BY <1>3, <2>1
<1>5. f = [k \in 0 .. n |-> f[k]]
  BY <1>3
<1> HIDE DEF step
<1>6. NumbersUpTo(digits, base, f)
  BY <1>4, <1>5 DEF NumbersUpTo
<1> QED BY <1>3, <1>6

\* What the function chosen by NumberOf() is.
LEMMA NumberUnfolds ==
  ASSUME NEW base \in Nat, NEW digits \in Seq(Nat)
  PROVE  \E f \in [0 .. Len(digits) -> Nat] :
           /\ f[0] = 0
           /\ \A k \in 1 .. Len(digits) : f[k] = f[k - 1] + digits[k] * Power(base, k - 1)
           /\ NumberOf(digits, base) = f[Len(digits)]
<1> DEFINE f == CHOOSE f : NumbersUpTo(digits, base, f)
<1>1. NumbersUpTo(digits, base, f)
  BY NumbersExist, Zenon
<1>2. NumberOf(digits, base) = f[Len(digits)]
  BY DEF NumberOf, NumbersUpTo
<1> HIDE DEF f
<1>3. PICK g \in [0 .. Len(digits) -> Nat] : NumbersUpTo(digits, base, g)
  BY NumbersExist
<1>4. Len(digits) \in Nat
  OBVIOUS
<1>5. \A k \in 0 .. Len(digits) :
        /\ f[k] = IF k = 0 THEN 0 ELSE f[k - 1] + digits[k] * Power(base, k - 1)
        /\ g[k] = IF k = 0 THEN 0 ELSE g[k - 1] + digits[k] * Power(base, k - 1)
  BY <1>1, <1>3 DEF NumbersUpTo
<1>6. \A k \in 0 .. Len(digits) : f[k] = g[k]
  <2>1. f[0] = g[0]
    BY <1>4, <1>5
  <2>2. \A k \in 1 .. Len(digits) : f[k - 1] = g[k - 1] => f[k] = g[k]
    BY <1>4, <1>5
  <2>3. GoAlike(Len(digits), f, g)
    BY <2>1, <2>2 DEF GoAlike
  <2> QED BY <1>4, <2>3, SameSteps
<1>7. Len(digits) \in 0 .. Len(digits) /\ 0 \in 0 .. Len(digits)
  BY <1>4
<1>8. NumberOf(digits, base) = g[Len(digits)]
  BY <1>2, <1>6, <1>7
<1>9. g[0] = 0 /\ \A k \in 1 .. Len(digits) : g[k] = g[k - 1] + digits[k] * Power(base, k - 1)
  BY <1>4, <1>5
<1> QED BY <1>3, <1>8, <1>9

\* No digits, and one digit more.
LEMMA NumberSteps ==
  ASSUME NEW base \in Nat
  PROVE  /\ NumberOf(<< >>, base) = 0
         /\ \A digits \in Seq(Nat) : \A d \in Nat :
              /\ NumberOf(digits, base) \in Nat
              /\ NumberOf(Append(digits, d), base)
                   = NumberOf(digits, base) + d * Power(base, Len(digits))
<1>1. NumberOf(<< >>, base) = 0
  <2> DEFINE digits == << >>
  <2>1. digits \in Seq(Nat) /\ Len(digits) = 0
    OBVIOUS
  <2> HIDE DEF digits
  <2>2. NumberOf(digits, base) = 0
    <3>1. PICK f \in [0 .. Len(digits) -> Nat] :
            f[0] = 0 /\ NumberOf(digits, base) = f[Len(digits)]
      BY <2>1, NumberUnfolds, ZenonT(60)
    <3> QED BY <2>1, <3>1
  <2> QED BY <2>2 DEF digits
<1>2. ASSUME NEW digits \in Seq(Nat), NEW d \in Nat
      PROVE  /\ NumberOf(digits, base) \in Nat
             /\ NumberOf(Append(digits, d), base)
                  = NumberOf(digits, base) + d * Power(base, Len(digits))
  <2> DEFINE more == Append(digits, d)
             n == Len(digits)
  <2>1. /\ more \in Seq(Nat) /\ Len(more) = n + 1 /\ n \in Nat /\ more[n + 1] = d
        /\ \A k \in 1 .. n : more[k] = digits[k]
    OBVIOUS
  <2> HIDE DEF more
  <2>2. PICK f \in [0 .. n -> Nat] :
          /\ f[0] = 0
          /\ \A k \in 1 .. n : f[k] = f[k - 1] + digits[k] * Power(base, k - 1)
          /\ NumberOf(digits, base) = f[n]
    BY NumberUnfolds
  <2>3. PICK g \in [0 .. Len(more) -> Nat] :
          /\ g[0] = 0
          /\ \A k \in 1 .. Len(more) : g[k] = g[k - 1] + more[k] * Power(base, k - 1)
          /\ NumberOf(more, base) = g[Len(more)]
    BY <2>1, NumberUnfolds
  <2> HIDE DEF n
  <2>4. \A k \in 0 .. n : g[k] = f[k]
    <3>1. \A k \in 1 .. n : g[k - 1] = f[k - 1] => g[k] = f[k]
      <4>1. \A k \in 1 .. n : k \in 1 .. Len(more)
        BY <2>1
      <4> QED BY <2>1, <2>2, <2>3, <4>1
    <3>2. g[0] = f[0] /\ n \in Nat
      BY <2>1, <2>2, <2>3
    <3>3. GoAlike(n, g, f)
      BY <3>1, <3>2 DEF GoAlike
    <3> QED BY <3>2, <3>3, SameSteps
  <2>5. n + 1 \in 1 .. Len(more) /\ (n + 1) - 1 = n /\ n \in 0 .. n
    BY <2>1
  <2>6. g[n + 1] = g[n] + d * Power(base, n)
    BY <2>1, <2>3, <2>5
  <2>7. NumberOf(more, base) = f[n] + d * Power(base, n)
    BY <2>1, <2>3, <2>4, <2>5, <2>6
  <2> QED BY <2>2, <2>5, <2>7 DEF more, n
<1> QED BY <1>1, <1>2

\* The first digits of a sequence, one more at a time.
LEMMA NumberPrefix ==
  ASSUME NEW base \in Nat, NEW digits \in Seq(Nat)
  PROVE  /\ NumberOf(SubSeq(digits, 1, 0), base) = 0
         /\ \A k \in 0 .. Len(digits) - 1 :
              NumberOf(SubSeq(digits, 1, k + 1), base)
                = NumberOf(SubSeq(digits, 1, k), base) + digits[k + 1] * Power(base, k)
         /\ \A k \in 0 .. Len(digits) :
              /\ SubSeq(digits, 1, k) \in Seq(Nat) /\ Len(SubSeq(digits, 1, k)) = k
              /\ NumberOf(SubSeq(digits, 1, k), base) \in Nat
         /\ SubSeq(digits, 1, Len(digits)) = digits
<1>1. SubSeq(digits, 1, 0) = << >> /\ SubSeq(digits, 1, Len(digits)) = digits
  OBVIOUS
<1>2. \A k \in 0 .. Len(digits) :
        SubSeq(digits, 1, k) \in Seq(Nat) /\ Len(SubSeq(digits, 1, k)) = k
  OBVIOUS
<1>3. ASSUME NEW k \in 0 .. Len(digits) - 1
      PROVE  NumberOf(SubSeq(digits, 1, k + 1), base)
               = NumberOf(SubSeq(digits, 1, k), base) + digits[k + 1] * Power(base, k)
  <2>1. SubSeq(digits, 1, k + 1) = Append(SubSeq(digits, 1, k), digits[k + 1])
    OBVIOUS
  <2>2. k + 1 \in 1 .. Len(digits) /\ k \in 0 .. Len(digits)
    OBVIOUS
  <2>3. digits[k + 1] \in Nat
    BY <2>2, ElementOfSeq
  <2> DEFINE first == SubSeq(digits, 1, k)
             d == digits[k + 1]
  <2>4. first \in Seq(Nat) /\ Len(first) = k /\ d \in Nat
    BY <1>2, <2>2, <2>3
  <2>5. NumberOf(Append(first, d), base) = NumberOf(first, base) + d * Power(base, k)
    <3> HIDE DEF first, d
    <3> QED BY <2>4, NumberSteps
  <2> QED BY <2>1, <2>5
<1>4. \A k \in 0 .. Len(digits) : NumberOf(SubSeq(digits, 1, k), base) \in Nat
  BY <1>2, NumberSteps
<1> QED BY <1>1, <1>2, <1>3, <1>4, NumberSteps

\* The digits of a concatenation.
LEMMA NumberConcat ==
  ASSUME NEW base \in Nat, NEW low \in Seq(Nat), NEW high \in Seq(Nat)
  PROVE  NumberOf(low \o high, base)
           = NumberOf(low, base) + Power(base, Len(low)) * NumberOf(high, base)
<1> DEFINE n == Len(high)
           N(k) == NumberOf(SubSeq(high, 1, k), base)
           P == Power(base, Len(low))
           Both(k) == NumberOf(low \o SubSeq(high, 1, k), base)
           T == {k \in Nat : k <= n => Both(k) = NumberOf(low, base) + P * N(k)}
<1>0. n \in Nat /\ Len(low) \in Nat /\ P \in Nat /\ NumberOf(low, base) \in Nat
  <2>1. n \in Nat /\ Len(low) \in Nat
    OBVIOUS
  <2> QED BY <2>1, PowerSteps, NumberSteps
<1>1. 0 \in T
  <2>1. SubSeq(high, 1, 0) = << >> /\ low \o << >> = low
    OBVIOUS
  <2>2. N(0) = 0
    BY <2>1, NumberSteps
  <2>3. P * 0 = 0
    BY <1>0
  <2>4. Both(0) = NumberOf(low, base)
    BY <2>1, Zenon
  <2> HIDE DEF N, P, Both
  <2> QED BY <1>0, <2>2, <2>3, <2>4
<1>2. ASSUME NEW k \in Nat, k \in T
      PROVE  k + 1 \in T
  <2> SUFFICES ASSUME k + 1 <= n
               PROVE  Both(k + 1) = NumberOf(low, base) + P * N(k + 1)
    OBVIOUS
  <2>1. k \in 0 .. n - 1 /\ k \in 0 .. n /\ k + 1 \in 1 .. n
    BY <1>0
  <2> DEFINE first == SubSeq(high, 1, k)
             d == high[k + 1]
  <2>2. /\ first \in Seq(Nat) /\ Len(first) = k /\ N(k) \in Nat
        /\ N(k + 1) = N(k) + d * Power(base, k)
    BY <2>1, NumberPrefix
  <2>3. d \in Nat
    BY <2>1, ElementOfSeq
  <2>4. SubSeq(high, 1, k + 1) = Append(first, d)
    BY <2>1
  <2>5. /\ low \o Append(first, d) = Append(low \o first, d)
        /\ low \o first \in Seq(Nat) /\ Len(low \o first) = Len(low) + k
    <3>1. first \in Seq(Nat) /\ Len(first) = k
      BY <2>2
    <3>2. \A w \in Seq(Nat), x \in Nat, y \in Seq(Nat) :
            /\ y \o Append(w, x) = Append(y \o w, x) /\ y \o w \in Seq(Nat)
            /\ Len(y \o w) = Len(y) + Len(w)
      BY SMTT(30)
    <3> HIDE DEF first, d
    <3> QED BY <2>3, <3>1, <3>2
  <2>6. Both(k + 1) = Both(k) + d * Power(base, Len(low) + k)
    <3> DEFINE w == low \o first
    <3>1. w \in Seq(Nat) /\ Len(w) = Len(low) + k
      BY <2>5
    <3>2. NumberOf(Append(w, d), base) = NumberOf(w, base) + d * Power(base, Len(low) + k)
      <4>1. \A x \in Seq(Nat) : \A y \in Nat : \A m :
              Len(x) = m => NumberOf(Append(x, y), base) = NumberOf(x, base) + y * Power(base, m)
        BY NumberSteps
      <4> HIDE DEF w, d
      <4> QED BY <2>3, <3>1, <4>1
    <3> QED BY <2>4, <2>5, <3>2
  <2>7. Power(base, Len(low) + k) = P * Power(base, k)
    BY <1>0, PowerOfSum
  <2>8. Both(k) = NumberOf(low, base) + P * N(k)
    BY <1>2, <2>1
  <2>9. Power(base, k) \in Nat
    BY PowerSteps
  <2>10. \A l, p, x, y, m \in Nat : (l + p * x) + y * (p * m) = l + p * (x + y * m)
    OBVIOUS
  <2> HIDE DEF N, P, Both, d
  <2>11. (NumberOf(low, base) + P * N(k)) + d * (P * Power(base, k))
           = NumberOf(low, base) + P * (N(k) + d * Power(base, k))
    BY SMTT(30), <1>0, <2>2, <2>3, <2>9, <2>10
  <2> QED BY <2>2, <2>6, <2>7, <2>8, <2>11
<1>3. T = Nat
  <2> HIDE DEF T
  <2>1. T \in SUBSET Nat
    BY DEF T
  <2> QED BY <1>1, <1>2, <2>1, Induction
<1>4. n \in T /\ SubSeq(high, 1, n) = high
  BY <1>0, <1>3
<1>5. Both(n) = NumberOf(low, base) + P * N(n)
  BY <1>0, <1>4
<1> QED BY <1>4, <1>5, Zenon

\* Digits make a number that is smaller than the next power.
LEMMA NumberRange ==
  ASSUME NEW base \in Nat, base > 0, NEW digits \in Seq(0 .. base - 1)
  PROVE  NumberOf(digits, base) \in 0 .. Power(base, Len(digits)) - 1
<1> DEFINE n == Len(digits)
           N(k) == NumberOf(SubSeq(digits, 1, k), base)
           P(k) == Power(base, k)
           T == {k \in Nat : k <= n => N(k) < P(k)}
<1>0. n \in Nat /\ digits \in Seq(Nat)
  <2>1. 0 .. base - 1 \subseteq Nat
    OBVIOUS
  <2> QED BY <2>1
<1>1. 0 \in T
  <2>1. N(0) = 0 /\ P(0) = 1
    BY <1>0, NumberPrefix, PowerSteps
  <2> HIDE DEF N, P
  <2> QED BY <2>1
<1>2. ASSUME NEW k \in Nat, k \in T
      PROVE  k + 1 \in T
  <2> SUFFICES ASSUME k + 1 <= n
               PROVE  N(k + 1) < P(k + 1)
    OBVIOUS
  <2>1. k \in 0 .. n - 1 /\ k \in 0 .. n /\ k + 1 \in 1 .. n
    BY <1>0
  <2>2. N(k + 1) = N(k) + digits[k + 1] * P(k) /\ N(k) \in Nat
    BY <1>0, <2>1, NumberPrefix
  <2>3. P(k + 1) = base * P(k) /\ P(k) \in Nat
    BY PowerSteps
  <2>4. digits[k + 1] \in 0 .. base - 1
    BY <2>1, ElementOfSeq
  <2>5. N(k) < P(k)
    BY <1>2, <2>1
  <2> HIDE DEF N, P
  <2>6. \A x, p \in Nat, d \in 0 .. base - 1 : x < p => x + d * p < base * p
    <3> SUFFICES ASSUME NEW x \in Nat, NEW p \in Nat, NEW d \in 0 .. base - 1, x < p
                 PROVE  x + d * p < base * p
      OBVIOUS
    <3>1. (base - 1 - d) * p >= 0
      OBVIOUS
    <3>2. (base - 1 - d) * p = base * p - p - d * p
      OBVIOUS
    <3> QED BY <3>1, <3>2
  <2> QED BY <2>2, <2>3, <2>4, <2>5, <2>6
<1>3. T = Nat
  <2> HIDE DEF T
  <2>1. T \in SUBSET Nat
    BY DEF T
  <2> QED BY <1>1, <1>2, <2>1, Induction
<1>4. n \in T /\ SubSeq(digits, 1, n) = digits
  BY <1>0, <1>3
<1>5. NumberOf(digits, base) \in Nat /\ Power(base, n) \in Nat
  BY <1>0, NumberSteps, PowerSteps
<1>6. N(n) < P(n)
  BY <1>0, <1>4
<1>7. NumberOf(digits, base) < Power(base, n)
  BY <1>4, <1>6, Zenon
<1> QED BY <1>5, <1>7

\* Quotients and remainders by a product.
LEMMA DivideTwice ==
  ASSUME NEW x \in Nat, NEW m \in Nat, m > 0, NEW n \in Nat, n > 0
  PROVE  /\ x \div (m * n) = (x \div m) \div n
         /\ x % (m * n) = (x % m) + ((x \div m) % n) * m
<1> DEFINE q == x \div m
           t == x % m
           d == q % n
           y == q \div n
<1>1. q \in Nat /\ t \in 0 .. m - 1 /\ x = m * q + t
  OBVIOUS
<1> HIDE DEF q, t
<1>2. y \in Nat /\ d \in 0 .. n - 1 /\ q = n * y + d
  BY <1>1
<1> HIDE DEF y, d
<1>3. x = y * (m * n) + (t + d * m)
  <2>1. m * q = m * (n * y + d)
    BY <1>2
  <2>2. m * (n * y + d) = y * (m * n) + d * m
    BY <1>2
  <2> QED BY <1>1, <1>2, <2>1, <2>2
<1>4. t + d * m \in 0 .. m * n - 1 /\ m * n \in Nat /\ m * n > 0
  <2>1. d * m \in Nat /\ m * n \in Nat
    BY <1>2
  <2>2. (n - 1 - d) * m >= 0
    BY <1>2
  <2>3. (n - 1 - d) * m = m * n - m - d * m
    BY <1>2
  <2>4. t + d * m \in Nat /\ t + d * m < m * n
    BY <1>1, <2>1, <2>2, <2>3
  <2> QED BY <2>1, <2>4
<1>5. x \div (m * n) = y /\ x % (m * n) = t + d * m
  <2> DEFINE k == m * n
             l == t + d * m
  <2>1. l \in 0 .. k - 1 /\ k \in Nat /\ k > 0 /\ x = y * k + l
    BY <1>3, <1>4
  <2> HIDE DEF k, l
  <2>2. x \div k = y /\ x % k = l
    BY <1>2, <2>1, DivideUnique
  <2> QED BY <2>2 DEF k, l
<1> QED BY <1>5 DEF q, t, d, y

\* The digits of a number make it again, up to the next power.
LEMMA NumberOfDigits ==
  ASSUME NEW base \in Nat, base > 0, NEW x \in Nat, NEW n \in Nat,
         NEW digits, digits = [k \in 1 .. n |-> (x \div Power(base, k - 1)) % base]
  PROVE  /\ digits \in Seq(0 .. base - 1) /\ Len(digits) = n
         /\ NumberOf(digits, base) = x % Power(base, n)
<1> DEFINE N(k) == NumberOf(SubSeq(digits, 1, k), base)
           P(k) == Power(base, k)
           T == {k \in Nat : k <= n => N(k) = x % P(k)}
<1>0. digits \in Seq(0 .. base - 1) /\ Len(digits) = n
  <2>1. ASSUME NEW k \in 1 .. n
        PROVE  (x \div Power(base, k - 1)) % base \in 0 .. base - 1
    <3>1. k - 1 \in Nat
      OBVIOUS
    <3>2. P(k - 1) \in Nat /\ P(k - 1) > 0
      BY <3>1, PowerPositive
    <3>3. \A y \in Nat : y > 0 => (x \div y) % base \in 0 .. base - 1
      <4>1. \A y \in Nat : y > 0 => x \div y \in Nat
        OBVIOUS
      <4> QED BY <4>1
    <3> QED BY <3>2, <3>3
  <2>2. digits \in [1 .. n -> 0 .. base - 1]
    BY <2>1
  <2> QED BY <2>2
<1>01. digits \in Seq(Nat)
  <2>1. 0 .. base - 1 \subseteq Nat
    OBVIOUS
  <2> QED BY <1>0, <2>1
<1>1. 0 \in T
  <2>1. N(0) = 0 /\ P(0) = 1
    BY <1>01, NumberPrefix, PowerSteps
  <2> HIDE DEF N, P
  <2> QED BY <2>1
<1>2. ASSUME NEW k \in Nat, k \in T
      PROVE  k + 1 \in T
  <2> SUFFICES ASSUME k + 1 <= n
               PROVE  N(k + 1) = x % P(k + 1)
    OBVIOUS
  <2>1. k \in 0 .. n - 1 /\ k \in 0 .. n /\ k + 1 \in 1 .. n /\ (k + 1) - 1 = k
    OBVIOUS
  <2>2. N(k + 1) = N(k) + digits[k + 1] * P(k)
    BY <1>0, <1>01, <2>1, NumberPrefix
  <2>3. P(k + 1) = base * P(k) /\ P(k) \in Nat /\ P(k) > 0
    BY PowerSteps, PowerPositive
  <2>4. digits[k + 1] = (x \div P(k)) % base
    BY <2>1
  <2>5. N(k) = x % P(k)
    BY <1>2, <2>1
  <2> HIDE DEF N, P
  <2>6. x % (P(k) * base) = (x % P(k)) + ((x \div P(k)) % base) * P(k)
    BY <2>3, DivideTwice
  <2>7. base * P(k) = P(k) * base
    BY <2>3
  <2> QED BY <2>2, <2>3, <2>4, <2>5, <2>6, <2>7
<1>3. T = Nat
  <2> HIDE DEF T
  <2>1. T \in SUBSET Nat
    BY DEF T
  <2> QED BY <1>1, <1>2, <2>1, Induction
<1>4. n \in T
  BY <1>3
<1>5. SubSeq(digits, 1, n) = digits
  BY <1>0, NumberPrefix, <1>01
<1>6. N(n) = x % P(n)
  BY <1>4
<1> QED BY <1>0, <1>5, <1>6, Zenon

\* A sum digit by digit, each with the carry of the one before.
Carries(base, x, y, w, c) ==
  \A k \in 1 .. Len(w) : w[k] + base * c[k] = x[k] + y[k] + c[k - 1]

\* w is the sum of x and y and the carry c, up to the carry d.
OneDigit(base, x, y, w, c, d) == w + base * d = x + y + c

\* The same for the lower digits, with the carry at the place m.
SumSoFar(x, y, w, c, m) == w + c * m = x + y

\* One digit more.
LEMMA CarryStep ==
  ASSUME NEW base \in Int, NEW m \in Int, NEW x \in Int, NEW y \in Int, NEW w \in Int,
         NEW c \in Int, NEW d \in Int, OneDigit(base, x, y, w, c, d),
         NEW xx \in Int, NEW yy \in Int, NEW ww \in Int, SumSoFar(xx, yy, ww, c, m)
  PROVE  SumSoFar(xx + x * m, yy + y * m, ww + w * m, d, base * m)
<1> USE DEF OneDigit, SumSoFar
<1>1. (w + base * d) * m = (x + y + c) * m
  OBVIOUS
<1>2. (w + base * d) * m = w * m + d * (base * m)
  OBVIOUS
<1>3. (x + y + c) * m = x * m + y * m + c * m
  OBVIOUS
<1>4. /\ w * m \in Int /\ d * (base * m) \in Int /\ x * m \in Int /\ y * m \in Int
      /\ c * m \in Int
  OBVIOUS
<1> QED BY <1>1, <1>2, <1>3, <1>4

\* It is the sum of the numbers and the first carry, up to the last.
LEMMA NumbersSum ==
  ASSUME NEW base \in Nat,
         NEW x \in Seq(Nat), NEW y \in Seq(Nat), NEW w \in Seq(Nat),
         Len(x) = Len(w), Len(y) = Len(w),
         NEW c \in [0 .. Len(w) -> Nat], Carries(base, x, y, w, c)
  PROVE  SumSoFar(NumberOf(x, base) + c[0], NumberOf(y, base), NumberOf(w, base),
                  c[Len(w)], Power(base, Len(w)))
<1> DEFINE n == Len(w)
<1>01. n \in Nat /\ Len(x) = n /\ Len(y) = n /\ Len(w) = n /\ c \in [0 .. n -> Nat]
  OBVIOUS
<1> HIDE DEF n
<1> DEFINE N(d, k) == NumberOf(SubSeq(d, 1, k), base)
           P(k) == Power(base, k)
           T == {k \in Nat : k <= n => N(w, k) + c[k] * P(k) = (N(x, k) + c[0]) + N(y, k)}
<1>0. \A k \in 0 .. n : N(x, k) \in Nat /\ N(y, k) \in Nat /\ N(w, k) \in Nat
  BY <1>01, NumberPrefix
<1>1. 0 \in T
  <2>1. N(x, 0) = 0 /\ N(y, 0) = 0 /\ N(w, 0) = 0 /\ P(0) = 1
    BY <1>01, NumberPrefix, PowerSteps
  <2>2. c[0] \in Nat
    BY <1>01
  <2> HIDE DEF N, P
  <2> QED BY <2>1, <2>2
<1>2. ASSUME NEW k \in Nat, k \in T
      PROVE  k + 1 \in T
  <2> SUFFICES ASSUME k + 1 <= n
               PROVE  N(w, k + 1) + c[k + 1] * P(k + 1) = (N(x, k + 1) + c[0]) + N(y, k + 1)
    OBVIOUS
  <2>1. k \in 0 .. n - 1 /\ k \in 0 .. n /\ k + 1 \in 1 .. n /\ k + 1 \in 0 .. n
        /\ (k + 1) - 1 = k
    BY <1>01
  <2> DEFINE d == x[k + 1]
             t == y[k + 1]
             q == w[k + 1]
  <2>2. /\ N(x, k + 1) = N(x, k) + d * P(k)
        /\ N(y, k + 1) = N(y, k) + t * P(k)
        /\ N(w, k + 1) = N(w, k) + q * P(k)
    BY <1>01, <2>1, NumberPrefix
  <2>3. P(k + 1) = base * P(k) /\ P(k) \in Nat
    BY PowerSteps
  <2>4. d \in Nat /\ t \in Nat /\ q \in Nat
    BY <1>01, <2>1, ElementOfSeq
  <2>5. OneDigit(base, d, t, q, c[k], c[k + 1])
    BY <1>01, <2>1 DEF Carries, OneDigit
  <2>6. SumSoFar(N(x, k) + c[0], N(y, k), N(w, k), c[k], P(k))
    BY <1>2, <2>1 DEF SumSoFar
  <2>7. c[k] \in Nat /\ c[k + 1] \in Nat /\ c[0] \in Nat
    BY <1>01, <2>1
  <2>8. N(x, k) \in Nat /\ N(y, k) \in Nat /\ N(w, k) \in Nat
    BY <1>0, <2>1
  <2>9. SumSoFar((N(x, k) + c[0]) + d * P(k), N(y, k) + t * P(k), N(w, k) + q * P(k),
                 c[k + 1], base * P(k))
    <3> HIDE DEF N, P, d, t, q
    <3>1. c[k] \in Int /\ c[k + 1] \in Int /\ P(k) \in Int /\ base \in Int
          /\ d \in Int /\ t \in Int /\ q \in Int
          /\ N(x, k) + c[0] \in Int /\ N(y, k) \in Int /\ N(w, k) \in Int
      BY <2>3, <2>4, <2>7, <2>8
    <3> QED BY <2>5, <2>6, <3>1, CarryStep
  <2>10. (N(x, k) + c[0]) + d * P(k) = N(x, k + 1) + c[0]
    <3>1. \A l, m, e \in Nat : (l + e) + m = (l + m) + e
      OBVIOUS
    <3>2. d * P(k) \in Nat
      <4>1. \A l, m \in Nat : l * m \in Nat
        OBVIOUS
      <4> HIDE DEF P, d
      <4> QED BY <2>3, <2>4, <4>1
    <3> HIDE DEF N, P, d
    <3> QED BY <2>2, <2>7, <2>8, <3>1, <3>2
  <2> QED BY <2>2, <2>3, <2>9, <2>10, Zenon DEF SumSoFar
<1>3. T = Nat
  <2> HIDE DEF T
  <2>1. T \in SUBSET Nat
    BY DEF T
  <2> QED BY <1>1, <1>2, <2>1, Induction
<1>4. n \in T /\ SubSeq(x, 1, n) = x /\ SubSeq(y, 1, n) = y /\ SubSeq(w, 1, n) = w
  BY <1>01, <1>3
<1>5. N(w, n) + c[n] * P(n) = (N(x, n) + c[0]) + N(y, n)
  BY <1>01, <1>4
<1> QED BY <1>4, <1>5, Zenon DEF SumSoFar, n

\* The values of w are the beginnings of d.
Collects(n, d, w) ==
  w[0] = << >> /\ \A k \in 1 .. n : w[k] = Append(w[k - 1], d[k])

\* What is appended one by one is there in the end.
LEMMA Collected ==
  ASSUME NEW n \in Nat, NEW V, NEW d \in [1 .. n -> V], NEW w, Collects(n, d, w)
  PROVE  w[n] = d /\ w[n] \in Seq(V) /\ Len(w[n]) = n
<1> DEFINE T == {k \in Nat : k <= n => w[k] = [m \in 1 .. k |-> d[m]]}
<1>1. 0 \in T
  <2>1. << >> = [m \in 1 .. 0 |-> d[m]]
    OBVIOUS
  <2> QED BY <2>1 DEF Collects
<1>2. ASSUME NEW k \in Nat, k \in T
      PROVE  k + 1 \in T
  <2> SUFFICES ASSUME k + 1 <= n
               PROVE  w[k + 1] = [m \in 1 .. k + 1 |-> d[m]]
    OBVIOUS
  <2>1. k + 1 \in 1 .. n /\ (k + 1) - 1 = k /\ k <= n
    OBVIOUS
  <2>2. w[k + 1] = Append(w[k], d[k + 1])
    BY <2>1 DEF Collects
  <2>3. w[k] = [m \in 1 .. k |-> d[m]]
    BY <1>2, <2>1
  <2>4. Append([m \in 1 .. k |-> d[m]], d[k + 1]) = [m \in 1 .. k + 1 |-> d[m]]
    <3> DEFINE low == [m \in 1 .. k |-> d[m]]
               high == [m \in 1 .. k + 1 |-> d[m]]
    <3>1. low \in Seq(V) /\ Len(low) = k /\ d[k + 1] \in V
      BY <2>1
    <3>2. high \in Seq(V) /\ Len(high) = k + 1
      <4>1. \A m \in 1 .. k + 1 : m \in 1 .. n
        BY <2>1
      <4> QED BY <4>1
    <3>3. \A m \in 1 .. k : low[m] = d[m] /\ high[m] = d[m]
      OBVIOUS
    <3>4. high[k + 1] = d[k + 1]
      OBVIOUS
    <3> DEFINE x == Append(low, d[k + 1])
    <3> HIDE DEF low, high
    <3>5. x \in Seq(V) /\ Len(x) = k + 1 /\ \A m \in 1 .. k : x[m] = low[m]
      BY <3>1
    <3>6. x[k + 1] = d[k + 1]
      BY <3>1
    <3>7. \A m \in 1 .. k + 1 : x[m] = high[m]
      BY <3>3, <3>4, <3>5, <3>6
    <3> HIDE DEF x
    <3>8. x = high
      BY <3>2, <3>5, <3>7, SeqEqual
    <3> QED BY <3>8 DEF low, high, x
  <2> QED BY <2>2, <2>3, <2>4
<1>3. T = Nat
  <2> HIDE DEF T
  <2>1. T \in SUBSET Nat
    BY DEF T
  <2> QED BY <1>1, <1>2, <2>1, Induction
<1>4. w[n] = [m \in 1 .. n |-> d[m]]
  BY <1>3
<1>5. w[n] = d
  BY <1>4
<1>6. d \in Seq(V) /\ Len(d) = n
  OBVIOUS
<1> QED BY <1>5, <1>6

\* The words, their number and their powers.
LEMMA Sizes ==
  /\ WORD \in Nat /\ WORD >= 4 /\ WORDS \in Nat /\ WORDS >= 3 /\ WORDS <= WORD
  /\ OMEGA \in 1 .. WORD - 1
  /\ CAPACITY \in Nat /\ CAPACITY > 0
  /\ \A n \in Nat : Power(WORD, n) \in Nat /\ Power(WORD, n) > 0
  /\ Word \subseteq Nat /\ 0 \in Word
<1>1. /\ WORD \in Nat /\ WORD >= 4 /\ WORDS \in Nat /\ WORDS >= 3 /\ WORDS <= WORD
      /\ OMEGA \in 1 .. WORD - 1
  BY VliAssumption
<1>2. WORD > 0 /\ \A n \in Nat : Power(WORD, n) \in Nat /\ Power(WORD, n) > 0
  BY <1>1, PowerPositive
<1>3. Word \subseteq Nat /\ 0 \in Word
  BY <1>1 DEF Word
<1> QED BY <1>1, <1>2, <1>3 DEF CAPACITY

\* The number of some words.
LEMMA NumRange ==
  ASSUME NEW x \in Seq(Word)
  PROVE  x \in Seq(Nat) /\ Num(x) \in Nat /\ Num(x) < Power(WORD, Len(x))
<1>1. WORD \in Nat /\ WORD > 0 /\ x \in Seq(0 .. WORD - 1) /\ x \in Seq(Nat) /\ Len(x) \in Nat
  <2>1. WORD \in Nat /\ WORD > 0
    BY Sizes
  <2>2. x \in Seq(Nat) /\ Len(x) \in Nat
    BY <2>1 DEF Word
  <2> QED BY <2>1, <2>2 DEF Word
<1>2. NumberOf(x, WORD) \in 0 .. Power(WORD, Len(x)) - 1 /\ Power(WORD, Len(x)) \in Nat
  BY <1>1, NumberRange, PowerSteps
<1> QED BY <1>1, <1>2 DEF Num

\* The words of a number, and their number.
LEMMA NumOfWords ==
  ASSUME NEW x \in Nat, NEW n \in Nat
  PROVE  /\ WordsOf(x, n) \in Seq(Word) /\ Len(WordsOf(x, n)) = n
         /\ Num(WordsOf(x, n)) = x % Power(WORD, n)
<1>1. WORD \in Nat /\ WORD > 0
  BY Sizes
<1>2. WordsOf(x, n) = [k \in 1 .. n |-> (x \div Power(WORD, k - 1)) % WORD]
  BY DEF WordsOf
<1> QED BY <1>1, <1>2, NumberOfDigits DEF Num, Word

-----------------------------------------------------------------------------
(* uECC_vli_add(), uECC_vli_sub()                                          *)

\* The remainder of a sum of two words and a carry.
LEMMA WordSum ==
  ASSUME NEW x \in Word, NEW y \in Word, NEW c \in 0 .. 1
  PROVE  LET d == (x + y + c) % WORD
             after == IF d # x THEN Bit(d < x) ELSE c
         IN  d \in Word /\ after \in 0 .. 1 /\ d + WORD * after = x + y + c
<1> DEFINE total == x + y + c
           d == total % WORD
<1>1. WORD \in Nat /\ WORD >= 4 /\ x \in 0 .. WORD - 1 /\ y \in 0 .. WORD - 1
  BY Sizes DEF Word
<1>2. total \in 0 .. 2 * WORD - 1
  BY <1>1
<1>3. d = IF total < WORD THEN total ELSE total - WORD
  <2> HIDE DEF total
  <2>1. CASE total < WORD
    BY <1>1, <1>2, <2>1
  <2>2. CASE total >= WORD
    <3>1. total = 1 * WORD + (total - WORD) /\ total - WORD \in 0 .. WORD - 1
          /\ total \in Int /\ 1 \in Int /\ WORD > 0
      BY <1>1, <1>2, <2>2
    <3>2. total % WORD = total - WORD
      BY <1>1, <3>1, DivideUnique
    <3> QED BY <1>1, <1>2, <2>2, <3>2
  <2> QED BY <1>1, <1>2, <2>1, <2>2
<1> HIDE DEF d
<1>4. d \in 0 .. WORD - 1
  BY <1>1, <1>2, <1>3
<1> DEFINE after == IF d # x THEN Bit(d < x) ELSE c
<1>5. after \in 0 .. 1 /\ d + WORD * after = total
  <2>1. CASE total < WORD
    BY <1>1, <1>3, <2>1 DEF Bit
  <2>2. CASE total >= WORD
    BY <1>1, <1>3, <2>2 DEF Bit
  <2> QED BY <1>1, <1>2, <2>1, <2>2
<1> QED BY <1>4, <1>5 DEF d, Word

\* The same for a difference and a borrow.
LEMMA WordDifference ==
  ASSUME NEW x \in Word, NEW y \in Word, NEW c \in 0 .. 1
  PROVE  LET d == (x - y - c) % WORD
             after == IF d # x THEN Bit(d > x) ELSE c
         IN  d \in Word /\ after \in 0 .. 1 /\ d + y + c = x + WORD * after
<1> DEFINE total == x - y - c
           d == total % WORD
<1>1. WORD \in Nat /\ WORD >= 4 /\ x \in 0 .. WORD - 1 /\ y \in 0 .. WORD - 1
  BY Sizes DEF Word
<1>2. total \in Int /\ total >= -WORD /\ total < WORD
  BY <1>1
<1>3. d = IF total >= 0 THEN total ELSE total + WORD
  <2> HIDE DEF total
  <2>1. CASE total >= 0
    BY <1>1, <1>2, <2>1
  <2>2. CASE total < 0
    <3>1. total = (-1) * WORD + (total + WORD) /\ total + WORD \in 0 .. WORD - 1
          /\ -1 \in Int /\ WORD > 0
      BY <1>1, <1>2, <2>2
    <3>2. total % WORD = total + WORD
      BY <1>1, <1>2, <3>1, DivideUnique
    <3> QED BY <1>1, <1>2, <2>2, <3>2
  <2> QED BY <1>1, <1>2, <2>1, <2>2
<1> HIDE DEF d
<1>4. d \in 0 .. WORD - 1
  BY <1>1, <1>2, <1>3
<1> DEFINE after == IF d # x THEN Bit(d > x) ELSE c
<1>5. after \in 0 .. 1 /\ d + y + c = x + WORD * after
  <2>1. CASE total >= 0
    BY <1>1, <1>3, <2>1 DEF Bit
  <2>2. CASE total < 0
    BY <1>1, <1>3, <2>2 DEF Bit
  <2> QED BY <1>1, <1>2, <2>1, <2>2
<1> QED BY <1>4, <1>5 DEF d, Word

\* One word of uECC_vli_add(), and the function that vli_add() chooses.
AddWord(x, y, before) ==
  LET sum == (x + y + before.carry) % WORD
  IN  [words |-> Append(before.words, sum),
       carry |-> IF sum # x THEN Bit(sum < x) ELSE before.carry]

AddsUpTo(x, y, f) ==
  f = [k \in 0 .. Len(x) |->
         IF k = 0 THEN [words |-> << >>, carry |-> 0] ELSE AddWord(x[k], y[k], f[k - 1])]

\* The words of the sum and the carry are the sum.
LEMMA AddRight ==
  ASSUME NEW x \in Seq(Word), NEW y \in Seq(Word), Len(x) = Len(y)
  PROVE  /\ vli_add(x, y).words \in Seq(Word) /\ Len(vli_add(x, y).words) = Len(x)
         /\ vli_add(x, y).carry \in 0 .. 1
         /\ Num(vli_add(x, y).words) + vli_add(x, y).carry * Power(WORD, Len(x))
              = Num(x) + Num(y)
<1> DEFINE n == Len(x)
           A == [words : Seq(Word), carry : 0 .. 1]
           start == [words |-> << >>, carry |-> 0]
           f == CHOOSE f : AddsUpTo(x, y, f)
<1>0. n \in Nat /\ start \in A
  OBVIOUS
<1>1. ASSUME NEW before \in A, NEW k \in 1 .. n
      PROVE  /\ AddWord(x[k], y[k], before) \in A
             /\ AddWord(x[k], y[k], before).words
                  = Append(before.words, (x[k] + y[k] + before.carry) % WORD)
             /\ (x[k] + y[k] + before.carry) % WORD \in Word
             /\ ((x[k] + y[k] + before.carry) % WORD)
                  + WORD * AddWord(x[k], y[k], before).carry
                  = x[k] + y[k] + before.carry
  <2>1. x[k] \in Word /\ y[k] \in Word /\ before.carry \in 0 .. 1 /\ before.words \in Seq(Word)
    <3>1. k \in 1 .. Len(x) /\ k \in 1 .. Len(y)
      OBVIOUS
    <3> QED BY <3>1, ElementOfSeq
  <2> DEFINE d == (x[k] + y[k] + before.carry) % WORD
             after == IF d # x[k] THEN Bit(d < x[k]) ELSE before.carry
  <2>2. d \in Word /\ after \in 0 .. 1 /\ d + WORD * after = x[k] + y[k] + before.carry
    BY <2>1, WordSum
  <2>3. AddWord(x[k], y[k], before) = [words |-> Append(before.words, d), carry |-> after]
    BY DEF AddWord
  <2> HIDE DEF d, after
  <2>4. Append(before.words, d) \in Seq(Word)
    BY <2>1, <2>2
  <2>5. /\ AddWord(x[k], y[k], before) \in A
        /\ AddWord(x[k], y[k], before).words = Append(before.words, d)
        /\ AddWord(x[k], y[k], before).carry = after
    BY <2>2, <2>3, <2>4
  <2> QED BY <2>2, <2>5 DEF d
<1>2. AddsUpTo(x, y, f)
  <2> DEFINE step == [k \in 1 .. n |-> [before \in A |-> AddWord(x[k], y[k], before)]]
  <2>1. step \in [1 .. n -> [A -> A]]
    BY <1>1
  <2>2. PICK g : Unfolds(g, n, A, start, step)
    <3> HIDE DEF step, n, A, start
    <3> QED BY <1>0, <2>1, Recursion
  <2>3. \A k \in 1 .. n : \A before \in A : step[k][before] = AddWord(x[k], y[k], before)
    OBVIOUS
  <2>4. \A k \in 0 .. n : g[k] = IF k = 0 THEN start ELSE AddWord(x[k], y[k], g[k - 1])
    <3> HIDE DEF step, A, start
    <3>1. \A k \in 0 .. n : k = 0 \/ (k \in 1 .. n /\ k - 1 \in 0 .. n /\ k # 0)
      BY <1>0
    <3> HIDE DEF n
    <3> QED BY <2>2, <2>3, <3>1 DEF Unfolds
  <2>5. g = [k \in 0 .. n |-> g[k]]
    <3> HIDE DEF step, A
    <3> QED BY <2>2 DEF Unfolds
  <2>6. AddsUpTo(x, y, g)
    <3> HIDE DEF step, A
    <3> QED BY <2>4, <2>5 DEF AddsUpTo
  <2> QED BY <2>6
<1>3. vli_add(x, y) = f[n]
  BY DEF vli_add, AddsUpTo, AddWord
<1> HIDE DEF f
<1>4. f[0] = start /\ \A k \in 1 .. n : f[k] = AddWord(x[k], y[k], f[k - 1])
  <2>1. \A k \in 0 .. n : f[k] = IF k = 0 THEN start ELSE AddWord(x[k], y[k], f[k - 1])
    BY <1>2 DEF AddsUpTo
  <2> HIDE DEF start
  <2>2. 0 \in 0 .. n /\ \A k \in 1 .. n : k \in 0 .. n /\ k # 0
    BY <1>0
  <2> QED BY <2>1, <2>2
<1>5. \A k \in 0 .. n : f[k] \in A
  <2> DEFINE T == {k \in Nat : k <= n => f[k] \in A}
  <2> HIDE DEF A, start
  <2>1. 0 \in T
    BY <1>0, <1>4
  <2>2. ASSUME NEW k \in Nat, k \in T
        PROVE  k + 1 \in T
    <3>1. k + 1 <= n => k + 1 \in 1 .. n /\ k <= n /\ (k + 1) - 1 = k
      BY <1>0
    <3> QED BY <1>1, <1>4, <2>2, <3>1
  <2>3. T = Nat
    <3> HIDE DEF T
    <3>1. T \in SUBSET Nat
      BY DEF T
    <3> QED BY <2>1, <2>2, <3>1, Induction
  <2> QED BY <1>0, <2>3
<1> DEFINE d == [k \in 1 .. n |-> (x[k] + y[k] + f[k - 1].carry) % WORD]
           w == [k \in 0 .. n |-> f[k].words]
           c == [k \in 0 .. n |-> f[k].carry]
<1>6. ASSUME NEW k \in 1 .. n
      PROVE  /\ k - 1 \in 0 .. n /\ k \in 0 .. n /\ d[k] \in Word
             /\ w[k] = Append(w[k - 1], d[k])
             /\ d[k] + WORD * c[k] = x[k] + y[k] + c[k - 1]
  <2>1. k - 1 \in 0 .. n /\ k \in 0 .. n
    BY <1>0
  <2>2. f[k - 1] \in A /\ f[k] = AddWord(x[k], y[k], f[k - 1])
    BY <1>4, <1>5, <2>1
  <2> HIDE DEF A
  <2>3. /\ f[k].words = Append(f[k - 1].words, (x[k] + y[k] + f[k - 1].carry) % WORD)
        /\ (x[k] + y[k] + f[k - 1].carry) % WORD \in Word
        /\ ((x[k] + y[k] + f[k - 1].carry) % WORD) + WORD * f[k].carry
             = x[k] + y[k] + f[k - 1].carry
    BY <1>1, <2>2
  <2>4. /\ d[k] = (x[k] + y[k] + f[k - 1].carry) % WORD
        /\ w[k] = f[k].words /\ w[k - 1] = f[k - 1].words
        /\ c[k] = f[k].carry /\ c[k - 1] = f[k - 1].carry
    BY <2>1
  <2> HIDE DEF d, w, c
  <2> QED BY <2>1, <2>3, <2>4
<1>7. d \in [1 .. n -> Word] /\ c \in [0 .. n -> 0 .. 1]
  <2>1. \A k \in 0 .. n : f[k].carry \in 0 .. 1
    BY <1>5
  <2>2. \A k \in 1 .. n : (x[k] + y[k] + f[k - 1].carry) % WORD \in Word
    BY <1>6
  <2> QED BY <2>1, <2>2
<1>8. w[0] = << >> /\ c[0] = 0 /\ w[n] = f[n].words /\ c[n] = f[n].carry
  BY <1>0, <1>4
<1> HIDE DEF d, w, c
<1>9. w[n] = d /\ w[n] \in Seq(Word) /\ Len(w[n]) = n
  <2>1. Collects(n, d, w)
    BY <1>6, <1>8 DEF Collects
  <2> QED BY <1>0, <1>7, <2>1, Collected
<1>10. Num(w[n]) + c[n] * Power(WORD, n) = Num(x) + Num(y)
  <2> DEFINE q == w[n]
  <2>1. x \in Seq(Nat) /\ y \in Seq(Nat) /\ q \in Seq(Nat) /\ Len(q) = n /\ Len(y) = n
    BY <1>9, NumRange
  <2>2. c \in [0 .. n -> Nat] /\ WORD \in Nat /\ Len(x) = n
    <3>1. 0 .. 1 \subseteq Nat
      OBVIOUS
    <3> QED BY <1>7, <3>1, Sizes
  <2>3. Carries(WORD, x, y, q, c)
    BY <1>6, <1>8, <1>9 DEF Carries
  <2> HIDE DEF n, q
  <2>4. NumberOf(q, WORD) + c[n] * Power(WORD, n) = NumberOf(x, WORD) + NumberOf(y, WORD)
    <3>1. c \in [0 .. Len(q) -> Nat]
      BY <2>1, <2>2
    <3>2. SumSoFar(NumberOf(x, WORD) + c[0], NumberOf(y, WORD), NumberOf(q, WORD),
                   c[Len(q)], Power(WORD, Len(q)))
      BY <2>1, <2>2, <2>3, <3>1, NumbersSum
    <3>3. NumberOf(x, WORD) \in Nat /\ NumberOf(q, WORD) \in Nat /\ c[0] = 0
      BY <1>8, <2>1, <2>2, NumberSteps
    <3> QED BY <2>1, <3>2, <3>3 DEF SumSoFar
  <2> QED BY <2>4 DEF Num, q
<1>11. c[n] \in 0 .. 1
  BY <1>0, <1>7
<1> QED BY <1>3, <1>8, <1>9, <1>10, <1>11

\* One word of uECC_vli_sub(), and the function that vli_sub() chooses.
SubWord(x, y, before) ==
  LET diff == (x - y - before.borrow) % WORD
  IN  [words |-> Append(before.words, diff),
       borrow |-> IF diff # x THEN Bit(diff > x) ELSE before.borrow]

SubsUpTo(x, y, f) ==
  f = [k \in 0 .. Len(x) |->
         IF k = 0 THEN [words |-> << >>, borrow |-> 0] ELSE SubWord(x[k], y[k], f[k - 1])]

\* The words of the difference and the borrow are the difference.
LEMMA SubRight ==
  ASSUME NEW x \in Seq(Word), NEW y \in Seq(Word), Len(x) = Len(y)
  PROVE  /\ vli_sub(x, y).words \in Seq(Word) /\ Len(vli_sub(x, y).words) = Len(x)
         /\ vli_sub(x, y).borrow \in 0 .. 1
         /\ Num(x) + vli_sub(x, y).borrow * Power(WORD, Len(x))
              = Num(vli_sub(x, y).words) + Num(y)
<1> DEFINE n == Len(x)
           A == [words : Seq(Word), borrow : 0 .. 1]
           start == [words |-> << >>, borrow |-> 0]
           f == CHOOSE f : SubsUpTo(x, y, f)
<1>0. n \in Nat /\ start \in A
  OBVIOUS
<1>1. ASSUME NEW before \in A, NEW k \in 1 .. n
      PROVE  /\ SubWord(x[k], y[k], before) \in A
             /\ SubWord(x[k], y[k], before).words
                  = Append(before.words, (x[k] - y[k] - before.borrow) % WORD)
             /\ (x[k] - y[k] - before.borrow) % WORD \in Word
             /\ ((x[k] - y[k] - before.borrow) % WORD) + y[k] + before.borrow
                  = x[k] + WORD * SubWord(x[k], y[k], before).borrow
  <2>1. x[k] \in Word /\ y[k] \in Word /\ before.borrow \in 0 .. 1 /\ before.words \in Seq(Word)
    <3>1. k \in 1 .. Len(x) /\ k \in 1 .. Len(y)
      OBVIOUS
    <3> QED BY <3>1, ElementOfSeq
  <2> DEFINE d == (x[k] - y[k] - before.borrow) % WORD
             after == IF d # x[k] THEN Bit(d > x[k]) ELSE before.borrow
  <2>2. d \in Word /\ after \in 0 .. 1 /\ d + y[k] + before.borrow = x[k] + WORD * after
    BY <2>1, WordDifference
  <2>3. SubWord(x[k], y[k], before) = [words |-> Append(before.words, d), borrow |-> after]
    BY DEF SubWord
  <2> HIDE DEF d, after
  <2>4. Append(before.words, d) \in Seq(Word)
    BY <2>1, <2>2
  <2>5. /\ SubWord(x[k], y[k], before) \in A
        /\ SubWord(x[k], y[k], before).words = Append(before.words, d)
        /\ SubWord(x[k], y[k], before).borrow = after
    BY <2>2, <2>3, <2>4
  <2> QED BY <2>2, <2>5 DEF d
<1>2. SubsUpTo(x, y, f)
  <2> DEFINE step == [k \in 1 .. n |-> [before \in A |-> SubWord(x[k], y[k], before)]]
  <2>1. step \in [1 .. n -> [A -> A]]
    BY <1>1
  <2>2. PICK g : Unfolds(g, n, A, start, step)
    <3> HIDE DEF step, n, A, start
    <3> QED BY <1>0, <2>1, Recursion
  <2>3. \A k \in 1 .. n : \A before \in A : step[k][before] = SubWord(x[k], y[k], before)
    OBVIOUS
  <2>4. \A k \in 0 .. n : g[k] = IF k = 0 THEN start ELSE SubWord(x[k], y[k], g[k - 1])
    <3> HIDE DEF step, A, start
    <3>1. \A k \in 0 .. n : k = 0 \/ (k \in 1 .. n /\ k - 1 \in 0 .. n /\ k # 0)
      BY <1>0
    <3> HIDE DEF n
    <3> QED BY <2>2, <2>3, <3>1 DEF Unfolds
  <2>5. g = [k \in 0 .. n |-> g[k]]
    <3> HIDE DEF step, A
    <3> QED BY <2>2 DEF Unfolds
  <2>6. SubsUpTo(x, y, g)
    <3> HIDE DEF step, A
    <3> QED BY <2>4, <2>5 DEF SubsUpTo
  <2> QED BY <2>6
<1>3. vli_sub(x, y) = f[n]
  BY DEF vli_sub, SubsUpTo, SubWord
<1> HIDE DEF f
<1>4. f[0] = start /\ \A k \in 1 .. n : f[k] = SubWord(x[k], y[k], f[k - 1])
  <2>1. \A k \in 0 .. n : f[k] = IF k = 0 THEN start ELSE SubWord(x[k], y[k], f[k - 1])
    BY <1>2 DEF SubsUpTo
  <2> HIDE DEF start
  <2>2. 0 \in 0 .. n /\ \A k \in 1 .. n : k \in 0 .. n /\ k # 0
    BY <1>0
  <2> QED BY <2>1, <2>2
<1>5. \A k \in 0 .. n : f[k] \in A
  <2> DEFINE T == {k \in Nat : k <= n => f[k] \in A}
  <2> HIDE DEF A, start
  <2>1. 0 \in T
    BY <1>0, <1>4
  <2>2. ASSUME NEW k \in Nat, k \in T
        PROVE  k + 1 \in T
    <3>1. k + 1 <= n => k + 1 \in 1 .. n /\ k <= n /\ (k + 1) - 1 = k
      BY <1>0
    <3> QED BY <1>1, <1>4, <2>2, <3>1
  <2>3. T = Nat
    <3> HIDE DEF T
    <3>1. T \in SUBSET Nat
      BY DEF T
    <3> QED BY <2>1, <2>2, <3>1, Induction
  <2> QED BY <1>0, <2>3
<1> DEFINE d == [k \in 1 .. n |-> (x[k] - y[k] - f[k - 1].borrow) % WORD]
           w == [k \in 0 .. n |-> f[k].words]
           c == [k \in 0 .. n |-> f[k].borrow]
<1>6. ASSUME NEW k \in 1 .. n
      PROVE  /\ k - 1 \in 0 .. n /\ k \in 0 .. n /\ d[k] \in Word
             /\ w[k] = Append(w[k - 1], d[k])
             /\ d[k] + y[k] + c[k - 1] = x[k] + WORD * c[k]
  <2>1. k - 1 \in 0 .. n /\ k \in 0 .. n
    BY <1>0
  <2>2. f[k - 1] \in A /\ f[k] = SubWord(x[k], y[k], f[k - 1])
    BY <1>4, <1>5, <2>1
  <2> HIDE DEF A
  <2>3. /\ f[k].words = Append(f[k - 1].words, (x[k] - y[k] - f[k - 1].borrow) % WORD)
        /\ (x[k] - y[k] - f[k - 1].borrow) % WORD \in Word
        /\ ((x[k] - y[k] - f[k - 1].borrow) % WORD) + y[k] + f[k - 1].borrow
             = x[k] + WORD * f[k].borrow
    BY <1>1, <2>2
  <2>4. /\ d[k] = (x[k] - y[k] - f[k - 1].borrow) % WORD
        /\ w[k] = f[k].words /\ w[k - 1] = f[k - 1].words
        /\ c[k] = f[k].borrow /\ c[k - 1] = f[k - 1].borrow
    BY <2>1
  <2> HIDE DEF d, w, c
  <2> QED BY <2>1, <2>3, <2>4
<1>7. d \in [1 .. n -> Word] /\ c \in [0 .. n -> 0 .. 1]
  <2>1. \A k \in 0 .. n : f[k].borrow \in 0 .. 1
    BY <1>5
  <2>2. \A k \in 1 .. n : (x[k] - y[k] - f[k - 1].borrow) % WORD \in Word
    BY <1>6
  <2> QED BY <2>1, <2>2
<1>8. w[0] = << >> /\ c[0] = 0 /\ w[n] = f[n].words /\ c[n] = f[n].borrow
  BY <1>0, <1>4
<1> HIDE DEF d, w, c
<1>9. w[n] = d /\ w[n] \in Seq(Word) /\ Len(w[n]) = n
  <2>1. Collects(n, d, w)
    BY <1>6, <1>8 DEF Collects
  <2> QED BY <1>0, <1>7, <2>1, Collected
<1>10. Num(x) + c[n] * Power(WORD, n) = Num(w[n]) + Num(y)
  <2> DEFINE q == w[n]
  <2>1. x \in Seq(Nat) /\ y \in Seq(Nat) /\ q \in Seq(Nat) /\ Len(q) = n /\ Len(y) = n
    BY <1>9, NumRange
  <2>2. c \in [0 .. n -> Nat] /\ WORD \in Nat /\ Len(x) = n
    <3>1. 0 .. 1 \subseteq Nat
      OBVIOUS
    <3> QED BY <1>7, <3>1, Sizes
  <2>3. Carries(WORD, q, y, x, c)
    BY <1>6, <1>8, <1>9 DEF Carries
  <2> HIDE DEF n, q
  <2>4. NumberOf(x, WORD) + c[n] * Power(WORD, n) = NumberOf(q, WORD) + NumberOf(y, WORD)
    <3>1. c \in [0 .. Len(x) -> Nat]
      BY <2>1, <2>2
    <3>2. SumSoFar(NumberOf(q, WORD) + c[0], NumberOf(y, WORD), NumberOf(x, WORD),
                   c[Len(x)], Power(WORD, Len(x)))
      BY <2>1, <2>2, <2>3, <3>1, NumbersSum
    <3>3. NumberOf(x, WORD) \in Nat /\ NumberOf(q, WORD) \in Nat /\ c[0] = 0
      BY <1>8, <2>1, <2>2, NumberSteps
    <3> QED BY <2>1, <3>2, <3>3 DEF SumSoFar
  <2> QED BY <2>4 DEF Num, q
<1>11. c[n] \in 0 .. 1
  BY <1>0, <1>7
<1> QED BY <1>3, <1>8, <1>9, <1>10, <1>11

-----------------------------------------------------------------------------
(* uECC_vli_cmp()                                                          *)

\* Digits that are the same from m + 1 on leave the difference alone.
LEMMA SameDigits ==
  ASSUME NEW base \in Nat, NEW x \in Seq(Nat), NEW y \in Seq(Nat), Len(x) = Len(y),
         NEW m \in 0 .. Len(x), \A k \in m + 1 .. Len(x) : x[k] = y[k]
  PROVE  NumberOf(x, base) - NumberOf(y, base)
           = NumberOf(SubSeq(x, 1, m), base) - NumberOf(SubSeq(y, 1, m), base)
<1> DEFINE n == Len(x)
           N(d, k) == NumberOf(SubSeq(d, 1, k), base)
           T == {k \in Nat : k <= n - m =>
                   N(x, m + k) - N(y, m + k) = N(x, m) - N(y, m)}
<1>0. /\ n \in Nat /\ m \in Nat /\ m <= n /\ Len(y) = n /\ Len(x) = n
      /\ \A k \in m + 1 .. n : x[k] = y[k]
  <2> HIDE DEF N, T
  <2>1. Len(x) \in Nat
    BY LenProperties
  <2>2. m \in Nat /\ m <= Len(x)
    BY <2>1
  <2>3. \A k \in m + 1 .. n : x[k] = y[k]
    OBVIOUS
  <2> QED BY <2>1, <2>2, <2>3
<1> HIDE DEF n
<1>00. \A k \in 0 .. n : N(x, k) \in Int /\ N(y, k) \in Int
  <2>1. \A k \in 0 .. n : N(x, k) \in Nat /\ N(y, k) \in Nat
    BY <1>0, NumberPrefix
  <2> HIDE DEF N
  <2> QED BY <2>1
<1>1. 0 \in T
  <2>1. m + 0 = m
    BY <1>0
  <2> QED BY <2>1
<1>2. ASSUME NEW k \in Nat, k \in T
      PROVE  k + 1 \in T
  <2> SUFFICES ASSUME k + 1 <= n - m
               PROVE  N(x, m + (k + 1)) - N(y, m + (k + 1)) = N(x, m) - N(y, m)
    OBVIOUS
  <2> DEFINE l == m + k
  <2>1. /\ l \in 0 .. n - 1 /\ l \in 0 .. n /\ m + (k + 1) = l + 1 /\ l + 1 \in m + 1 .. n
        /\ k <= n - m /\ l + 1 \in 1 .. n
    BY <1>0
  <2>2. N(x, l) - N(y, l) = N(x, m) - N(y, m)
    BY <1>2, <2>1
  <2> HIDE DEF l
  <2>3. /\ N(x, l + 1) = N(x, l) + x[l + 1] * Power(base, l)
        /\ N(y, l + 1) = N(y, l) + y[l + 1] * Power(base, l)
    BY <1>0, <2>1, NumberPrefix
  <2>4. x[l + 1] = y[l + 1] /\ x[l + 1] \in Nat
    BY <1>0, <2>1, ElementOfSeq
  <2>5. Power(base, l) \in Nat
    <3>1. l \in Nat
      BY <2>1
    <3> QED BY <3>1, PowerSteps
  <2> DEFINE p == x[l + 1] * Power(base, l)
  <2>6. p \in Int
    BY <2>4, <2>5
  <2>7. N(x, l + 1) = N(x, l) + p /\ N(y, l + 1) = N(y, l) + p
    BY <2>3, <2>4
  <2>8. N(x, l) \in Int /\ N(y, l) \in Int
    BY <1>00, <2>1
  <2> HIDE DEF N, p
  <2> QED BY <2>1, <2>2, <2>6, <2>7, <2>8
<1>3. T = Nat
  <2> HIDE DEF T
  <2>1. T \in SUBSET Nat
    BY DEF T
  <2> QED BY <1>1, <1>2, <2>1, Induction
<1>4. n - m \in T /\ m + (n - m) = n
  <2>1. n - m \in Nat /\ m + (n - m) = n
    BY <1>0
  <2> HIDE DEF T
  <2> QED BY <1>3, <2>1
<1>5. N(x, n) - N(y, n) = N(x, m) - N(y, m)
  BY <1>0, <1>4
<1>6. SubSeq(x, 1, n) = x /\ SubSeq(y, 1, n) = y
  BY <1>0
<1> QED BY <1>5, <1>6, Zenon

\* A larger digit makes up for all the lower ones.
LEMMA LargerDigit ==
  ASSUME NEW p \in Nat, NEW x \in Nat, NEW y \in Nat, NEW d \in Nat, NEW t \in Nat,
         y < p, d > t
  PROVE  x + d * p > y + t * p
<1>1. (d - t - 1) * p >= 0
  OBVIOUS
<1>2. (d - t - 1) * p = d * p - t * p - p
  OBVIOUS
<1> QED BY <1>1, <1>2

\* The highest word that differs decides.
LEMMA TopDecides ==
  ASSUME NEW x \in Seq(Word), NEW y \in Seq(Word), Len(x) = Len(y),
         NEW m \in 1 .. Len(x), x[m] > y[m], \A k \in m + 1 .. Len(x) : x[k] = y[k]
  PROVE  Num(x) > Num(y)
<1> DEFINE N(d, k) == NumberOf(SubSeq(d, 1, k), WORD)
<1>1. x \in Seq(Nat) /\ y \in Seq(Nat) /\ m \in 0 .. Len(x) /\ WORD \in Nat /\ WORD > 0
  BY NumRange, Sizes
<1>2. NumberOf(x, WORD) - NumberOf(y, WORD) = N(x, m) - N(y, m)
  BY <1>1, SameDigits
<1>3. m - 1 \in 0 .. Len(x) - 1 /\ m - 1 \in 0 .. Len(x) /\ (m - 1) + 1 = m
  BY <1>1
<1>4. /\ N(x, m) = N(x, m - 1) + x[m] * Power(WORD, m - 1)
      /\ N(y, m) = N(y, m - 1) + y[m] * Power(WORD, m - 1)
      /\ N(x, m - 1) \in Nat /\ N(y, m - 1) \in Nat
  <2>1. \A k \in 0 .. Len(x) - 1 :
          /\ N(x, k + 1) = N(x, k) + x[k + 1] * Power(WORD, k)
          /\ N(y, k + 1) = N(y, k) + y[k + 1] * Power(WORD, k)
    BY <1>1, NumberPrefix
  <2>2. \A k \in 0 .. Len(x) : N(x, k) \in Nat /\ N(y, k) \in Nat
    BY <1>1, NumberPrefix
  <2> HIDE DEF N
  <2> QED BY <1>3, <2>1, <2>2
<1>5. N(y, m - 1) < Power(WORD, m - 1)
  <2> DEFINE d == SubSeq(y, 1, m - 1)
  <2>1. d \in Seq(Word) /\ Len(d) = m - 1
    BY <1>3
  <2>2. Num(d) < Power(WORD, m - 1)
    <3> HIDE DEF d
    <3> QED BY <2>1, NumRange
  <2> QED BY <2>2 DEF Num
<1>6. x[m] \in Nat /\ y[m] \in Nat /\ Power(WORD, m - 1) \in Nat
  <2>1. m - 1 \in Nat /\ m \in 1 .. Len(y)
    BY <1>3
  <2> QED BY <1>1, <2>1, ElementOfSeq, Sizes
<1>7. N(x, m) > N(y, m)
  <2> HIDE DEF N
  <2> QED BY <1>4, <1>5, <1>6, LargerDigit, ZenonT(60)
<1>8. NumberOf(x, WORD) \in Nat /\ NumberOf(y, WORD) \in Nat
  BY <1>1, NumberSteps
<1>9. N(x, m) \in Nat /\ N(y, m) \in Nat
  BY <1>1, NumberPrefix
<1> HIDE DEF N
<1> QED BY <1>2, <1>7, <1>8, <1>9 DEF Num

\* The comparison is that of the numbers.
LEMMA CmpRight ==
  ASSUME NEW x \in Seq(Word), NEW y \in Seq(Word), Len(x) = Len(y)
  PROVE  /\ vli_cmp(x, y) = 1 <=> Num(x) > Num(y)
         /\ vli_cmp(x, y) > 0 <=> Num(x) > Num(y)
<1> DEFINE differ == {k \in 1 .. Len(x) : x[k] # y[k]}
           top == CHOOSE k \in differ : \A m \in differ : m <= k
<1>0. Num(x) \in Nat /\ Num(y) \in Nat
  BY NumRange
<1>1. CASE differ = {}
  <2>1. x = y
    <3>1. \A k \in 1 .. Len(x) : x[k] = y[k]
      BY <1>1
    <3> QED BY <3>1, SeqEqual
  <2>2. vli_cmp(x, y) = 0
    BY <1>1 DEF vli_cmp
  <2> QED BY <1>0, <2>1, <2>2
<1>2. CASE differ # {}
  <2>1. \E k \in differ : \A m \in differ : m <= k
    <3> DEFINE T == {Len(x) - k : k \in differ}
    <3>1. T \in SUBSET Nat /\ T # {}
      BY <1>2
    <3>2. PICK t \in T : \A q \in T : t <= q
      <4> HIDE DEF T
      <4> QED BY <3>1, Smallest
    <3>3. PICK k \in differ : t = Len(x) - k
      BY <3>2
    <3>4. ASSUME NEW m \in differ
          PROVE  m <= k
      <4>1. Len(x) - k <= Len(x) - m
        BY <3>2, <3>3
      <4>2. m \in Int /\ k \in Int /\ Len(x) \in Int
        OBVIOUS
      <4> HIDE DEF differ, T
      <4> QED BY <4>1, <4>2
    <3> QED BY <3>4
  <2>2. top \in differ /\ \A m \in differ : m <= top
    <3> HIDE DEF differ
    <3> QED BY <2>1
  <2>3. vli_cmp(x, y) = IF x[top] > y[top] THEN 1 ELSE -1
    BY <1>2 DEF vli_cmp
  <2> HIDE DEF top
  <2>4. top \in 1 .. Len(x) /\ x[top] # y[top] /\ top \in 1 .. Len(y)
    BY <2>2
  <2>5. \A k \in top + 1 .. Len(x) : x[k] = y[k]
    <3> SUFFICES ASSUME NEW k \in top + 1 .. Len(x), x[k] # y[k]
                 PROVE  FALSE
      OBVIOUS
    <3>1. k \in 1 .. Len(x) /\ ~ (k <= top)
      BY <2>4
    <3> QED BY <2>2, <3>1
  <2>6. x[top] \in Nat /\ y[top] \in Nat
    BY <2>4, NumRange, ElementOfSeq
  <2> HIDE DEF differ
  <2>7. CASE x[top] > y[top]
    <3>1. Num(x) > Num(y)
      BY <2>4, <2>5, <2>7, TopDecides
    <3> QED BY <2>3, <2>7, <3>1
  <2>8. CASE y[top] > x[top]
    <3>1. \A k \in top + 1 .. Len(y) : y[k] = x[k]
      BY <2>5
    <3>2. Num(y) > Num(x)
      BY <2>4, <2>8, <3>1, TopDecides
    <3>3. vli_cmp(x, y) = -1
      BY <2>3, <2>6, <2>8
    <3> QED BY <1>0, <3>2, <3>3
  <2> QED BY <2>4, <2>6, <2>7, <2>8
<1> QED BY <1>1, <1>2

-----------------------------------------------------------------------------
(* Bits                                                                    *)

\* Powers of 2 leave every number behind.
LEMMA PowerLarge == \A n \in Nat : Power(2, n) > n
<1> DEFINE T == {n \in Nat : Power(2, n) > n}
<1>1. 0 \in T
  <2>1. Power(2, 0) = 1
    BY PowerSteps
  <2> QED BY <2>1
<1>2. ASSUME NEW n \in Nat, n \in T
      PROVE  n + 1 \in T
  <2>1. Power(2, n + 1) = 2 * Power(2, n) /\ Power(2, n) \in Nat /\ Power(2, n) > n
    BY <1>2, PowerSteps
  <2> QED BY <2>1
<1>3. T = Nat
  <2> HIDE DEF T
  <2>1. T \in SUBSET Nat
    BY DEF T
  <2> QED BY <1>1, <1>2, <2>1, Induction
<1> QED BY <1>3

\* A number has the bits that uECC_vli_numBits() counts, and no more.
LEMMA NumBitsRight ==
  ASSUME NEW k \in Nat
  PROVE  /\ NumBits(k) \in Nat
         /\ k < Power(2, NumBits(k))
         /\ k > 0 => NumBits(k) > 0 /\ Power(2, NumBits(k) - 1) <= k
<1> DEFINE Right(n) == Power(2, n) > k /\ (n = 0 \/ Power(2, n - 1) <= k)
           T == {n \in Nat : Power(2, n) > k}
<1>1. \E n \in 0 .. k : Right(n)
  <2>1. k \in T
    BY PowerLarge
  <2>2. PICK n \in T : \A m \in T : n <= m
    <3>1. T \in SUBSET Nat /\ T # {}
      BY <2>1
    <3> HIDE DEF T
    <3> QED BY <3>1, Smallest
  <2>3. n \in 0 .. k /\ n \in Nat /\ Power(2, n) > k
    BY <2>1, <2>2
  <2>4. n = 0 \/ Power(2, n - 1) <= k
    <3> SUFFICES ASSUME n # 0
                 PROVE  Power(2, n - 1) <= k
      OBVIOUS
    <3>1. n - 1 \in Nat /\ ~ (n <= n - 1)
      BY <2>3
    <3>2. n - 1 \notin T
      BY <2>2, <3>1
    <3>3. Power(2, n - 1) \in Nat
      BY <3>1, PowerSteps
    <3> QED BY <3>1, <3>2, <3>3
  <2> QED BY <2>3, <2>4
<1>2. NumBits(k) \in 0 .. k /\ Right(NumBits(k))
  <2>1. NumBits(k) = CHOOSE n \in 0 .. k : Right(n)
    BY DEF NumBits
  <2> HIDE DEF Right
  <2> QED BY <1>1, <2>1
<1>3. NumBits(k) = 0 => Power(2, NumBits(k)) = 1
  BY PowerSteps
<1> QED BY <1>2, <1>3

\* The bits of a word, which is two halves.
LEMMA WordBits ==
  /\ WORD_BITS \in Nat /\ WORD_BITS > 0 /\ WORD = Power(2, WORD_BITS)
  /\ WORD \div 2 \in Nat /\ WORD = 2 * (WORD \div 2)
<1>1. WORD - 1 \in Nat /\ WORD - 1 > 0
  BY Sizes
<1>2. WORD_BITS \in Nat /\ WORD_BITS > 0
  <2> DEFINE k == WORD - 1
  <2>1. k \in Nat /\ k > 0
    BY <1>1
  <2> HIDE DEF k
  <2>2. NumBits(k) \in Nat /\ NumBits(k) > 0
    BY <2>1, NumBitsRight
  <2> QED BY <2>2 DEF WORD_BITS, k
<1>3. WORD = Power(2, WORD_BITS)
  BY VliAssumption
<1>4. WORD_BITS - 1 \in Nat /\ (WORD_BITS - 1) + 1 = WORD_BITS
  BY <1>2
<1>5. WORD = 2 * Power(2, WORD_BITS - 1) /\ Power(2, WORD_BITS - 1) \in Nat
  BY <1>3, <1>4, PowerSteps
<1> HIDE DEF WORD_BITS
<1>6. \A x \in Nat : (2 * x) \div 2 = x
  OBVIOUS
<1>7. WORD \div 2 = Power(2, WORD_BITS - 1)
  BY <1>5, <1>6
<1> QED BY <1>2, <1>3, <1>5, <1>7

-----------------------------------------------------------------------------
(* uECC_vli_rshift1()                                                      *)

\* One word of it, with a bit of the word above.
LEMMA WordHalf ==
  ASSUME NEW x \in Word, NEW c \in 0 .. 1
  PROVE  LET d == (x \div 2) + c * (WORD \div 2)
         IN  d \in Word /\ d + d + (x % 2) = x + WORD * c
<1> DEFINE half == WORD \div 2
           low == x \div 2
           bit == x % 2
<1>1. half \in Nat /\ WORD = 2 * half /\ x \in 0 .. WORD - 1
  BY WordBits DEF Word
<1>2. low \in Nat /\ bit \in 0 .. 1 /\ x = 2 * low + bit
  BY <1>1
<1> HIDE DEF half, low, bit
<1>3. low + c * half \in 0 .. WORD - 1 /\ (low + c * half) + (low + c * half) + bit = x + WORD * c
  <2>1. CASE c = 0
    BY <1>1, <1>2, <2>1
  <2>2. CASE c = 1
    BY <1>1, <1>2, <2>2
  <2> QED BY <2>1, <2>2
<1> QED BY <1>3 DEF half, low, bit, Word

\* Half of the number.
LEMMA ShiftRight ==
  ASSUME NEW x \in Seq(Word), Len(x) > 0
  PROVE  /\ vli_rshift1(x) \in Seq(Word) /\ Len(vli_rshift1(x)) = Len(x)
         /\ Num(vli_rshift1(x)) = Num(x) \div 2
<1> DEFINE n == Len(x)
           c == [k \in 0 .. n |-> IF k < n THEN x[k + 1] % 2 ELSE 0]
           w == [k \in 1 .. n |-> (x[k] \div 2) + c[k] * (WORD \div 2)]
<1>0. n \in Nat /\ n > 0
  OBVIOUS
<1>1. vli_rshift1(x) = w
  <2>1. ASSUME NEW k \in 1 .. n
        PROVE  (x[k] \div 2) + (IF k < n THEN (x[k + 1] % 2) * (WORD \div 2) ELSE 0)
                 = (x[k] \div 2) + c[k] * (WORD \div 2)
    <3>1. WORD \div 2 \in Nat /\ 0 * (WORD \div 2) = 0
      BY WordBits
    <3> QED BY <3>1
  <2> QED BY <2>1 DEF vli_rshift1
<1>2. \A k \in 1 .. n : x[k] \in Word /\ x[k] \in Nat
  BY NumRange, ElementOfSeq
<1>3. c \in [0 .. n -> 0 .. 1]
  <2>1. ASSUME NEW k \in 0 .. n
        PROVE  (IF k < n THEN x[k + 1] % 2 ELSE 0) \in 0 .. 1
    <3>1. k < n => k + 1 \in 1 .. n
      BY <1>0
    <3> QED BY <1>2, <3>1
  <2> QED BY <2>1
<1>4. ASSUME NEW k \in 1 .. n
      PROVE  w[k] \in Word /\ w[k] + w[k] + c[k - 1] = x[k] + WORD * c[k]
  <2>1. c[k] \in 0 .. 1 /\ c[k - 1] = x[k] % 2 /\ x[k] \in Word
    <3>1. k \in 0 .. n /\ k - 1 \in 0 .. n /\ k - 1 < n /\ (k - 1) + 1 = k
      BY <1>0
    <3> QED BY <1>2, <1>3, <3>1
  <2>2. w[k] = (x[k] \div 2) + c[k] * (WORD \div 2)
    OBVIOUS
  <2> HIDE DEF w, c
  <2> QED BY <2>1, <2>2, WordHalf
<1>5. c[n] = 0 /\ c[0] = x[1] % 2
  BY <1>0
<1> HIDE DEF c
<1>6. w \in Seq(Word) /\ Len(w) = n
  BY <1>0, <1>4
<1> HIDE DEF w
<1>7. SumSoFar(NumberOf(w, WORD) + c[0], NumberOf(w, WORD), NumberOf(x, WORD),
               c[Len(x)], Power(WORD, Len(x)))
  <2>1. w \in Seq(Nat) /\ x \in Seq(Nat) /\ WORD \in Nat
    BY <1>6, NumRange, Sizes
  <2>2. c \in [0 .. Len(x) -> Nat]
    <3>1. 0 .. 1 \subseteq Nat
      OBVIOUS
    <3> QED BY <1>3, <3>1
  <2>3. Carries(WORD, w, w, x, c)
    BY <1>4 DEF Carries
  <2> QED BY <1>6, <2>1, <2>2, <2>3, NumbersSum
<1>8. Num(x) = 2 * Num(w) + c[0]
  <2>1. Power(WORD, n) \in Nat /\ Num(x) \in Nat /\ Num(w) \in Nat /\ c[0] \in 0 .. 1
    <3>1. c[0] \in 0 .. 1
      BY <1>0, <1>3
    <3> HIDE DEF n
    <3> QED BY <1>0, <1>6, <3>1, Sizes, NumRange
  <2>2. Num(x) + c[n] * Power(WORD, n) = (Num(w) + c[0]) + Num(w)
    BY <1>7 DEF SumSoFar, Num
  <2> QED BY <1>5, <2>1, <2>2
<1>9. Num(x) \div 2 = Num(w)
  <2>1. Num(x) \in Nat /\ Num(w) \in Nat /\ c[0] \in 0 .. 1
    BY <1>0, <1>3, <1>6, NumRange
  <2> QED BY <1>8, <2>1
<1> QED BY <1>1, <1>6, <1>9

-----------------------------------------------------------------------------
(* uECC_vli_mult()                                                         *)

\* f is defined by recursion from any number m on.
UnfoldsFrom(f, m, n, A, start, step) ==
  f \in [m .. n -> A] /\ f[m] = start /\ \A k \in m + 1 .. n : f[k] = step[k][f[k - 1]]

\* There is such a function.
LEMMA RecursionFrom ==
  ASSUME NEW m \in Int, NEW n \in Int, m <= n, NEW A, NEW start \in A,
         NEW step \in [m + 1 .. n -> [A -> A]]
  PROVE  \E f : UnfoldsFrom(f, m, n, A, start, step)
<1> DEFINE l == n - m
           later == [k \in 1 .. l |-> step[m + k]]
<1>1. l \in Nat /\ \A k \in 1 .. l : m + k \in m + 1 .. n
  OBVIOUS
<1>2. later \in [1 .. l -> [A -> A]]
  BY <1>1
<1>3. \A k \in 1 .. l : later[k] = step[m + k]
  OBVIOUS
<1> HIDE DEF later
<1>4. PICK g : Unfolds(g, l, A, start, later)
  <2> HIDE DEF l
  <2> QED BY <1>1, <1>2, Recursion
<1>5. g \in [0 .. l -> A] /\ g[0] = start /\ \A k \in 1 .. l : g[k] = step[m + k][g[k - 1]]
  BY <1>3, <1>4 DEF Unfolds
<1> DEFINE f == [k \in m .. n |-> g[k - m]]
<1>6. f \in [m .. n -> A]
  <2>1. \A k \in m .. n : k - m \in 0 .. l
    OBVIOUS
  <2> HIDE DEF l
  <2> QED BY <1>5, <2>1
<1>7. f[m] = start
  <2>1. m \in m .. n /\ m - m = 0
    OBVIOUS
  <2> QED BY <1>5, <2>1
<1>8. ASSUME NEW k \in m + 1 .. n
      PROVE  f[k] = step[k][f[k - 1]]
  <2>1. /\ k - m \in 1 .. l /\ k \in m .. n /\ k - 1 \in m .. n
        /\ m + (k - m) = k /\ (k - 1) - m = (k - m) - 1
    OBVIOUS
  <2>2. f[k] = g[k - m] /\ f[k - 1] = g[(k - m) - 1]
    BY <2>1
  <2> HIDE DEF l, f
  <2>3. g[k - m] = step[m + (k - m)][g[(k - m) - 1]]
    BY <1>5, <2>1
  <2> QED BY <2>1, <2>2, <2>3
<1> HIDE DEF f
<1>9. UnfoldsFrom(f, m, n, A, start, step)
  BY <1>6, <1>7, <1>8 DEF UnfoldsFrom
<1> QED BY <1>9

\* The three words of a column sum, and the sum.
Column3 == Word \X Word \X Word

ColumnSum(c) == c[1] + c[2] * WORD + c[3] * (WORD * WORD)

\* muladd() adds the product, as long as the sum fits three words.
LEMMA MuladdRight ==
  ASSUME NEW x \in Word, NEW y \in Word, NEW c \in Column3
  PROVE  /\ muladd(x, y, c) \in Column3
         /\ ColumnSum(c) \in Nat /\ x * y \in 0 .. (WORD - 1) * (WORD - 1)
         /\ ColumnSum(c) + x * y < WORD * (WORD * WORD)
              => ColumnSum(muladd(x, y, c)) = ColumnSum(c) + x * y
<1> DEFINE p == x * y
           square == WORD * WORD
           t == c[2] * WORD + c[1]
           low == (t + p) % square
           bit == Bit(low < p)
           d == <<low % WORD, low \div WORD, (c[3] + bit) % WORD>>
<1>1. /\ WORD \in Nat /\ WORD >= 4 /\ x \in 0 .. WORD - 1 /\ y \in 0 .. WORD - 1
      /\ c[1] \in 0 .. WORD - 1 /\ c[2] \in 0 .. WORD - 1 /\ c[3] \in 0 .. WORD - 1
  BY Sizes DEF Word, Column3
<1>2. muladd(x, y, c) = d
  BY DEF muladd
<1>3. square \in Nat /\ square > 0 /\ (WORD - 1) * (WORD - 1) = square - 2 * WORD + 1
  BY <1>1
<1>4. p \in 0 .. (WORD - 1) * (WORD - 1)
  <2>1. \A k \in Nat : \A m, l \in 0 .. k : m * l \in 0 .. k * k
    <3> SUFFICES ASSUME NEW k \in Nat, NEW m \in 0 .. k, NEW l \in 0 .. k
                 PROVE  m * l \in 0 .. k * k
      OBVIOUS
    <3>1. m * l \in Nat /\ m * (k - l) >= 0 /\ (k - m) * k >= 0
      OBVIOUS
    <3>2. m * (k - l) = m * k - m * l /\ (k - m) * k = k * k - m * k
      OBVIOUS
    <3> QED BY <3>1, <3>2
  <2> QED BY <1>1, <2>1
<1>5. p \in 0 .. square - 1
  BY <1>1, <1>3, <1>4
<1>6. t \in 0 .. square - 1
  <2>1. \A k \in Nat : k >= 4 => \A m, l \in 0 .. k - 1 : m * k + l \in 0 .. k * k - 1
    <3> SUFFICES ASSUME NEW k \in Nat, k >= 4, NEW m \in 0 .. k - 1, NEW l \in 0 .. k - 1
                 PROVE  m * k + l \in 0 .. k * k - 1
      OBVIOUS
    <3>1. m * k \in Nat /\ (k - 1 - m) * k >= 0 /\ (k - 1 - m) * k = k * k - k - m * k
      OBVIOUS
    <3> QED BY <3>1
  <2> QED BY <1>1, <2>1
<1>7. ColumnSum(c) = t + c[3] * square
  <2>1. c[2] * WORD \in Int /\ c[3] * (WORD * WORD) \in Int
    BY <1>1
  <2> QED BY <1>1, <2>1 DEF ColumnSum
<1> HIDE DEF p, t, square
<1>8. /\ low = IF t + p < square THEN t + p ELSE t + p - square
      /\ bit = IF t + p < square THEN 0 ELSE 1
      /\ low \in 0 .. square - 1
  <2>1. CASE t + p < square
    <3>1. low = t + p
      BY <1>3, <1>5, <1>6, <2>1
    <3> QED BY <1>3, <1>5, <1>6, <2>1, <3>1 DEF Bit
  <2>2. CASE t + p >= square
    <3>1. /\ t + p = 1 * square + (t + p - square) /\ t + p - square \in 0 .. square - 1
          /\ t + p \in Int /\ 1 \in Int
      BY <1>3, <1>5, <1>6, <2>2
    <3>2. low = t + p - square
      BY <1>3, <3>1, DivideUnique
    <3> QED BY <1>3, <1>5, <1>6, <2>2, <3>1, <3>2 DEF Bit
  <2> QED BY <1>3, <1>5, <1>6, <2>1, <2>2
<1> HIDE DEF low, bit
<1>9. low % WORD \in 0 .. WORD - 1 /\ low \div WORD \in 0 .. WORD - 1
      /\ low = (low \div WORD) * WORD + (low % WORD)
  <2>1. low \in Nat /\ low < WORD * WORD
    BY <1>3, <1>8 DEF square
  <2>2. low % WORD \in 0 .. WORD - 1 /\ low \div WORD \in Nat
        /\ low = (low \div WORD) * WORD + (low % WORD)
    BY <1>1, <2>1
  <2>3. \A q, m \in Nat : m < WORD /\ q * WORD + m < WORD * WORD => q < WORD
    <3> SUFFICES ASSUME NEW q \in Nat, NEW m \in Nat, m < WORD,
                        q * WORD + m < WORD * WORD, q >= WORD
                 PROVE  FALSE
      BY <1>1
    <3>1. (q - WORD) * WORD >= 0 /\ (q - WORD) * WORD = q * WORD - WORD * WORD
      BY <1>1
    <3>2. q * WORD \in Int /\ WORD * WORD \in Int
      BY <1>1
    <3> QED BY <3>1, <3>2
  <2>4. low % WORD \in Nat
    BY <1>1, <2>2
  <2>5. low \div WORD < WORD
    BY <1>1, <2>1, <2>2, <2>3, <2>4
  <2> QED BY <1>1, <2>2, <2>5
<1>10. bit \in 0 .. 1 /\ (c[3] + bit) % WORD \in 0 .. WORD - 1
  BY <1>1, <1>8
<1>11. d \in Column3
  BY <1>9, <1>10 DEF Column3, Word
<1>12. ColumnSum(c) \in Nat
  <2>1. c[3] * square \in Nat
    BY <1>1, <1>3
  <2> QED BY <1>6, <1>7, <2>1
<1>13. ASSUME ColumnSum(c) + p < WORD * square
       PROVE  ColumnSum(d) = ColumnSum(c) + p
  <2>1. c[3] + bit < WORD
    <3> SUFFICES ASSUME c[3] + bit >= WORD
                 PROVE  FALSE
      BY <1>1, <1>10
    <3>1. c[3] = WORD - 1 /\ bit = 1
      BY <1>1, <1>10
    <3>2. t + p >= square
      BY <1>3, <1>5, <1>6, <1>8, <3>1
    <3>3. (WORD - 1) * square + square = WORD * square
      BY <1>1, <1>3
    <3>4. (WORD - 1) * square \in Int /\ WORD * square \in Int
      BY <1>1, <1>3
    <3> QED BY <1>3, <1>5, <1>6, <1>7, <1>13, <3>1, <3>2, <3>3, <3>4
  <2>2. (c[3] + bit) % WORD = c[3] + bit
    BY <1>1, <1>10, <2>1
  <2>3. ColumnSum(d) = low + (c[3] + bit) * square
    <3>1. d[1] = low % WORD /\ d[2] = low \div WORD /\ d[3] = c[3] + bit
      BY <2>2
    <3>2. ColumnSum(d) = (low % WORD) + (low \div WORD) * WORD + (c[3] + bit) * square
      BY <3>1 DEF ColumnSum, square
    <3>3. (low \div WORD) * WORD \in Int /\ low % WORD \in Int /\ low \in Int
      BY <1>1, <1>8, <1>9
    <3>4. (low % WORD) + (low \div WORD) * WORD = low
      BY <1>9, <3>3
    <3> QED BY <3>2, <3>4
  <2>4. (c[3] + bit) * square = c[3] * square + bit * square
    BY <1>1, <1>3, <1>10
  <2>5. low + bit * square = t + p
    <3>1. CASE t + p < square
      BY <1>3, <1>5, <1>6, <1>8, <3>1
    <3>2. CASE t + p >= square
      BY <1>3, <1>5, <1>6, <1>8, <3>2
    <3> QED BY <1>3, <1>5, <1>6, <3>1, <3>2
  <2>6. c[3] * square \in Int /\ bit * square \in Int
    BY <1>1, <1>3, <1>10
  <2> QED BY <1>3, <1>5, <1>6, <1>7, <1>8, <2>3, <2>4, <2>5, <2>6
<1> QED BY <1>2, <1>4, <1>11, <1>12, <1>13 DEF p, square

\* The words that vli_mult() multiplies in column k.
FirstOf(k) == IF k <= WORDS THEN 1 ELSE k + 1 - WORDS

LastOf(k) == IF k <= WORDS THEN k ELSE WORDS

\* They are words of both factors, and the others have no partner.
LEMMA ColumnRange ==
  ASSUME NEW k \in 1 .. 2 * WORDS - 1
  PROVE  /\ FirstOf(k) \in 1 .. WORDS /\ LastOf(k) \in FirstOf(k) .. WORDS
         /\ \A i \in FirstOf(k) .. LastOf(k) : i \in 1 .. WORDS /\ k + 1 - i \in 1 .. WORDS
         /\ \A i \in 1 .. FirstOf(k) - 1 : k - i >= WORDS
         /\ \A i \in LastOf(k) + 1 .. WORDS : k + 1 - i <= 0
BY Sizes DEF FirstOf, LastOf

\* One column, and the function that it chooses.
MultColumn(x, y, k, c) ==
  LET first == IF k <= WORDS THEN 1 ELSE k + 1 - WORDS
      last == IF k <= WORDS THEN k ELSE WORDS
      upTo[i \in first - 1 .. last] ==
        IF i < first THEN c
        ELSE muladd(x[i], y[k + 1 - i], upTo[i - 1])
  IN  upTo[last]

ColumnUpTo(x, y, k, c, f) ==
  f = [i \in FirstOf(k) - 1 .. LastOf(k) |->
         IF i < FirstOf(k) THEN c ELSE muladd(x[i], y[k + 1 - i], f[i - 1])]

\* The sums of the column, one product after the other.
ColumnSums(x, y, k, c, f) ==
  /\ f \in [FirstOf(k) - 1 .. LastOf(k) -> Column3] /\ f[FirstOf(k) - 1] = c
  /\ \A i \in FirstOf(k) .. LastOf(k) : f[i] = muladd(x[i], y[k + 1 - i], f[i - 1])
  /\ MultColumn(x, y, k, c) = f[LastOf(k)]

\* There are such sums, each of three words.
LEMMA ColumnUnfolds ==
  ASSUME NEW x \in Seq(Word), NEW y \in Seq(Word), Len(x) = WORDS, Len(y) = WORDS,
         NEW k \in 1 .. 2 * WORDS - 1, NEW c \in Column3
  PROVE  \E f : ColumnSums(x, y, k, c, f)
<1> DEFINE m == FirstOf(k) - 1
           n == LastOf(k)
           f == CHOOSE f : ColumnUpTo(x, y, k, c, f)
           step == [i \in m + 1 .. n |-> [d \in Column3 |-> muladd(x[i], y[k + 1 - i], d)]]
<1>1. /\ m \in Nat /\ n \in Nat /\ m <= n /\ m + 1 = FirstOf(k)
      /\ \A i \in m + 1 .. n : i \in 1 .. WORDS /\ k + 1 - i \in 1 .. WORDS
  <2>1. /\ FirstOf(k) \in 1 .. WORDS /\ LastOf(k) \in FirstOf(k) .. WORDS
        /\ \A i \in FirstOf(k) .. LastOf(k) : i \in 1 .. WORDS /\ k + 1 - i \in 1 .. WORDS
    BY ColumnRange
  <2>2. WORDS \in Nat
    BY Sizes
  <2>3. m \in Nat /\ n \in Nat /\ m <= n /\ m + 1 = FirstOf(k)
    BY <2>1, <2>2
  <2> QED BY <2>1, <2>3
<1>2. \A i \in m + 1 .. n : x[i] \in Word /\ y[k + 1 - i] \in Word
  <2> HIDE DEF m, n
  <2> QED BY <1>1, ElementOfSeq
<1>3. \A i \in m + 1 .. n : \A d \in Column3 : muladd(x[i], y[k + 1 - i], d) \in Column3
  <2> HIDE DEF m, n
  <2> QED BY <1>2, MuladdRight
<1>4. step \in [m + 1 .. n -> [Column3 -> Column3]]
  <2> HIDE DEF m, n
  <2> QED BY <1>3
<1>5. \A i \in m + 1 .. n : \A d \in Column3 : step[i][d] = muladd(x[i], y[k + 1 - i], d)
  <2> HIDE DEF m, n
  <2> QED OBVIOUS
<1> HIDE DEF step
<1>06. PICK g : UnfoldsFrom(g, m, n, Column3, c, step)
  <2>1. m \in Int /\ n \in Int
    BY <1>1
  <2> HIDE DEF m, n
  <2> QED BY <1>1, <1>4, <2>1, RecursionFrom
<1>6. /\ g \in [m .. n -> Column3] /\ g[m] = c
      /\ \A i \in m + 1 .. n : g[i] = step[i][g[i - 1]]
  <2> HIDE DEF m, n
  <2> QED BY <1>06 DEF UnfoldsFrom
<1>7. \A i \in m + 1 .. n : g[i] = muladd(x[i], y[k + 1 - i], g[i - 1])
  <2> HIDE DEF m, n
  <2>1. \A i \in m + 1 .. n : i - 1 \in m .. n
    BY <1>1
  <2> QED BY <1>5, <1>6, <2>1
<1>8. ColumnUpTo(x, y, k, c, g)
  <2>1. \A i \in m .. n : g[i] = IF i < m + 1 THEN c ELSE muladd(x[i], y[k + 1 - i], g[i - 1])
    <3> HIDE DEF m, n
    <3>1. \A i \in m .. n : i = m \/ (i \in m + 1 .. n /\ ~ (i < m + 1))
      BY <1>1
    <3>2. m < m + 1
      BY <1>1
    <3> QED BY <1>6, <1>7, <3>1, <3>2
  <2>2. g = [i \in m .. n |-> g[i]]
    BY <1>6
  <2>3. \A i \in FirstOf(k) - 1 .. LastOf(k) :
          g[i] = IF i < FirstOf(k) THEN c ELSE muladd(x[i], y[k + 1 - i], g[i - 1])
    BY <1>1, <2>1
  <2> QED BY <2>2, <2>3 DEF ColumnUpTo
<1>9. ColumnUpTo(x, y, k, c, f)
  BY <1>8
<1>10. MultColumn(x, y, k, c) = f[n]
  BY DEF MultColumn, ColumnUpTo, FirstOf, LastOf
<1> HIDE DEF f
<1>11. \A i \in m .. n : f[i] = IF i < m + 1 THEN c ELSE muladd(x[i], y[k + 1 - i], f[i - 1])
  <2>1. \A i \in FirstOf(k) - 1 .. LastOf(k) :
          f[i] = IF i < FirstOf(k) THEN c ELSE muladd(x[i], y[k + 1 - i], f[i - 1])
    BY <1>9 DEF ColumnUpTo
  <2> QED BY <1>1, <2>1
<1> HIDE DEF m, n
<1>12. \A i \in m .. n : f[i] = g[i]
  <2> DEFINE T == {l \in Nat : m + l <= n => f[m + l] = g[m + l]}
  <2>1. 0 \in T
    <3>1. m + 0 = m /\ m \in m .. n /\ m < m + 1
      BY <1>1
    <3> QED BY <1>6, <1>11, <3>1
  <2>2. ASSUME NEW l \in Nat, l \in T
        PROVE  l + 1 \in T
    <3> SUFFICES ASSUME m + (l + 1) <= n
                 PROVE  f[m + (l + 1)] = g[m + (l + 1)]
      OBVIOUS
    <3> DEFINE i == m + (l + 1)
    <3>1. i \in m + 1 .. n /\ i \in m .. n /\ ~ (i < m + 1) /\ i - 1 = m + l /\ m + l <= n
      BY <1>1
    <3> HIDE DEF i
    <3>2. f[i - 1] = g[i - 1]
      BY <2>2, <3>1
    <3>3. f[i] = muladd(x[i], y[k + 1 - i], f[i - 1])
      BY <1>11, <3>1
    <3>4. g[i] = muladd(x[i], y[k + 1 - i], g[i - 1])
      BY <1>7, <3>1
    <3>5. f[i] = g[i]
      BY <3>2, <3>3, <3>4
    <3> QED BY <3>5 DEF i
  <2>3. T = Nat
    <3> HIDE DEF T
    <3>1. T \in SUBSET Nat
      BY DEF T
    <3> QED BY <2>1, <2>2, <3>1, Induction
  <2>4. \A i \in m .. n : i - m \in Nat /\ m + (i - m) = i /\ i <= n
    BY <1>1
  <2>5. \A i \in m .. n : i - m \in T
    <3> HIDE DEF T
    <3> QED BY <2>3, <2>4
  <2> QED BY <2>4, <2>5
<1>13. MultColumn(x, y, k, c) = g[n]
  <2>1. n \in m .. n
    BY <1>1
  <2> QED BY <1>10, <1>12, <2>1
<1>14. m = FirstOf(k) - 1 /\ n = LastOf(k) /\ m + 1 = FirstOf(k)
  BY <1>1 DEF m, n
<1>15. /\ g \in [FirstOf(k) - 1 .. LastOf(k) -> Column3] /\ g[FirstOf(k) - 1] = c
       /\ \A i \in FirstOf(k) .. LastOf(k) : g[i] = muladd(x[i], y[k + 1 - i], g[i - 1])
       /\ MultColumn(x, y, k, c) = g[LastOf(k)]
  BY <1>6, <1>7, <1>13, <1>14
<1> QED BY <1>15 DEF ColumnSums

-----------------------------------------------------------------------------
(* What the columns add up to.                                             *)

Clamp(j) == IF j < 0 THEN 0 ELSE IF j > WORDS THEN WORDS ELSE j

\* The number of the lowest j words.
LowNum(y, j) == NumberOf(SubSeq(y, 1, j), WORD)

\* The words of x, each times what the first k columns have of y for it.
Staircase(x, y, k) == [i \in 1 .. WORDS |-> x[i] * LowNum(y, Clamp(k + 1 - i))]

\* The number of the first words of a staircase.
Stairs(x, y, k, i) == NumberOf(SubSeq(Staircase(x, y, k), 1, i), WORD)

\* It is made of natural numbers.
LEMMA StaircaseType ==
  ASSUME NEW x \in Seq(Word), NEW y \in Seq(Word), Len(x) = WORDS, Len(y) = WORDS,
         NEW k \in Int
  PROVE  /\ Staircase(x, y, k) \in Seq(Nat) /\ Len(Staircase(x, y, k)) = WORDS
         /\ \A i \in 1 .. WORDS :
              Staircase(x, y, k)[i] = x[i] * LowNum(y, Clamp(k + 1 - i))
<1>1. WORDS \in Nat /\ x \in Seq(Nat) /\ y \in Seq(Nat) /\ WORD \in Nat
  BY Sizes, NumRange
<1>2. ASSUME NEW i \in 1 .. WORDS
      PROVE  x[i] * LowNum(y, Clamp(k + 1 - i)) \in Nat
  <2>1. Clamp(k + 1 - i) \in 0 .. WORDS
    BY <1>1 DEF Clamp
  <2>2. LowNum(y, Clamp(k + 1 - i)) \in Nat
    BY <1>1, <2>1, NumberPrefix DEF LowNum
  <2>3. x[i] \in Nat
    BY <1>1, ElementOfSeq
  <2>4. \A l, m \in Nat : l * m \in Nat
    OBVIOUS
  <2> QED BY <2>2, <2>3, <2>4
<1> QED BY <1>1, <1>2 DEF Staircase

\* Staircases that have the same words up to i have the same stairs there.
LEMMA SameStairs ==
  ASSUME NEW x \in Seq(Nat), NEW y \in Seq(Nat), NEW i \in 0 .. Len(x), Len(x) = Len(y),
         \A k \in 1 .. i : x[k] = y[k]
  PROVE  SubSeq(x, 1, i) = SubSeq(y, 1, i)
<1> DEFINE w == SubSeq(x, 1, i)
           d == SubSeq(y, 1, i)
<1>1. /\ w \in Seq(Nat) /\ Len(w) = i /\ d \in Seq(Nat) /\ Len(d) = i
      /\ \A k \in 1 .. i : w[k] = x[k] /\ d[k] = y[k]
  OBVIOUS
<1> HIDE DEF w, d
<1>2. w = d
  BY <1>1, SeqEqual
<1> QED BY <1>2 DEF w, d

\* A column is what its staircase has more than the one before.
LEMMA ColumnStairs ==
  ASSUME NEW x \in Seq(Word), NEW y \in Seq(Word), Len(x) = WORDS, Len(y) = WORDS,
         NEW k \in 1 .. 2 * WORDS - 1
  PROVE  /\ Stairs(x, y, k, FirstOf(k) - 1) = Stairs(x, y, k - 1, FirstOf(k) - 1)
         /\ \A i \in FirstOf(k) .. LastOf(k) :
              Stairs(x, y, k, i) - Stairs(x, y, k - 1, i)
                = Stairs(x, y, k, i - 1) - Stairs(x, y, k - 1, i - 1)
                    + (x[i] * y[k + 1 - i]) * Power(WORD, k - 1)
         /\ Stairs(x, y, k, WORDS) - Stairs(x, y, k - 1, WORDS)
              = Stairs(x, y, k, LastOf(k)) - Stairs(x, y, k - 1, LastOf(k))
<1> DEFINE now == Staircase(x, y, k)
           before == Staircase(x, y, k - 1)
<1>0. /\ WORDS \in Nat /\ WORDS >= 3 /\ WORD \in Nat /\ k \in Int /\ k - 1 \in Int
      /\ x \in Seq(Nat) /\ y \in Seq(Nat)
  BY Sizes, NumRange
<1>1. /\ now \in Seq(Nat) /\ Len(now) = WORDS /\ before \in Seq(Nat) /\ Len(before) = WORDS
      /\ \A i \in 1 .. WORDS :
           /\ now[i] = x[i] * LowNum(y, Clamp(k + 1 - i))
           /\ before[i] = x[i] * LowNum(y, Clamp(k - i))
  <2>1. \A i \in 1 .. WORDS : (k - 1) + 1 - i = k - i
    BY <1>0
  <2>2. /\ now \in Seq(Nat) /\ Len(now) = WORDS
        /\ \A i \in 1 .. WORDS : now[i] = x[i] * LowNum(y, Clamp(k + 1 - i))
    BY <1>0, StaircaseType
  <2>3. /\ before \in Seq(Nat) /\ Len(before) = WORDS
        /\ \A i \in 1 .. WORDS : before[i] = x[i] * LowNum(y, Clamp((k - 1) + 1 - i))
    <3>1. \A d \in Int :
            /\ Staircase(x, y, d) \in Seq(Nat) /\ Len(Staircase(x, y, d)) = WORDS
            /\ \A i \in 1 .. WORDS :
                 Staircase(x, y, d)[i] = x[i] * LowNum(y, Clamp(d + 1 - i))
      BY StaircaseType
    <3> QED BY <1>0, <3>1
  <2> HIDE DEF now, before
  <2> QED BY <2>1, <2>2, <2>3
<1> HIDE DEF now, before
<1>2. /\ FirstOf(k) \in 1 .. WORDS /\ LastOf(k) \in FirstOf(k) .. WORDS
      /\ \A i \in FirstOf(k) .. LastOf(k) : i \in 1 .. WORDS /\ k + 1 - i \in 1 .. WORDS
      /\ \A i \in 1 .. FirstOf(k) - 1 : k - i >= WORDS
      /\ \A i \in LastOf(k) + 1 .. WORDS : k + 1 - i <= 0
  BY ColumnRange
<1>02. FirstOf(k) - 1 \in 0 .. WORDS /\ LastOf(k) \in 0 .. WORDS
  <2>1. FirstOf(k) \in 1 .. WORDS /\ LastOf(k) \in FirstOf(k) .. WORDS /\ WORDS \in Nat
    BY <1>0, <1>2
  <2> QED BY <2>1
<1>3. Stairs(x, y, k, FirstOf(k) - 1) = Stairs(x, y, k - 1, FirstOf(k) - 1)
  <2>1. \A i \in 1 .. FirstOf(k) - 1 : now[i] = before[i]
    <3> SUFFICES ASSUME NEW i \in 1 .. FirstOf(k) - 1
                 PROVE  now[i] = before[i]
      OBVIOUS
    <3>1. i \in 1 .. WORDS /\ k - i >= WORDS
      BY <1>0, <1>2
    <3>2. Clamp(k + 1 - i) = WORDS /\ Clamp(k - i) = WORDS
      BY <1>0, <3>1 DEF Clamp
    <3> QED BY <1>1, <3>1, <3>2
  <2>2. FirstOf(k) - 1 \in 0 .. Len(now)
    BY <1>02, <1>1
  <2>3. SubSeq(now, 1, FirstOf(k) - 1) = SubSeq(before, 1, FirstOf(k) - 1)
    BY <1>1, <2>1, <2>2, SameStairs
  <2> QED BY <2>3 DEF Stairs, now, before
<1>4. ASSUME NEW i \in FirstOf(k) .. LastOf(k)
      PROVE  Stairs(x, y, k, i) - Stairs(x, y, k - 1, i)
               = Stairs(x, y, k, i - 1) - Stairs(x, y, k - 1, i - 1)
                   + (x[i] * y[k + 1 - i]) * Power(WORD, k - 1)
  <2>1. PICK j \in 0 .. WORDS - 1, l \in 0 .. WORDS - 1 : i = j + 1 /\ k = (j + l) + 1
    <3>1. i \in 1 .. WORDS /\ k + 1 - i \in 1 .. WORDS
      BY <1>2
    <3>2. i - 1 \in 0 .. WORDS - 1 /\ k - i \in 0 .. WORDS - 1
          /\ i = (i - 1) + 1 /\ k = ((i - 1) + (k - i)) + 1
      BY <1>0, <3>1
    <3> QED BY <3>2
  <2>2. /\ j \in Nat /\ l \in Nat /\ i - 1 = j /\ k - i = l /\ k + 1 - i = l + 1
        /\ k - 1 = j + l /\ i \in 1 .. WORDS /\ l + 1 \in 1 .. WORDS
        /\ j \in 0 .. WORDS /\ l \in 0 .. WORDS
    BY <1>0, <2>1
  <2>3. /\ Stairs(x, y, k, j + 1) = Stairs(x, y, k, j) + now[j + 1] * Power(WORD, j)
        /\ Stairs(x, y, k, j) \in Nat
    BY <1>0, <1>1, <2>1, <2>2, NumberPrefix DEF Stairs, now
  <2>4. /\ Stairs(x, y, k - 1, j + 1)
             = Stairs(x, y, k - 1, j) + before[j + 1] * Power(WORD, j)
        /\ Stairs(x, y, k - 1, j) \in Nat
    BY <1>0, <1>1, <2>1, <2>2, NumberPrefix DEF Stairs, before
  <2>5. Clamp(k + 1 - i) = l + 1 /\ Clamp(k - i) = l
    BY <1>0, <2>2 DEF Clamp
  <2>6. /\ LowNum(y, l + 1) = LowNum(y, l) + y[l + 1] * Power(WORD, l)
        /\ LowNum(y, l) \in Nat
    BY <1>0, <2>1, <2>2, NumberPrefix DEF LowNum
  <2>7. Power(WORD, k - 1) = Power(WORD, j) * Power(WORD, l)
    BY <1>0, <2>2, PowerOfSum
  <2>8. Power(WORD, j) \in Nat /\ Power(WORD, l) \in Nat
    BY <2>2, Sizes
  <2>9. x[i] \in Nat /\ y[l + 1] \in Nat
    BY <1>0, <2>2, ElementOfSeq
  <2>10. /\ now[j + 1] = x[i] * (LowNum(y, l) + y[l + 1] * Power(WORD, l))
         /\ before[j + 1] = x[i] * LowNum(y, l)
    BY <1>1, <2>1, <2>2, <2>5, <2>6
  <2> DEFINE d == x[i]
             t == y[l + 1]
             q == LowNum(y, l)
             pj == Power(WORD, j)
             pl == Power(WORD, l)
  <2>11. /\ d \in Nat /\ t \in Nat /\ q \in Nat /\ pj \in Nat /\ pl \in Nat
         /\ Stairs(x, y, k, i) = Stairs(x, y, k, j) + (d * (q + t * pl)) * pj
         /\ Stairs(x, y, k - 1, i) = Stairs(x, y, k - 1, j) + (d * q) * pj
         /\ (x[i] * y[k + 1 - i]) * Power(WORD, k - 1) = (d * t) * (pj * pl)
    BY <2>1, <2>2, <2>3, <2>4, <2>6, <2>7, <2>8, <2>9, <2>10
  <2> HIDE DEF d, t, q, pj, pl
  <2>12. /\ (d * (q + t * pl)) * pj = (d * q) * pj + (d * t) * (pj * pl)
         /\ (d * q) * pj \in Int /\ (d * t) * (pj * pl) \in Int
    BY <2>11
  <2>13. Stairs(x, y, k, i) - Stairs(x, y, k - 1, i)
           = Stairs(x, y, k, j) - Stairs(x, y, k - 1, j) + (d * t) * (pj * pl)
    BY <2>3, <2>4, <2>11, <2>12
  <2> QED BY <2>2, <2>11, <2>13
<1>5. Stairs(x, y, k, WORDS) - Stairs(x, y, k - 1, WORDS)
        = Stairs(x, y, k, LastOf(k)) - Stairs(x, y, k - 1, LastOf(k))
  <2>1. \A i \in LastOf(k) + 1 .. WORDS : now[i] = before[i]
    <3> SUFFICES ASSUME NEW i \in LastOf(k) + 1 .. WORDS
                 PROVE  now[i] = before[i]
      OBVIOUS
    <3>1. i \in 1 .. WORDS /\ k + 1 - i <= 0
      BY <1>0, <1>2
    <3>2. Clamp(k + 1 - i) = 0 /\ Clamp(k - i) = 0
      BY <1>0, <3>1 DEF Clamp
    <3> QED BY <1>1, <3>1, <3>2
  <2>2. LastOf(k) \in 0 .. Len(now)
    BY <1>02, <1>1
  <2>3. NumberOf(now, WORD) - NumberOf(before, WORD)
          = NumberOf(SubSeq(now, 1, LastOf(k)), WORD)
              - NumberOf(SubSeq(before, 1, LastOf(k)), WORD)
    <3>1. /\ now \in Seq(Nat) /\ before \in Seq(Nat) /\ Len(now) = Len(before)
          /\ \A i \in LastOf(k) + 1 .. Len(now) : now[i] = before[i]
      BY <1>1, <2>1
    <3> QED BY <1>0, <2>2, <3>1, SameDigits
  <2>4. SubSeq(now, 1, WORDS) = now /\ SubSeq(before, 1, WORDS) = before
    BY <1>0, <1>1
  <2> QED BY <2>3, <2>4, Zenon DEF Stairs, now, before
<1> QED BY <1>3, <1>4, <1>5

\* Induction on a range of numbers.
LEMMA RangeInduction ==
  ASSUME NEW m \in Int, NEW n \in Int, NEW T, m \in T,
         \A i \in m .. n - 1 : i \in T => i + 1 \in T
  PROVE  \A i \in m .. n : i \in T
<1> DEFINE G == {l \in Nat : m + l <= n => m + l \in T}
<1>1. 0 \in G
  <2>1. m + 0 = m
    OBVIOUS
  <2> QED BY <2>1
<1>2. ASSUME NEW l \in Nat, l \in G
      PROVE  l + 1 \in G
  <2> SUFFICES ASSUME m + (l + 1) <= n
               PROVE  m + (l + 1) \in T
    OBVIOUS
  <2>1. m + l \in m .. n - 1 /\ (m + l) + 1 = m + (l + 1) /\ m + l <= n
    OBVIOUS
  <2> QED BY <1>2, <2>1
<1>3. G = Nat
  <2> HIDE DEF G
  <2>1. G \in SUBSET Nat
    BY DEF G
  <2> QED BY <1>1, <1>2, <2>1, Induction
<1>4. \A i \in m .. n : i - m \in Nat /\ m + (i - m) = i /\ i <= n
  OBVIOUS
<1> QED BY <1>3, <1>4

\* A sum s after j products of words, beginning with at most the number n
\* times the size w of a word.
AtMost(s, n, w, j) == s <= n * w + j * ((w - 1) * (w - 1))

\* There is room for n products if the words are large enough.
LEMMA RoomForProducts ==
  ASSUME NEW w \in Nat, w >= 4, NEW n \in Nat, n <= w, n > 0, NEW s \in Nat, NEW j \in 0 .. n,
         AtMost(s, n, w, j)
  PROVE  s < w * (w * w) /\ s <= n * (w * w)
<1> DEFINE q == (w - 1) * (w - 1)
<1>1. q = w * w - 2 * w + 1 /\ q \in Nat /\ w * w \in Nat /\ w * w >= 4 * w
  <2>1. (w - 4) * w >= 0 /\ (w - 4) * w = w * w - 4 * w
    OBVIOUS
  <2> QED BY <2>1
<1>2. j * q <= n * q
  <2> HIDE DEF q
  <2>1. (n - j) * q >= 0 /\ (n - j) * q = n * q - j * q
    BY <1>1
  <2>2. n * q \in Int /\ j * q \in Int
    BY <1>1
  <2> QED BY <2>1, <2>2
<1>3. n * w + n * q = n * (w * w) - n * w + n
  <2>1. n * q = n * (w * w) - n * (2 * w) + n
    BY <1>1
  <2>2. n * (2 * w) = n * w + n * w
    OBVIOUS
  <2>3. n * (w * w) \in Int /\ n * w \in Int
    BY <1>1
  <2> HIDE DEF q
  <2> QED BY <2>1, <2>2, <2>3
<1>4. n * w >= n + n
  <2>1. n * (w - 2) >= 0 /\ n * (w - 2) = n * w - n - n /\ n * w \in Int
    OBVIOUS
  <2> QED BY <2>1
<1>5. n * (w * w) <= w * (w * w)
  <2>1. \A c \in Nat : (w - n) * c >= 0 /\ (w - n) * c = w * c - n * c /\ w * c \in Int /\ n * c \in Int
    OBVIOUS
  <2>2. w * w \in Nat
    BY <1>1
  <2> QED BY <2>1, <2>2
<1>6. s <= n * w + j * q
  BY DEF AtMost
<1> HIDE DEF q
<1>7. n * w \in Int /\ j * q \in Int /\ n * q \in Int /\ n * (w * w) \in Int /\ w * (w * w) \in Int
  BY <1>1
<1> QED BY <1>2, <1>3, <1>4, <1>5, <1>6, <1>7

\* A column adds to the sum c of the columns before what the staircase gains.
ColumnAdds(x, y, k, c, d) ==
  ColumnSum(d) * Power(WORD, k - 1) + Stairs(x, y, k - 1, WORDS)
    = ColumnSum(c) * Power(WORD, k - 1) + Stairs(x, y, k, WORDS)

\* One column of vli_mult(), whose sum does not overflow its three words.
LEMMA ColumnRight ==
  ASSUME NEW x \in Seq(Word), NEW y \in Seq(Word), Len(x) = WORDS, Len(y) = WORDS,
         NEW k \in 1 .. 2 * WORDS - 1, NEW c \in Column3, ColumnSum(c) <= WORDS * WORD
  PROVE  /\ MultColumn(x, y, k, c) \in Column3
         /\ ColumnSum(MultColumn(x, y, k, c)) <= WORDS * (WORD * WORD)
         /\ ColumnAdds(x, y, k, c, MultColumn(x, y, k, c))
<1>3. PICK f : ColumnSums(x, y, k, c, f)
  BY ColumnUnfolds
<1> DEFINE first == FirstOf(k)
           last == LastOf(k)
           m == Power(WORD, k - 1)
           Gains(d, i) == ColumnSum(d) * m + Stairs(x, y, k - 1, i)
                            = ColumnSum(c) * m + Stairs(x, y, k, i)
<1>1. /\ first \in 1 .. WORDS /\ last \in first .. WORDS
      /\ \A i \in first .. last : i \in 1 .. WORDS /\ k + 1 - i \in 1 .. WORDS
  BY ColumnRange
<1>2. /\ WORDS \in Nat /\ WORDS >= 3 /\ WORDS <= WORD /\ WORD \in Nat /\ WORD >= 4
      /\ x \in Seq(Nat) /\ y \in Seq(Nat) /\ k - 1 \in Nat /\ m \in Nat
  <2>1. k - 1 \in Nat
    BY Sizes
  <2> QED BY <2>1, Sizes, NumRange
<1>03. /\ f \in [first - 1 .. last -> Column3] /\ f[first - 1] = c
       /\ \A i \in first .. last : f[i] = muladd(x[i], y[k + 1 - i], f[i - 1])
       /\ MultColumn(x, y, k, c) = f[last]
  BY <1>3 DEF ColumnSums
<1>4. /\ Stairs(x, y, k, first - 1) = Stairs(x, y, k - 1, first - 1)
      /\ \A i \in first .. last :
           Stairs(x, y, k, i) - Stairs(x, y, k - 1, i)
             = Stairs(x, y, k, i - 1) - Stairs(x, y, k - 1, i - 1)
                 + (x[i] * y[k + 1 - i]) * m
      /\ Stairs(x, y, k, WORDS) - Stairs(x, y, k - 1, WORDS)
           = Stairs(x, y, k, last) - Stairs(x, y, k - 1, last)
  BY ColumnStairs
<1>5. \A i \in 0 .. WORDS : Stairs(x, y, k, i) \in Nat /\ Stairs(x, y, k - 1, i) \in Nat
  <2>1. \A d \in Int : \A i \in 0 .. WORDS : Stairs(x, y, d, i) \in Nat
    <3> SUFFICES ASSUME NEW d \in Int, NEW i \in 0 .. WORDS
                 PROVE  Stairs(x, y, d, i) \in Nat
      OBVIOUS
    <3>1. Staircase(x, y, d) \in Seq(Nat) /\ Len(Staircase(x, y, d)) = WORDS
      BY StaircaseType
    <3> QED BY <1>2, <3>1, NumberPrefix DEF Stairs
  <2>2. k \in Int /\ k - 1 \in Int
    BY <1>2
  <2> QED BY <2>1, <2>2, Zenon
<1>05. Stairs(x, y, k, WORDS) - Stairs(x, y, k - 1, WORDS)
        = Stairs(x, y, k, last) - Stairs(x, y, k - 1, last)
  BY <1>4
<1> HIDE DEF first, last, m
<1> DEFINE T == {i \in first - 1 .. last :
                   Gains(f[i], i) /\ AtMost(ColumnSum(f[i]), WORDS, WORD, i - (first - 1))}
<1>6. first - 1 \in T
  <2>1. first - 1 \in first - 1 .. last /\ (first - 1) - (first - 1) = 0
    BY <1>1, <1>2
  <2>2. Gains(f[first - 1], first - 1)
    BY <1>03, <1>4
  <2>3. AtMost(ColumnSum(f[first - 1]), WORDS, WORD, 0)
    <3>1. ColumnSum(c) \in Nat
      BY <1>2, MuladdRight, Sizes
    <3> QED BY <1>2, <1>03, <3>1 DEF AtMost
  <2> HIDE DEF Gains
  <2> QED BY <2>1, <2>2, <2>3
<1>7. ASSUME NEW l \in first - 1 .. last - 1, l \in T
      PROVE  l + 1 \in T
  <2>1. PICK i \in first .. last : l + 1 = i
    <3> HIDE DEF T
    <3>1. l + 1 \in first .. last
      <4>1. first \in Int /\ last \in Int
        BY <1>1, <1>2
      <4> QED BY <4>1
    <3> QED BY <3>1
  <2>2. /\ l = i - 1 /\ i - 1 \in first - 1 .. last /\ i \in first - 1 .. last
        /\ i \in 0 .. WORDS /\ i - 1 \in 0 .. WORDS
        /\ i \in 1 .. WORDS /\ k + 1 - i \in 1 .. WORDS
    <3> HIDE DEF T
    <3>1. i \in 1 .. WORDS /\ k + 1 - i \in 1 .. WORDS
      BY <1>1
    <3>2. first \in 1 .. WORDS /\ last \in 1 .. WORDS
      BY <1>1, <1>2
    <3>3. \A a, b, n \in Nat : \A c1 \in a - 1 .. b - 1 : \A e \in a .. b :
            c1 + 1 = e /\ e \in 1 .. n =>
              /\ c1 = e - 1 /\ e - 1 \in a - 1 .. b /\ e \in a - 1 .. b
              /\ e \in 0 .. n /\ e - 1 \in 0 .. n
      OBVIOUS
    <3>4. first \in Nat /\ last \in Nat
      BY <3>2
    <3> QED BY <1>2, <2>1, <3>1, <3>3, <3>4
  <2>3. x[i] \in Word /\ y[k + 1 - i] \in Word /\ f[i - 1] \in Column3
    <3>1. x[i] \in Word
      BY <2>2, ElementOfSeq
    <3>2. y[k + 1 - i] \in Word
      BY <2>2, ElementOfSeq
    <3> QED BY <1>03, <2>2, <3>1, <3>2
  <2> DEFINE j == i - first
             s == ColumnSum(f[i - 1])
             p == x[i] * y[k + 1 - i]
             q == (WORD - 1) * (WORD - 1)
  <2>4. j \in 0 .. WORDS /\ j + 1 \in 0 .. WORDS
        /\ (i - 1) - (first - 1) = j /\ i - (first - 1) = j + 1
    <3>1. first \in 1 .. WORDS /\ i \in first .. WORDS
      BY <1>1, <1>2
    <3> QED BY <1>2, <3>1
  <2>5. f[i] = muladd(x[i], y[k + 1 - i], f[i - 1]) /\ f[i] \in Column3
    BY <1>03, <2>2
  <2>6. /\ s \in Nat /\ p \in 0 .. q
        /\ s + p < WORD * (WORD * WORD) => ColumnSum(f[i]) = s + p
    BY <2>3, <2>5, MuladdRight
  <2>7. AtMost(s, WORDS, WORD, j) /\ Gains(f[i - 1], i - 1)
    BY <1>7, <2>2, <2>4
  <2>8. q \in Nat
    BY <1>2
  <2> HIDE DEF j, s, p
  <2>9. AtMost(s + p, WORDS, WORD, j + 1)
    <3>1. s <= WORDS * WORD + j * q
      BY <2>7 DEF AtMost
    <3> HIDE DEF q
    <3>2. (j + 1) * q = j * q + q /\ j * q \in Int /\ WORDS * WORD \in Int
      BY <1>2, <2>4, <2>8
    <3>4. s \in Int /\ p \in Int /\ p <= q /\ q \in Int
      BY <2>6, <2>8 DEF q
    <3>5. \A a, b, d, e, t \in Int : a <= t + e /\ b <= d => a + b <= t + (e + d)
      OBVIOUS
    <3>3. s + p <= WORDS * WORD + (j + 1) * q
      BY <3>1, <3>2, <3>4, <3>5
    <3> QED BY <3>3 DEF AtMost, q
  <2>10. s + p \in Nat /\ s + p < WORD * (WORD * WORD)
    <3>1. s + p \in Nat
      BY <2>6
    <3> QED BY <1>2, <2>4, <2>9, <3>1, RoomForProducts
  <2>11. ColumnSum(f[i]) = s + p
    BY <2>6, <2>10
  <2>12. Gains(f[i], i)
    <3> DEFINE r == Stairs(x, y, k, i)
               t == Stairs(x, y, k - 1, i)
               u == Stairs(x, y, k, i - 1)
               v == Stairs(x, y, k - 1, i - 1)
               e == ColumnSum(c)
    <3>1. r \in Nat /\ t \in Nat /\ u \in Nat /\ v \in Nat
      BY <1>5, <2>2
    <3>2. r - t = u - v + p * m
      BY <1>4, <2>1 DEF p
    <3>3. s * m + v = e * m + u
      BY <2>7 DEF s
    <3>4. e \in Nat
      BY <2>3, MuladdRight
    <3> HIDE DEF r, t, u, v, e, q
    <3>5. (s + p) * m = s * m + p * m /\ s * m \in Int /\ p * m \in Int /\ e * m \in Int
      BY <1>2, <2>6, <3>4
    <3>6. (s + p) * m + t = e * m + r
      <4> DEFINE spm == (s + p) * m
                 sm == s * m
                 pm == p * m
                 em == e * m
      <4>1. /\ spm \in Int /\ sm \in Int /\ pm \in Int /\ em \in Int
            /\ spm = sm + pm /\ r - t = u - v + pm /\ sm + v = em + u
        BY <3>2, <3>3, <3>5
      <4> HIDE DEF spm, sm, pm, em
      <4>2. spm + t = em + r
        BY <3>1, <4>1
      <4> QED BY <4>2 DEF spm, em
    <3> QED BY <2>11, <3>6 DEF r, t, e
  <2> HIDE DEF Gains
  <2>13. i \in T
    BY <2>2, <2>4, <2>9, <2>11, <2>12
  <2> QED BY <2>1, <2>13
<1>8. last \in T
  <2>1. first - 1 \in Int /\ last \in Int /\ last \in first - 1 .. last
    BY <1>1, <1>2
  <2> HIDE DEF T
  <2> QED BY <1>6, <1>7, <2>1, RangeInduction
<1> DEFINE d == f[last]
<1>9. d \in Column3 /\ Gains(d, last) /\ AtMost(ColumnSum(d), WORDS, WORD, last - (first - 1))
  BY <1>03, <1>8
<1> HIDE DEF T
<1>10. ColumnSum(d) \in Nat
  <2>1. \A e \in Column3 : ColumnSum(e) \in Nat
    BY Sizes, MuladdRight
  <2> QED BY <1>9, <2>1
<1>11. ColumnSum(d) <= WORDS * (WORD * WORD)
  <2>1. last - (first - 1) \in 0 .. WORDS /\ WORDS > 0
    BY <1>1, <1>2
  <2> HIDE DEF d
  <2> QED BY <1>2, <1>9, <1>10, <2>1, RoomForProducts
<1>12. ColumnAdds(x, y, k, c, d)
  <2>1. last \in 0 .. WORDS /\ WORDS \in 0 .. WORDS
    BY <1>1, <1>2
  <2>2. /\ Stairs(x, y, k, last) \in Nat /\ Stairs(x, y, k - 1, last) \in Nat
        /\ Stairs(x, y, k, WORDS) \in Nat /\ Stairs(x, y, k - 1, WORDS) \in Nat
    BY <1>5, <2>1
  <2>3. ColumnSum(c) \in Nat
    BY Sizes, MuladdRight
  <2>4. ColumnSum(d) * m \in Int /\ ColumnSum(c) * m \in Int
    BY <1>2, <1>10, <2>3
  <2>5. ColumnSum(d) * m + Stairs(x, y, k - 1, last) = ColumnSum(c) * m + Stairs(x, y, k, last)
    BY <1>9
  <2>6. ColumnSum(d) * m + Stairs(x, y, k - 1, WORDS) = ColumnSum(c) * m + Stairs(x, y, k, WORDS)
    <3>1. \A p, q, r, t, u, v \in Int : u - v = r - t /\ p + t = q + r => p + v = q + u
      OBVIOUS
    <3> DEFINE p == ColumnSum(d) * m
               q == ColumnSum(c) * m
               r == Stairs(x, y, k, last)
               t == Stairs(x, y, k - 1, last)
               u == Stairs(x, y, k, WORDS)
               v == Stairs(x, y, k - 1, WORDS)
    <3>2. /\ p \in Int /\ q \in Int /\ r \in Int /\ t \in Int /\ u \in Int /\ v \in Int
          /\ u - v = r - t /\ p + t = q + r
      <4> HIDE DEF d
      <4>1. r \in Int /\ t \in Int /\ u \in Int /\ v \in Int
        BY <2>2
      <4> QED BY <1>05, <2>4, <2>5, <4>1
    <3> HIDE DEF p, q, r, t, u, v
    <3>3. p + v = q + u
      BY <3>1, <3>2
    <3> QED BY <3>3 DEF p, q, u, v
  <2> QED BY <2>6 DEF ColumnAdds, m
<1> QED BY <1>03, <1>9, <1>11, <1>12

\* Digits that are all multiplied by the same number.
LEMMA NumberScale ==
  ASSUME NEW base \in Nat, NEW x \in Seq(Nat), NEW w \in Seq(Nat), NEW t \in Nat,
         Len(w) = Len(x), \A i \in 1 .. Len(x) : w[i] = x[i] * t
  PROVE  NumberOf(w, base) = NumberOf(x, base) * t
<1> DEFINE n == Len(x)
           a(i) == NumberOf(SubSeq(x, 1, i), base)
           b(i) == NumberOf(SubSeq(w, 1, i), base)
           T == {i \in 0 .. n : b(i) = a(i) * t}
<1>1. n \in Nat /\ 0 \in 0 .. n /\ n \in 0 .. n
  OBVIOUS
<1>2. /\ a(0) = 0 /\ b(0) = 0 /\ SubSeq(x, 1, n) = x /\ SubSeq(w, 1, n) = w
      /\ \A i \in 0 .. n - 1 : a(i + 1) = a(i) + x[i + 1] * Power(base, i)
      /\ \A i \in 0 .. n - 1 : b(i + 1) = b(i) + w[i + 1] * Power(base, i)
      /\ \A i \in 0 .. n : a(i) \in Nat /\ b(i) \in Nat
  BY NumberPrefix
<1> HIDE DEF a, b
<1>3. 0 \in T
  BY <1>1, <1>2
<1>4. ASSUME NEW i \in 0 .. n - 1, i \in T
      PROVE  i + 1 \in T
  <2> HIDE DEF n
  <2>1. i \in 0 .. n /\ i + 1 \in 0 .. n /\ i + 1 \in 1 .. n /\ i \in Nat
    BY <1>1
  <2>2. w[i + 1] = x[i + 1] * t
    BY <2>1 DEF n
  <2>3. x[i + 1] \in Nat
    BY <2>1, ElementOfSeq DEF n
  <2> DEFINE p == Power(base, i)
             d == x[i + 1]
  <2>4. p \in Nat
    BY <2>1, PowerSteps
  <2>5. b(i) = a(i) * t /\ a(i) \in Nat
    BY <1>2, <1>4, <2>1
  <2>6. a(i + 1) = a(i) + d * p /\ b(i + 1) = b(i) + (d * t) * p
    BY <1>2, <2>2
  <2> HIDE DEF p, d
  <2>7. \A e \in Nat : (e + d * p) * t = e * t + (d * t) * p
    BY SMTT(30), <2>3, <2>4 DEF d
  <2>8. b(i + 1) = a(i + 1) * t
    BY <2>5, <2>6, <2>7
  <2> QED BY <2>1, <2>8
<1>5. n \in T
  <2>1. 0 \in Int /\ n \in Int
    BY <1>1
  <2> HIDE DEF T, n
  <2> QED BY <1>1, <1>3, <1>4, <2>1, RangeInduction
<1>6. b(n) = a(n) * t
  BY <1>5
<1>7. b(n) = NumberOf(w, base) /\ a(n) = NumberOf(x, base)
  <2> HIDE DEF n
  <2> QED BY <1>2, Zenon DEF a, b
<1> QED BY <1>6, <1>7

\* The staircase begins with nothing and ends with the product.
LEMMA StairsEnds ==
  ASSUME NEW x \in Seq(Word), NEW y \in Seq(Word), Len(x) = WORDS, Len(y) = WORDS
  PROVE  Stairs(x, y, 0, WORDS) = 0 /\ Stairs(x, y, 2 * WORDS - 1, WORDS) = Num(x) * Num(y)
<1>1. WORDS \in Nat /\ WORD \in Nat /\ x \in Seq(Nat) /\ y \in Seq(Nat)
      /\ Num(x) \in Nat /\ Num(y) \in Nat
  BY Sizes, NumRange
<1>2. ASSUME NEW k \in Int, NEW t \in Nat,
             \A i \in 1 .. WORDS : LowNum(y, Clamp(k + 1 - i)) = t
      PROVE  Stairs(x, y, k, WORDS) = Num(x) * t
  <2> DEFINE w == Staircase(x, y, k)
  <2>1. w \in Seq(Nat) /\ Len(w) = WORDS /\ \A i \in 1 .. WORDS : w[i] = x[i] * t
    BY <1>2, StaircaseType, ZenonT(60)
  <2> HIDE DEF w
  <2>2. NumberOf(w, WORD) = NumberOf(x, WORD) * t
    <3>1. Len(w) = Len(x) /\ \A i \in 1 .. Len(x) : w[i] = x[i] * t
      BY <2>1
    <3> QED BY <1>1, <2>1, <3>1, NumberScale
  <2>3. SubSeq(w, 1, WORDS) = w
    BY <2>1, NumberPrefix, <1>1
  <2> QED BY <2>2, <2>3, Zenon DEF Stairs, Num, w
<1>3. LowNum(y, 0) = 0 /\ LowNum(y, WORDS) = Num(y)
  <2>1. NumberOf(SubSeq(y, 1, 0), WORD) = 0 /\ SubSeq(y, 1, Len(y)) = y
    BY <1>1, NumberPrefix
  <2> QED BY <2>1, Zenon DEF LowNum, Num
<1>4. \A i \in 1 .. WORDS : LowNum(y, Clamp(0 + 1 - i)) = 0
  <2>1. \A i \in 1 .. WORDS : Clamp(0 + 1 - i) = 0
    BY <1>1 DEF Clamp
  <2> QED BY <1>3, <2>1
<1>5. \A i \in 1 .. WORDS : LowNum(y, Clamp((2 * WORDS - 1) + 1 - i)) = Num(y)
  <2>1. \A i \in 1 .. WORDS : Clamp((2 * WORDS - 1) + 1 - i) = WORDS
    BY <1>1 DEF Clamp
  <2> QED BY <1>3, <2>1
<1>6. Stairs(x, y, 0, WORDS) = Num(x) * 0
  BY <1>2, <1>4
<1>7. Stairs(x, y, 2 * WORDS - 1, WORDS) = Num(x) * Num(y)
  <2>1. 2 * WORDS - 1 \in Int
    BY <1>1
  <2> QED BY <1>1, <1>2, <1>5, <2>1
<1> QED BY <1>1, <1>6, <1>7

\* One column of uECC_vli_mult(): a word, and the carries; and the function
\* that vli_mult() chooses.
MultWord(x, y, k, before) ==
  [words |-> Append(before.words, MultColumn(x, y, k, before.r)[1]),
   r |-> <<MultColumn(x, y, k, before.r)[2], MultColumn(x, y, k, before.r)[3], 0>>]

MultsUpTo(x, y, f) ==
  f = [k \in 0 .. 2 * WORDS - 1 |->
         IF k = 0 THEN [words |-> << >>, r |-> <<0, 0, 0>>] ELSE MultWord(x, y, k, f[k - 1])]

\* What a column leaves: the words so far and the sum for the next.
MultSoFar(x, y, k, s) ==
  /\ s.words \in Seq(Word) /\ s.r \in Column3 /\ Len(s.words) = k
  /\ ColumnSum(s.r) <= WORDS * WORD
  /\ Num(s.words) + ColumnSum(s.r) * Power(WORD, k) = Stairs(x, y, k, WORDS)

\* One column more.
LEMMA MultWordRight ==
  ASSUME NEW x \in Seq(Word), NEW y \in Seq(Word), Len(x) = WORDS, Len(y) = WORDS,
         NEW k \in 0 .. 2 * WORDS - 2, NEW s, MultSoFar(x, y, k, s)
  PROVE  MultSoFar(x, y, k + 1, MultWord(x, y, k + 1, s))
<1> DEFINE c == s.r
           d == MultColumn(x, y, k + 1, c)
           m == Power(WORD, k)
           words == Append(s.words, d[1])
           e == <<d[2], d[3], 0>>
<1>1. /\ WORDS \in Nat /\ WORDS >= 3 /\ WORD \in Nat /\ WORD >= 4 /\ 0 \in Word
      /\ k \in Nat /\ k + 1 \in 1 .. 2 * WORDS - 1 /\ (k + 1) - 1 = k
  <2>1. WORDS \in Nat /\ WORDS >= 3
    BY Sizes
  <2> QED BY <2>1, Sizes
<1>2. /\ s.words \in Seq(Word) /\ c \in Column3 /\ Len(s.words) = k
      /\ ColumnSum(c) <= WORDS * WORD /\ Num(s.words) + ColumnSum(c) * m = Stairs(x, y, k, WORDS)
  BY DEF MultSoFar
<1>3. d \in Column3 /\ ColumnSum(d) <= WORDS * (WORD * WORD) /\ ColumnAdds(x, y, k + 1, c, d)
  <2> HIDE DEF c
  <2>1. \A l \in 1 .. 2 * WORDS - 1 :
          /\ MultColumn(x, y, l, c) \in Column3
          /\ ColumnSum(MultColumn(x, y, l, c)) <= WORDS * (WORD * WORD)
          /\ ColumnAdds(x, y, l, c, MultColumn(x, y, l, c))
    BY <1>2, ColumnRight
  <2> QED BY <1>1, <2>1
<1>4. ColumnSum(d) * m + Stairs(x, y, k, WORDS) = ColumnSum(c) * m + Stairs(x, y, k + 1, WORDS)
  BY <1>1, <1>3, Zenon DEF ColumnAdds
<1>5. MultWord(x, y, k + 1, s) = [words |-> words, r |-> e]
  BY DEF MultWord
<1> HIDE DEF d, c
<1>6. /\ words \in Seq(Word) /\ Len(words) = k + 1 /\ e \in Column3
      /\ d[1] \in Word /\ d[2] \in Word /\ d[3] \in Word
  BY <1>1, <1>2, <1>3 DEF Column3
<1>7. Num(words) = Num(s.words) + d[1] * m /\ Num(s.words) \in Nat /\ m \in Nat
  <2>1. s.words \in Seq(Nat) /\ d[1] \in Nat
    BY <1>2, <1>6, NumRange, Sizes
  <2> QED BY <1>1, <1>2, <2>1, NumberSteps, PowerSteps, ZenonT(60) DEF Num
<1>8. ColumnSum(d) = d[1] + ColumnSum(e) * WORD /\ ColumnSum(e) \in Nat /\ ColumnSum(d) \in Nat
      /\ d[1] \in Nat
  <2>1. e[1] = d[2] /\ e[2] = d[3] /\ e[3] = 0 /\ d[1] \in Nat /\ d[2] \in Nat /\ d[3] \in Nat
    BY <1>1, <1>6, Sizes
  <2>2. d[3] * WORD \in Nat /\ d[2] * WORD \in Nat /\ 0 * (WORD * WORD) = 0
    BY <1>1, <2>1
  <2> HIDE DEF e
  <2>3. ColumnSum(e) = d[2] + d[3] * WORD
    BY <2>1, <2>2 DEF ColumnSum
  <2>4. (d[2] + d[3] * WORD) * WORD = d[2] * WORD + d[3] * (WORD * WORD)
        /\ d[3] * (WORD * WORD) \in Nat
    BY <1>1, <2>1
  <2>5. ColumnSum(d) = d[1] + d[2] * WORD + d[3] * (WORD * WORD)
    BY DEF ColumnSum
  <2>6. ColumnSum(e) * WORD = d[2] * WORD + d[3] * (WORD * WORD)
    BY <2>3, <2>4
  <2>7. ColumnSum(d) = d[1] + ColumnSum(e) * WORD
    <3> DEFINE p == d[2] * WORD
               q == d[3] * (WORD * WORD)
               v == ColumnSum(e) * WORD
    <3>1. p \in Nat /\ q \in Nat /\ v = p + q /\ ColumnSum(d) = d[1] + p + q
      BY <2>2, <2>4, <2>5, <2>6
    <3> HIDE DEF p, q, v
    <3>2. ColumnSum(d) = d[1] + v
      BY <2>1, <3>1
    <3> QED BY <3>2 DEF v
  <2>8. ColumnSum(e) \in Nat /\ ColumnSum(d) \in Nat
    <3>1. ColumnSum(e) \in Nat
      BY <2>1, <2>2, <2>3
    <3>2. d[2] * WORD + d[3] * (WORD * WORD) \in Nat
      BY <2>2, <2>4
    <3>3. ColumnSum(d) = d[1] + (d[2] * WORD + d[3] * (WORD * WORD))
      BY <2>6, <2>7
    <3> QED BY <2>1, <3>1, <3>2, <3>3
  <2> QED BY <2>1, <2>7, <2>8
<1>9. ColumnSum(e) <= WORDS * WORD
  <2>1. \A a, b, w \in Nat : w > 0 /\ a * w <= b * w => a <= b
    <3> SUFFICES ASSUME NEW a \in Nat, NEW b \in Nat, NEW w \in Nat, w > 0, a * w <= b * w, a > b
                 PROVE  FALSE
      OBVIOUS
    <3>1. (a - b) * w > 0 /\ (a - b) * w = a * w - b * w /\ a * w \in Int /\ b * w \in Int
      BY SMTT(30)
    <3> QED BY <3>1
  <2>2. (WORDS * WORD) * WORD = WORDS * (WORD * WORD) /\ WORDS * WORD \in Nat
        /\ ColumnSum(e) * WORD \in Nat
    BY <1>1, <1>8
  <2>3. ColumnSum(e) * WORD <= (WORDS * WORD) * WORD
    <3> HIDE DEF e
    <3>1. WORDS * (WORD * WORD) \in Int
      BY <1>1
    <3> QED BY <1>3, <1>8, <2>2, <3>1
  <2> HIDE DEF e
  <2> QED BY <1>1, <1>8, <2>1, <2>2, <2>3
<1>10. Num(words) + ColumnSum(e) * Power(WORD, k + 1) = Stairs(x, y, k + 1, WORDS)
  <2>1. Power(WORD, k + 1) = WORD * m
    BY <1>1, PowerSteps
  <2>2. \A l \in Int : Stairs(x, y, l, WORDS) \in Nat
    <3> SUFFICES ASSUME NEW l \in Int
                 PROVE  Stairs(x, y, l, WORDS) \in Nat
      OBVIOUS
    <3>1. Staircase(x, y, l) \in Seq(Nat) /\ Len(Staircase(x, y, l)) = WORDS
      BY StaircaseType
    <3>2. WORDS \in 0 .. WORDS
      BY <1>1
    <3> QED BY <1>1, <3>1, <3>2, NumberPrefix DEF Stairs
  <2>3. Stairs(x, y, k, WORDS) \in Nat /\ Stairs(x, y, k + 1, WORDS) \in Nat
    BY SMTT(30), <1>1, <2>2
  <2> DEFINE t == ColumnSum(e)
             a == d[1]
             num == Num(s.words)
  <2>4. t \in Nat /\ a \in Nat /\ num \in Nat /\ m \in Nat /\ WORD \in Nat
    BY <1>1, <1>7, <1>8
  <2>5. (a + t * WORD) * m = a * m + t * (WORD * m) /\ a * m \in Nat /\ t * (WORD * m) \in Nat
    <3> HIDE DEF a, t, m
    <3> QED BY <2>4
  <2>6. ColumnSum(c) \in Nat
    BY <1>2, MuladdRight, Sizes
  <2>7. ColumnSum(c) * m \in Nat
    <3> HIDE DEF m
    <3> QED BY <2>4, <2>6
  <2>8. ColumnSum(d) * m = a * m + t * (WORD * m)
    BY <1>8, <2>5
  <2> DEFINE p == ColumnSum(d) * m
             q == ColumnSum(c) * m
             v == Stairs(x, y, k, WORDS)
             u == Stairs(x, y, k + 1, WORDS)
             am == a * m
             tm == t * (WORD * m)
  <2>9. /\ p = am + tm /\ p + v = q + u /\ num + q = v
        /\ q \in Nat /\ v \in Nat /\ u \in Nat /\ am \in Nat /\ tm \in Nat
    BY <1>2, <1>4, <2>3, <2>5, <2>7, <2>8
  <2> HIDE DEF p, q, v, u, am, tm, num
  <2>10. (num + am) + tm = u
    BY <2>4, <2>9
  <2>11. Num(words) = num + am
    BY <1>7 DEF num, am
  <2> QED BY <2>1, <2>10, <2>11 DEF tm, u
<1> DEFINE after == MultWord(x, y, k + 1, s)
<1> HIDE DEF words, e
<1>11. after.words = words /\ after.r = e
  BY <1>5
<1> HIDE DEF after
<1>12. MultSoFar(x, y, k + 1, after)
  BY <1>6, <1>9, <1>10, <1>11 DEF MultSoFar
<1> QED BY <1>12 DEF after

\* uECC_vli_mult() gives the words of the product.
LEMMA MultRight ==
  ASSUME NEW x \in Seq(Word), NEW y \in Seq(Word), Len(x) = WORDS, Len(y) = WORDS
  PROVE  /\ vli_mult(x, y) \in Seq(Word) /\ Len(vli_mult(x, y)) = 2 * WORDS
         /\ Num(vli_mult(x, y)) = Num(x) * Num(y)
<1> DEFINE n == 2 * WORDS - 1
           A == [words : Seq(Word), r : Column3]
           start == [words |-> << >>, r |-> <<0, 0, 0>>]
           f == CHOOSE f : MultsUpTo(x, y, f)
<1>1. /\ WORDS \in Nat /\ WORDS >= 3 /\ WORD \in Nat /\ WORD >= 4 /\ n \in Nat
      /\ 0 \in Word /\ start \in A
  <2>1. WORDS \in Nat /\ WORDS >= 3 /\ 0 \in Word
    BY Sizes
  <2>2. <<0, 0, 0>> \in Column3
    BY <2>1 DEF Column3
  <2>3. << >> \in Seq(Word)
    OBVIOUS
  <2>4. n \in Nat
    BY <2>1
  <2>5. start \in A
    BY <2>2, <2>3
  <2> QED BY <2>1, <2>4, <2>5, Sizes
<1>2. ASSUME NEW before \in A, NEW k \in 1 .. n
      PROVE  MultWord(x, y, k, before) \in A
  <2> DEFINE d == MultColumn(x, y, k, before.r)
  <2>1. before.r \in Column3 /\ before.words \in Seq(Word)
    OBVIOUS
  <2>2. d \in Column3
    <3> HIDE DEF d
    <3>1. PICK g : ColumnSums(x, y, k, before.r, g)
      BY <2>1, ColumnUnfolds
    <3>2. LastOf(k) \in FirstOf(k) - 1 .. LastOf(k)
      <4>1. FirstOf(k) \in 1 .. WORDS /\ LastOf(k) \in FirstOf(k) .. WORDS
        BY ColumnRange
      <4> QED BY <1>1, <4>1
    <3>3. g \in [FirstOf(k) - 1 .. LastOf(k) -> Column3] /\ d = g[LastOf(k)]
      BY <3>1 DEF ColumnSums, d
    <3> QED BY <3>2, <3>3
  <2>3. MultWord(x, y, k, before) = [words |-> Append(before.words, d[1]), r |-> <<d[2], d[3], 0>>]
    BY DEF MultWord
  <2> HIDE DEF d
  <2>4. <<d[2], d[3], 0>> \in Column3 /\ d[1] \in Word
    BY <1>1, <2>2 DEF Column3
  <2>5. Append(before.words, d[1]) \in Seq(Word)
    BY <2>1, <2>4
  <2> QED BY <2>3, <2>4, <2>5
<1>3. MultsUpTo(x, y, f)
  <2> DEFINE step == [k \in 1 .. n |-> [before \in A |-> MultWord(x, y, k, before)]]
  <2>1. step \in [1 .. n -> [A -> A]]
    BY <1>2
  <2>2. PICK g : Unfolds(g, n, A, start, step)
    <3> HIDE DEF step, n, A, start
    <3> QED BY <1>1, <2>1, Recursion
  <2>3. \A k \in 1 .. n : \A before \in A : step[k][before] = MultWord(x, y, k, before)
    OBVIOUS
  <2>4. \A k \in 0 .. n : g[k] = IF k = 0 THEN start ELSE MultWord(x, y, k, g[k - 1])
    <3> HIDE DEF step, A, start
    <3>1. \A k \in 0 .. n : k = 0 \/ (k \in 1 .. n /\ k - 1 \in 0 .. n /\ k # 0)
      BY <1>1
    <3> HIDE DEF n
    <3> QED BY <2>2, <2>3, <3>1 DEF Unfolds
  <2>5. g = [k \in 0 .. n |-> g[k]]
    <3> HIDE DEF step, A
    <3> QED BY <2>2 DEF Unfolds
  <2>6. MultsUpTo(x, y, g)
    <3> HIDE DEF step, A
    <3> QED BY <2>4, <2>5 DEF MultsUpTo
  <2> QED BY <2>6
<1>4. vli_mult(x, y) = Append(f[n].words, f[n].r[1])
  BY DEF vli_mult, MultsUpTo, MultWord, MultColumn
<1> HIDE DEF f
<1>5. f[0] = start /\ \A k \in 1 .. n : f[k] = MultWord(x, y, k, f[k - 1])
  <2>1. \A k \in 0 .. n : f[k] = IF k = 0 THEN start ELSE MultWord(x, y, k, f[k - 1])
    BY <1>3 DEF MultsUpTo
  <2> HIDE DEF start
  <2>2. 0 \in 0 .. n /\ \A k \in 1 .. n : k \in 0 .. n /\ k # 0
    BY <1>1
  <2> QED BY <2>1, <2>2
<1> DEFINE T == {k \in 0 .. n : MultSoFar(x, y, k, f[k])}
<1>6. 0 \in T
  <2>1. f[0].words = << >> /\ f[0].r = <<0, 0, 0>> /\ Len(f[0].words) = 0
    BY <1>5
  <2>2. f[0].words \in Seq(Word) /\ f[0].r \in Column3
    BY <1>1, <1>5
  <2>3. ColumnSum(f[0].r) = 0
    BY <1>1, <2>1 DEF ColumnSum
  <2>4. Num(f[0].words) = 0 /\ Power(WORD, 0) = 1
    BY <1>1, <2>1, NumberSteps, PowerSteps DEF Num
  <2>5. Stairs(x, y, 0, WORDS) = 0
    BY StairsEnds
  <2>6. 0 <= WORDS * WORD
    BY <1>1
  <2>7. MultSoFar(x, y, 0, f[0])
    BY <2>1, <2>2, <2>3, <2>4, <2>5, <2>6 DEF MultSoFar
  <2> QED BY <1>1, <2>7
<1>7. ASSUME NEW k \in 0 .. n - 1, k \in T
      PROVE  k + 1 \in T
  <2>1. k \in 0 .. 2 * WORDS - 2 /\ k + 1 \in 1 .. n /\ (k + 1) - 1 = k /\ k + 1 \in 0 .. n
    BY <1>1
  <2>2. f[k + 1] = MultWord(x, y, k + 1, f[k])
    <3> HIDE DEF T, n
    <3> QED BY <1>5, <2>1
  <2>3. MultSoFar(x, y, k, f[k])
    BY <1>7
  <2>4. MultSoFar(x, y, k + 1, MultWord(x, y, k + 1, f[k]))
    <3> HIDE DEF T, n
    <3> QED BY <2>1, <2>3, MultWordRight
  <2> QED BY <2>1, <2>2, <2>4
<1>8. n \in T
  <2>1. 0 \in Int /\ n \in Int /\ n \in 0 .. n
    BY <1>1
  <2> HIDE DEF T, n
  <2> QED BY <1>6, <1>7, <2>1, RangeInduction
<1> DEFINE words == f[n].words
           r == f[n].r
           m == Power(WORD, n)
<1>9. /\ words \in Seq(Word) /\ r \in Column3 /\ Len(words) = n
      /\ Num(words) + ColumnSum(r) * m = Num(x) * Num(y)
  <2>1. MultSoFar(x, y, n, f[n])
    BY <1>8
  <2>2. Stairs(x, y, n, WORDS) = Num(x) * Num(y)
    BY StairsEnds
  <2> HIDE DEF n
  <2> QED BY <2>1, <2>2 DEF MultSoFar
<1> HIDE DEF words, r, T
<1>10. ColumnSum(r) \in Nat /\ Num(words) \in Nat /\ m \in Nat /\ m > 0
  <2>1. ColumnSum(r) \in Nat
    BY <1>1, <1>9, MuladdRight
  <2> HIDE DEF n
  <2> QED BY <1>1, <1>9, <2>1, NumRange, Sizes
<1>11. Num(x) * Num(y) < m * WORD
  <2> DEFINE p == Power(WORD, WORDS)
             a == Num(x)
             b == Num(y)
  <2>1. a \in Nat /\ b \in Nat /\ a < p /\ b < p /\ p \in Nat
    BY <1>1, NumRange, Sizes
  <2> HIDE DEF p, a, b
  <2>2. a * b < p * p
    <3>1. (p - a) * b >= 0 /\ (p - b) * p > 0
      BY <2>1, SMTT(30)
    <3>2. (p - a) * b = p * b - a * b /\ (p - b) * p = p * p - p * b
          /\ a * b \in Int /\ p * b \in Int /\ p * p \in Int
      BY <2>1
    <3> QED BY <3>1, <3>2
  <2>3. p * p = Power(WORD, WORDS + WORDS)
    BY <1>1, PowerOfSum DEF p
  <2>4. Power(WORD, WORDS + WORDS) = WORD * m
    <3>1. WORDS + WORDS = n + 1
      BY <1>1
    <3> HIDE DEF n
    <3> QED BY <1>1, <3>1, PowerSteps
  <2>5. WORD * m = m * WORD
    <3> HIDE DEF m
    <3> QED BY <1>1, <1>10
  <2> QED BY <2>2, <2>3, <2>4, <2>5 DEF a, b
<1> HIDE DEF m
<1>12. ColumnSum(r) < WORD
  <2> SUFFICES ASSUME ColumnSum(r) >= WORD
               PROVE  FALSE
    BY <1>1, <1>10
  <2> DEFINE s == ColumnSum(r)
             p == Num(x) * Num(y)
             q == s * m
             v == m * WORD
  <2>1. (s - WORD) * m >= 0 /\ (s - WORD) * m = q - v /\ q \in Nat /\ v \in Nat
    BY <1>1, <1>10
  <2>2. Num(words) + q = p /\ p < v
    BY <1>9, <1>11
  <2> HIDE DEF q, v, p, s
  <2> QED BY <1>10, <2>1, <2>2
<1>13. r[1] = ColumnSum(r) /\ r[1] \in Word
  <2>1. r[1] \in Word /\ r[2] \in Word /\ r[3] \in Word
    BY <1>9 DEF Column3
  <2>2. r[1] \in Nat /\ r[2] \in Nat /\ r[3] \in Nat
    BY <2>1, Sizes
  <2> DEFINE p == r[2] * WORD
             q == r[3] * (WORD * WORD)
  <2>3. ColumnSum(r) = r[1] + p + q
    BY DEF ColumnSum
  <2>4. \A a, w \in Nat : a > 0 => a * w >= w
    <3> SUFFICES ASSUME NEW a \in Nat, NEW w \in Nat, a > 0
                 PROVE  a * w >= w
      OBVIOUS
    <3>1. (a - 1) * w >= 0 /\ (a - 1) * w = a * w - w /\ a * w \in Int
      OBVIOUS
    <3> QED BY <3>1
  <2>5. p \in Nat /\ q \in Nat /\ (r[2] > 0 => p >= WORD) /\ (r[3] > 0 => q >= WORD)
    <3>1. WORD * WORD \in Nat /\ WORD * WORD >= WORD
      BY <1>1, <2>4
    <3>2. p \in Nat /\ q \in Nat
      BY <1>1, <2>2, <3>1
    <3>3. r[2] > 0 => p >= WORD
      BY <1>1, <2>2, <2>4
    <3>4. r[3] > 0 => q >= WORD * WORD
      BY <2>2, <2>4, <3>1
    <3> HIDE DEF p, q
    <3> QED BY <1>1, <3>1, <3>2, <3>3, <3>4
  <2>6. (r[2] = 0 => p = 0) /\ (r[3] = 0 => q = 0)
    BY <1>1
  <2> HIDE DEF p, q
  <2>7. r[2] = 0 /\ r[3] = 0
    BY <1>1, <1>12, <2>2, <2>3, <2>5
  <2> QED BY <2>1, <2>2, <2>3, <2>6, <2>7
<1> DEFINE d == r[1]
<1>14. Num(Append(words, d)) = Num(words) + d * m
  <2>1. words \in Seq(Nat) /\ d \in Nat
    BY <1>9, <1>13, NumRange, Sizes
  <2>2. Len(words) = n
    BY <1>9
  <2> HIDE DEF d, n
  <2> QED BY <1>1, <2>1, <2>2, NumberSteps DEF Num, m
<1>15. Append(words, d) \in Seq(Word) /\ Len(Append(words, d)) = 2 * WORDS
  <2>1. n + 1 = 2 * WORDS
    BY <1>1
  <2> HIDE DEF n
  <2> QED BY <1>9, <1>13, <2>1
<1>16. vli_mult(x, y) = Append(words, d)
  BY <1>4 DEF words, r
<1> QED BY <1>9, <1>13, <1>14, <1>15, <1>16

-----------------------------------------------------------------------------
(* The shift of mod_multiple in two halves.                                *)

\* It is the shift of the whole.
LEMMA HalvedWhole ==
  ASSUME NEW x \in Seq(Word), Len(x) = 2 * WORDS
  PROVE  Halved(x) = vli_rshift1(x)
<1> DEFINE low == SubSeq(x, 1, WORDS)
           high == SubSeq(x, WORDS + 1, 2 * WORDS)
           half == WORD \div 2
           first == vli_rshift1(low)
           carried == [first EXCEPT ![WORDS] = @ + (high[1] % 2) * half]
           last == vli_rshift1(high)
<1>1. WORDS \in Nat /\ WORDS >= 3 /\ half \in Nat /\ \A i \in 1 .. 2 * WORDS : x[i] \in Nat
  <2>1. \A i \in 1 .. 2 * WORDS : x[i] \in Nat
    BY ElementOfSeq, Sizes
  <2> QED BY <2>1, Sizes, WordBits
<1>2. /\ Len(low) = WORDS /\ Len(high) = WORDS
      /\ \A i \in 1 .. WORDS : low[i] = x[i] /\ high[i] = x[WORDS + i]
  <2>1. WORDS \in 0 .. Len(x) /\ 2 * WORDS = Len(x) /\ (2 * WORDS) - (WORDS + 1) + 1 = WORDS
    BY <1>1
  <2> QED BY <1>1, <2>1
<1>3. Halved(x) = carried \o last
  BY DEF Halved, Low, High
<1> HIDE DEF low, high, half
<1> DEFINE Word1(z, i, n) == (z[i] \div 2) + IF i < n THEN (z[i + 1] % 2) * half ELSE 0
<1>4. first = [i \in 1 .. WORDS |-> Word1(low, i, WORDS)]
  BY <1>2 DEF vli_rshift1, half
<1>5. last = [i \in 1 .. WORDS |-> Word1(high, i, WORDS)]
  BY <1>2 DEF vli_rshift1, half
<1>6. vli_rshift1(x) = [i \in 1 .. 2 * WORDS |-> Word1(x, i, 2 * WORDS)]
  BY DEF vli_rshift1, half
<1>7. carried = [i \in 1 .. WORDS |-> Word1(x, i, 2 * WORDS)]
  <2>1. carried = [i \in 1 .. WORDS |->
                     IF i = WORDS THEN first[WORDS] + (high[1] % 2) * half ELSE first[i]]
    BY <1>4
  <2> HIDE DEF first
  <2>2. ASSUME NEW i \in 1 .. WORDS
        PROVE  (IF i = WORDS THEN first[WORDS] + (high[1] % 2) * half ELSE first[i])
                 = Word1(x, i, 2 * WORDS)
    <3>1. first[i] = Word1(low, i, WORDS) /\ low[i] = x[i]
      BY <1>2, <1>4
    <3>2. CASE i = WORDS
      <4>1. high[1] = x[WORDS + 1] /\ ~ (i < WORDS) /\ i < 2 * WORDS
        BY <1>1, <1>2, <3>2
      <4>2. x[i] \div 2 \in Nat
        BY <1>1
      <4> QED BY <3>1, <3>2, <4>1, <4>2
    <3>3. CASE i # WORDS
      <4>1. i < WORDS /\ i < 2 * WORDS /\ i + 1 \in 1 .. WORDS
        BY <1>1, <3>3
      <4>2. low[i + 1] = x[i + 1]
        BY <1>2, <4>1
      <4> QED BY <3>1, <3>3, <4>1, <4>2
    <3> QED BY <3>2, <3>3
  <2> HIDE DEF carried, Word1
  <2> QED BY <2>1, <2>2
<1>8. ASSUME NEW i \in 1 .. WORDS
      PROVE  last[i] = Word1(x, WORDS + i, 2 * WORDS)
  <2>1. last[i] = Word1(high, i, WORDS)
    BY <1>5
  <2>2. high[i] = x[WORDS + i] /\ (i < WORDS <=> WORDS + i < 2 * WORDS)
        /\ (i < WORDS => i + 1 \in 1 .. WORDS) /\ WORDS + (i + 1) = (WORDS + i) + 1
    BY <1>1, <1>2
  <2>3. i < WORDS => high[i + 1] = x[(WORDS + i) + 1]
    BY <1>2, <2>2
  <2> HIDE DEF last
  <2> QED BY <2>1, <2>2, <2>3
<1> HIDE DEF Word1, first, carried
<1>9. Len(carried) = WORDS /\ Len(last) = WORDS
  BY <1>1, <1>5, <1>7
<1>10. carried \o last = [i \in 1 .. 2 * WORDS |-> Word1(x, i, 2 * WORDS)]
  <2> DEFINE whole == [i \in 1 .. 2 * WORDS |-> Word1(x, i, 2 * WORDS)]
  <2>0. \A i \in 1 .. 2 * WORDS : Word1(x, i, 2 * WORDS) \in Nat
    <3> SUFFICES ASSUME NEW i \in 1 .. 2 * WORDS
                 PROVE  Word1(x, i, 2 * WORDS) \in Nat
      OBVIOUS
    <3>1. x[i] \div 2 \in Nat
      BY <1>1
    <3>2. i < 2 * WORDS => (x[i + 1] % 2) * half \in Nat
      <4>1. i < 2 * WORDS => i + 1 \in 1 .. 2 * WORDS
        BY <1>1
      <4>2. \A a \in Nat : (a % 2) * half \in Nat
        BY <1>1
      <4> QED BY <1>1, <4>1, <4>2
    <3> QED BY <3>1, <3>2 DEF Word1
  <2>00. carried \in Seq(Nat) /\ last \in Seq(Nat) /\ whole \in Seq(Nat) /\ Len(whole) = 2 * WORDS
    <3>1. carried \in [1 .. WORDS -> Nat]
      <4>1. \A i \in 1 .. WORDS : i \in 1 .. 2 * WORDS
        BY <1>1
      <4> QED BY <1>7, <2>0, <4>1
    <3>2. last \in [1 .. WORDS -> Nat]
      <4>1. \A i \in 1 .. WORDS : WORDS + i \in 1 .. 2 * WORDS
        BY <1>1
      <4>2. \A i \in 1 .. WORDS : last[i] \in Nat
        <5> HIDE DEF last
        <5> QED BY <1>8, <2>0, <4>1
      <4>3. last = [i \in 1 .. WORDS |-> last[i]]
        BY <1>5
      <4> HIDE DEF last
      <4> QED BY <4>2, <4>3
    <3>3. whole \in [1 .. 2 * WORDS -> Nat]
      BY <2>0
    <3>4. \A z : \A n \in Nat : z \in [1 .. n -> Nat] => z \in Seq(Nat) /\ Len(z) = n
      OBVIOUS
    <3>5. 2 * WORDS \in Nat
      BY <1>1
    <3> HIDE DEF last, whole
    <3> QED BY <1>1, <3>1, <3>2, <3>3, <3>4, <3>5
  <2>2. ASSUME NEW i \in 1 .. WORDS + WORDS
        PROVE  (IF i <= WORDS THEN carried[i] ELSE last[i - WORDS]) = Word1(x, i, 2 * WORDS)
    <3>1. CASE i <= WORDS
      <4>1. i \in 1 .. WORDS
        BY <1>1, <3>1
      <4> QED BY <1>7, <3>1, <4>1
    <3>2. CASE i > WORDS
      <4>1. PICK j \in 1 .. WORDS : i = WORDS + j
        <5>1. i - WORDS \in 1 .. WORDS /\ i = WORDS + (i - WORDS)
          BY <1>1, <3>2
        <5> QED BY <5>1
      <4>2. i - WORDS = j /\ ~ (i <= WORDS)
        BY <1>1, <3>2, <4>1
      <4> QED BY <1>8, <4>1, <4>2
    <3> QED BY <1>1, <3>1, <3>2
  <2>3. WORDS + WORDS = 2 * WORDS
    BY <1>1
  <2> HIDE DEF last
  <2> DEFINE both == carried \o last
  <2>4. /\ both \in Seq(Nat) /\ Len(both) = 2 * WORDS
        /\ \A i \in 1 .. WORDS + WORDS :
             both[i] = IF i <= WORDS THEN carried[i] ELSE last[i - WORDS]
    <3>1. carried \in Seq(Nat) /\ last \in Seq(Nat)
      BY <2>00
    <3>2. /\ both \in Seq(Nat) /\ Len(both) = Len(carried) + Len(last)
          /\ \A i \in 1 .. Len(carried) + Len(last) :
               both[i] = IF i <= Len(carried) THEN carried[i] ELSE last[i - Len(carried)]
      BY <3>1, ConcatProperties
    <3> HIDE DEF both, whole
    <3> QED BY <1>9, <2>3, <3>2
  <2>5. \A i \in 1 .. 2 * WORDS : whole[i] = Word1(x, i, 2 * WORDS)
    OBVIOUS
  <2> HIDE DEF both, whole
  <2>6. both = whole
    <3>1. \A i \in 1 .. Len(both) : both[i] = whole[i]
      BY <2>2, <2>3, <2>4, <2>5
    <3> QED BY <2>00, <2>4, <3>1, SeqEqual
  <2> QED BY <2>6 DEF both, whole
<1> QED BY <1>3, <1>6, <1>10

\* Half of the number.
LEMMA HalvedRight ==
  ASSUME NEW x \in Seq(Word), Len(x) = 2 * WORDS
  PROVE  /\ Halved(x) \in Seq(Word) /\ Len(Halved(x)) = 2 * WORDS
         /\ Num(Halved(x)) = Num(x) \div 2
<1>1. Len(x) > 0
  BY Sizes
<1> QED BY <1>1, HalvedWhole, ShiftRight

-----------------------------------------------------------------------------
(* omega_mult_secp256k1()                                                  *)

\* One word of the product with OMEGA, and the function that omega_mult()
\* chooses.
OmegaWord(x, before) ==
  [words |-> Append(before.words, (OMEGA * x + before.carry) % WORD),
   carry |-> (OMEGA * x + before.carry) \div WORD]

OmegasUpTo(x, f) ==
  f = [k \in 0 .. WORDS |->
         IF k = 0 THEN [words |-> << >>, carry |-> 0] ELSE OmegaWord(x[k], f[k - 1])]

\* The words of x times OMEGA, and the carry out of the last.
OmegaLow(x) == (CHOOSE f : OmegasUpTo(x, f))[WORDS]

\* A word times OMEGA and a carry is a word and a carry.
LEMMA OmegaStep ==
  ASSUME NEW x \in Word, NEW c \in Word
  PROVE  LET p == OMEGA * x + c
         IN  p % WORD \in Word /\ p \div WORD \in Word
               /\ (p % WORD) + WORD * (p \div WORD) = x * OMEGA + 0 + c
<1> DEFINE p == OMEGA * x + c
<1>1. WORD \in Nat /\ WORD >= 4 /\ OMEGA \in 1 .. WORD - 1 /\ x \in 0 .. WORD - 1 /\ c \in 0 .. WORD - 1
  BY Sizes DEF Word
<1>2. p \in Nat /\ p = x * OMEGA + 0 + c
  BY <1>1
<1>3. p < WORD * WORD
  <2>1. (WORD - 1 - OMEGA) * x >= 0 /\ (WORD - 1) * (WORD - 1 - x) >= 0
    BY <1>1
  <2>2. /\ (WORD - 1 - OMEGA) * x = (WORD - 1) * x - OMEGA * x
        /\ (WORD - 1) * (WORD - 1 - x) = (WORD - 1) * (WORD - 1) - (WORD - 1) * x
        /\ (WORD - 1) * (WORD - 1) = WORD * WORD - 2 * WORD + 1
        /\ (WORD - 1) * x \in Int /\ OMEGA * x \in Int /\ WORD * WORD \in Int
    BY <1>1
  <2> QED BY <1>1, <2>1, <2>2
<1> HIDE DEF p
<1>4. p % WORD \in 0 .. WORD - 1 /\ p \div WORD \in Nat /\ p = (p \div WORD) * WORD + (p % WORD)
  BY <1>1, <1>2
<1>5. p \div WORD < WORD
  <2>1. \A q, m \in Nat : q * WORD + m < WORD * WORD => q < WORD
    <3> SUFFICES ASSUME NEW q \in Nat, NEW m \in Nat,
                        q * WORD + m < WORD * WORD, q >= WORD
                 PROVE  FALSE
      BY <1>1
    <3>1. (q - WORD) * WORD >= 0 /\ (q - WORD) * WORD = q * WORD - WORD * WORD
      BY <1>1
    <3>2. q * WORD \in Int /\ WORD * WORD \in Int
      BY <1>1
    <3> QED BY <3>1, <3>2
  <2>2. p % WORD \in Nat
    BY <1>1, <1>4
  <2> QED BY <1>3, <1>4, <2>1, <2>2
<1>6. (p \div WORD) * WORD = WORD * (p \div WORD)
  BY <1>1, <1>4
<1>7. p % WORD \in Int /\ (p \div WORD) * WORD \in Int
  BY <1>1, <1>4
<1>8. (p % WORD) + WORD * (p \div WORD) = x * OMEGA + 0 + c
  BY <1>2, <1>4, <1>6, <1>7
<1> QED BY <1>1, <1>4, <1>5, <1>8 DEF p, Word

\* The words and the carry are the product.
LEMMA OmegaLowRight ==
  ASSUME NEW x \in Seq(Word), Len(x) = WORDS
  PROVE  /\ OmegaLow(x).words \in Seq(Word) /\ Len(OmegaLow(x).words) = WORDS
         /\ OmegaLow(x).carry \in Word
         /\ Num(OmegaLow(x).words) + OmegaLow(x).carry * CAPACITY = Num(x) * OMEGA
<1> DEFINE n == WORDS
           A == [words : Seq(Word), carry : Word]
           start == [words |-> << >>, carry |-> 0]
           f == CHOOSE f : OmegasUpTo(x, f)
<1>0. n \in Nat /\ start \in A /\ WORD \in Nat /\ OMEGA \in Nat
  BY Sizes
<1>1. ASSUME NEW before \in A, NEW k \in 1 .. n
      PROVE  /\ OmegaWord(x[k], before) \in A
             /\ OmegaWord(x[k], before).words
                  = Append(before.words, (OMEGA * x[k] + before.carry) % WORD)
             /\ (OMEGA * x[k] + before.carry) % WORD \in Word
             /\ ((OMEGA * x[k] + before.carry) % WORD) + WORD * OmegaWord(x[k], before).carry
                  = x[k] * OMEGA + 0 + before.carry
  <2>1. x[k] \in Word /\ before.carry \in Word /\ before.words \in Seq(Word)
    BY ElementOfSeq
  <2> DEFINE p == OMEGA * x[k] + before.carry
             d == p % WORD
             after == p \div WORD
  <2>2. d \in Word /\ after \in Word /\ d + WORD * after = x[k] * OMEGA + 0 + before.carry
    BY <2>1, OmegaStep
  <2>3. OmegaWord(x[k], before) = [words |-> Append(before.words, d), carry |-> after]
    BY DEF OmegaWord
  <2> HIDE DEF d, after
  <2>4. Append(before.words, d) \in Seq(Word)
    BY <2>1, <2>2
  <2>5. /\ OmegaWord(x[k], before) \in A
        /\ OmegaWord(x[k], before).words = Append(before.words, d)
        /\ OmegaWord(x[k], before).carry = after
    BY <2>2, <2>3, <2>4
  <2> QED BY <2>2, <2>5 DEF d
<1>2. OmegasUpTo(x, f)
  <2> DEFINE step == [k \in 1 .. n |-> [before \in A |-> OmegaWord(x[k], before)]]
  <2>1. step \in [1 .. n -> [A -> A]]
    BY <1>1
  <2>2. PICK g : Unfolds(g, n, A, start, step)
    <3> HIDE DEF step, n, A, start
    <3> QED BY <1>0, <2>1, Recursion
  <2>3. \A k \in 1 .. n : \A before \in A : step[k][before] = OmegaWord(x[k], before)
    OBVIOUS
  <2>4. \A k \in 0 .. n : g[k] = IF k = 0 THEN start ELSE OmegaWord(x[k], g[k - 1])
    <3> HIDE DEF step, A, start
    <3>1. \A k \in 0 .. n : k = 0 \/ (k \in 1 .. n /\ k - 1 \in 0 .. n /\ k # 0)
      BY <1>0
    <3> HIDE DEF n
    <3> QED BY <2>2, <2>3, <3>1 DEF Unfolds
  <2>5. g = [k \in 0 .. n |-> g[k]]
    <3> HIDE DEF step, A
    <3> QED BY <2>2 DEF Unfolds
  <2>6. OmegasUpTo(x, g)
    <3> HIDE DEF step, A
    <3> QED BY <2>4, <2>5 DEF OmegasUpTo
  <2> QED BY <2>6
<1>3. OmegaLow(x) = f[n]
  BY DEF OmegaLow
<1> HIDE DEF f
<1>4. f[0] = start /\ \A k \in 1 .. n : f[k] = OmegaWord(x[k], f[k - 1])
  <2>1. \A k \in 0 .. n : f[k] = IF k = 0 THEN start ELSE OmegaWord(x[k], f[k - 1])
    BY <1>2 DEF OmegasUpTo
  <2> HIDE DEF start
  <2>2. 0 \in 0 .. n /\ \A k \in 1 .. n : k \in 0 .. n /\ k # 0
    BY <1>0
  <2> QED BY <2>1, <2>2
<1> HIDE DEF n
<1>5. \A k \in 0 .. n : f[k] \in A
  <2> DEFINE T == {k \in 0 .. n : f[k] \in A}
  <2> HIDE DEF A, start
  <2>1. 0 \in T /\ 0 \in Int /\ n \in Int
    BY <1>0, <1>4
  <2>2. ASSUME NEW k \in 0 .. n - 1, k \in T
        PROVE  k + 1 \in T
    <3>1. k + 1 \in 1 .. n /\ k + 1 \in 0 .. n /\ (k + 1) - 1 = k
      BY <1>0
    <3> QED BY <1>1, <1>4, <2>2, <3>1
  <2>3. \A k \in 0 .. n : k \in T
    <3> HIDE DEF T
    <3> QED BY <2>1, <2>2, RangeInduction
  <2> QED BY <2>3
<1> DEFINE d == [k \in 1 .. n |-> (OMEGA * x[k] + f[k - 1].carry) % WORD]
           w == [k \in 0 .. n |-> f[k].words]
           c == [k \in 0 .. n |-> f[k].carry]
           scaled == [k \in 1 .. n |-> x[k] * OMEGA]
           zeros == [k \in 1 .. n |-> 0]
<1>6. ASSUME NEW k \in 1 .. n
      PROVE  /\ k - 1 \in 0 .. n /\ k \in 0 .. n /\ d[k] \in Word
             /\ w[k] = Append(w[k - 1], d[k])
             /\ d[k] + WORD * c[k] = scaled[k] + zeros[k] + c[k - 1]
  <2>1. k - 1 \in 0 .. n /\ k \in 0 .. n
    BY <1>0
  <2>2. f[k - 1] \in A /\ f[k] = OmegaWord(x[k], f[k - 1])
    BY <1>4, <1>5, <2>1
  <2> HIDE DEF A
  <2>3. /\ f[k].words = Append(f[k - 1].words, (OMEGA * x[k] + f[k - 1].carry) % WORD)
        /\ (OMEGA * x[k] + f[k - 1].carry) % WORD \in Word
        /\ ((OMEGA * x[k] + f[k - 1].carry) % WORD) + WORD * f[k].carry
             = x[k] * OMEGA + 0 + f[k - 1].carry
    BY <1>1, <2>2
  <2>4. /\ d[k] = (OMEGA * x[k] + f[k - 1].carry) % WORD
        /\ w[k] = f[k].words /\ w[k - 1] = f[k - 1].words
        /\ c[k] = f[k].carry /\ c[k - 1] = f[k - 1].carry
        /\ scaled[k] = x[k] * OMEGA /\ zeros[k] = 0
    BY <2>1
  <2> HIDE DEF d, w, c, scaled, zeros
  <2> QED BY <2>1, <2>3, <2>4
<1>7. d \in [1 .. n -> Word] /\ c \in [0 .. n -> Word]
  <2>1. \A k \in 0 .. n : f[k].carry \in Word
    BY <1>5
  <2>2. \A k \in 1 .. n : (OMEGA * x[k] + f[k - 1].carry) % WORD \in Word
    BY <1>6
  <2> QED BY <2>1, <2>2
<1>8. w[0] = << >> /\ c[0] = 0 /\ w[n] = f[n].words /\ c[n] = f[n].carry
  BY <1>0, <1>4
<1>08. x \in Seq(Nat) /\ Len(x) = n /\ \A k \in 1 .. n : x[k] \in Nat
  <2>1. x \in Seq(Nat) /\ Len(x) = n
    BY NumRange DEF n
  <2> QED BY <2>1, ElementOfSeq
<1>09. /\ scaled \in Seq(Nat) /\ Len(scaled) = n /\ zeros \in Seq(Nat) /\ Len(zeros) = n
       /\ \A k \in 1 .. n : scaled[k] = x[k] * OMEGA /\ zeros[k] = x[k] * 0
  BY <1>0, <1>08
<1> HIDE DEF d, w, c, scaled, zeros
<1>9. w[n] = d /\ w[n] \in Seq(Word) /\ Len(w[n]) = n
  <2>1. Collects(n, d, w)
    BY <1>6, <1>8 DEF Collects
  <2> QED BY <1>0, <1>7, <2>1, Collected
<1>10. NumberOf(scaled, WORD) = Num(x) * OMEGA /\ NumberOf(zeros, WORD) = 0
  <2>1. ASSUME NEW z \in Seq(Nat), NEW t \in Nat, Len(z) = n, \A i \in 1 .. n : z[i] = x[i] * t
        PROVE  NumberOf(z, WORD) = NumberOf(x, WORD) * t
    <3>1. x \in Seq(Nat) /\ WORD \in Nat /\ Len(z) = Len(x) /\ \A i \in 1 .. Len(x) : z[i] = x[i] * t
      BY <1>0, <1>08, <2>1
    <3> QED BY <3>1, NumberScale
  <2>2. NumberOf(x, WORD) * 0 = 0
    BY <1>0, <1>08, NumberSteps
  <2>3. NumberOf(scaled, WORD) = NumberOf(x, WORD) * OMEGA
    BY <1>0, <1>09, <2>1
  <2>4. NumberOf(zeros, WORD) = NumberOf(x, WORD) * 0
    BY <1>0, <1>09, <2>1
  <2> QED BY <2>2, <2>3, <2>4 DEF Num
<1>11. Num(w[n]) + c[n] * Power(WORD, n) = Num(x) * OMEGA
  <2> DEFINE q == w[n]
  <2>1. q \in Seq(Nat) /\ Len(q) = n
    BY <1>9, NumRange
  <2>2. c \in [0 .. Len(q) -> Nat]
    BY <1>7, <2>1, Sizes
  <2>3. Carries(WORD, scaled, zeros, q, c)
    BY <1>6, <1>8, <1>9 DEF Carries
  <2> HIDE DEF q
  <2>4. SumSoFar(NumberOf(scaled, WORD) + c[0], NumberOf(zeros, WORD), NumberOf(q, WORD),
                 c[Len(q)], Power(WORD, Len(q)))
    BY <1>0, <1>09, <2>1, <2>2, <2>3, NumbersSum
  <2>5. NumberOf(scaled, WORD) \in Nat /\ NumberOf(q, WORD) \in Nat
    BY <1>0, <1>09, <2>1, NumberSteps
  <2>6. NumberOf(q, WORD) + c[n] * Power(WORD, n) = NumberOf(scaled, WORD)
    BY <1>8, <1>10, <2>1, <2>4, <2>5 DEF SumSoFar
  <2> QED BY <1>10, <2>6 DEF Num, q
<1>12. c[n] \in Word
  BY <1>0, <1>7
<1>13. Power(WORD, n) = CAPACITY
  BY DEF n, CAPACITY
<1> QED BY <1>3, <1>8, <1>9, <1>11, <1>12, <1>13 DEF n

\* A word after the others, and a word before them.
LEMMA NumAppend ==
  ASSUME NEW w \in Seq(Word), NEW d \in Word, NEW n \in Nat, Len(w) = n
  PROVE  Num(Append(w, d)) = Num(w) + d * Power(WORD, n)
<1>1. w \in Seq(Nat) /\ d \in Nat /\ WORD \in Nat
  BY NumRange, Sizes
<1>2. \A digits \in Seq(Nat) : \A e \in Nat :
        NumberOf(Append(digits, e), WORD)
          = NumberOf(digits, WORD) + e * Power(WORD, Len(digits))
  BY <1>1, NumberSteps
<1> QED BY <1>1, <1>2, Zenon DEF Num

\* The same before them.
LEMMA NumPrepend ==
  ASSUME NEW w \in Seq(Word), NEW d \in Word
  PROVE  Num(<<d>> \o w) = d + WORD * Num(w)
<1>1. w \in Seq(Nat) /\ d \in Nat /\ WORD \in Nat /\ <<d>> \in Seq(Nat) /\ Len(<<d>>) = 1
  BY NumRange, Sizes
<1>2. NumberOf(<<d>>, WORD) = d
  <2>1. << >> \in Seq(Word) /\ Len(<< >>) = 0 /\ Append(<< >>, d) = <<d>>
    OBVIOUS
  <2>2. Num(Append(<< >>, d)) = Num(<< >>) + d * Power(WORD, 0)
    BY <2>1, NumAppend
  <2>3. Num(<< >>) = 0 /\ Power(WORD, 0) = 1
    BY <1>1, NumberSteps, PowerSteps DEF Num
  <2>4. 0 + d * 1 = d
    BY <1>1
  <2>5. Num(<<d>>) = d
    BY <2>1, <2>2, <2>3, <2>4
  <2> QED BY <2>5 DEF Num
<1>3. Power(WORD, 1) = WORD
  <2>1. Power(WORD, 0) = 1 /\ Power(WORD, 0 + 1) = WORD * Power(WORD, 0)
    BY <1>1, PowerSteps
  <2>2. 0 + 1 = 1 /\ WORD * 1 = WORD
    BY <1>1
  <2> QED BY <2>1, <2>2
<1> DEFINE first == <<d>>
<1>4. first \in Seq(Nat) /\ Len(first) = 1 /\ NumberOf(first, WORD) = d
  BY <1>1, <1>2
<1> HIDE DEF first
<1>5. NumberOf(first \o w, WORD) = NumberOf(first, WORD) + Power(WORD, Len(first)) * NumberOf(w, WORD)
  BY <1>1, <1>4, NumberConcat
<1>6. NumberOf(first \o w, WORD) = d + WORD * NumberOf(w, WORD)
  BY <1>3, <1>4, <1>5
<1> QED BY <1>6 DEF Num, first

\* The product with WORD + OMEGA, in two words more.
LEMMA OmegaRight ==
  ASSUME NEW x \in Seq(Word), Len(x) = WORDS
  PROVE  /\ omega_mult(x) \in Seq(Word) /\ Len(omega_mult(x)) = WORDS + 2
         /\ Num(omega_mult(x)) = Num(x) * (WORD + OMEGA)
<1> DEFINE low == OmegaLow(x)
           shifted == Append(Tail(low.words), low.carry)
           high == vli_add(shifted, x)
           first == low.words[1]
           rest == Tail(low.words)
           p == Power(WORD, WORDS - 1)
<1>1. /\ WORDS \in Nat /\ WORDS >= 3 /\ WORD \in Nat /\ WORD >= 4 /\ OMEGA \in Nat /\ p \in Nat
      /\ CAPACITY = WORD * p /\ CAPACITY \in Nat
  <2>1. WORDS - 1 \in Nat /\ (WORDS - 1) + 1 = WORDS /\ WORD \in Nat
    BY Sizes
  <2>2. Power(WORD, (WORDS - 1) + 1) = WORD * p /\ p \in Nat
    BY <2>1, PowerSteps
  <2> QED BY <2>1, <2>2, Sizes DEF CAPACITY
<1>2. /\ low.words \in Seq(Word) /\ Len(low.words) = WORDS /\ low.carry \in Word
      /\ Num(low.words) + low.carry * CAPACITY = Num(x) * OMEGA
  BY OmegaLowRight
<1>3. omega_mult(x) = (<<first>> \o high.words) \o <<high.carry>>
  BY DEF omega_mult, OmegaLow, OmegasUpTo, OmegaWord
<1> HIDE DEF low
<1>4. /\ first \in Word /\ rest \in Seq(Word) /\ Len(rest) = WORDS - 1
      /\ low.words = <<first>> \o rest
  <2>1. low.words # << >>
    BY <1>1, <1>2
  <2>2. first \in Word /\ rest \in Seq(Word) /\ Len(rest) = WORDS - 1
    BY <1>1, <1>2, <2>1
  <2>3. low.words = <<first>> \o rest
    <3>1. <<first>> \in Seq(Word) /\ Len(<<first>>) = 1 /\ <<first>>[1] = first
      BY <2>2
    <3> DEFINE whole == <<first>> \o rest
    <3>2. /\ whole \in Seq(Word) /\ Len(whole) = WORDS
          /\ \A i \in 1 .. WORDS : whole[i] = IF i <= 1 THEN first ELSE rest[i - 1]
      BY <1>1, <2>2, <3>1
    <3>3. \A i \in 1 .. WORDS : i > 1 => rest[i - 1] = low.words[i]
      BY <1>1, <1>2, <2>1
    <3>4. \A i \in 1 .. WORDS : i <= 1 => i = 1
      BY <1>1
    <3>5. \A i \in 1 .. WORDS : low.words[i] = whole[i]
      <4> HIDE DEF whole, rest
      <4>1. \A i \in 1 .. WORDS : i <= 1 \/ (i > 1 /\ ~ (i <= 1))
        BY <1>1
      <4> QED BY <3>2, <3>3, <3>4, <4>1
    <3> HIDE DEF whole
    <3>6. low.words = whole
      BY <1>2, <3>2, <3>5, SeqEqual
    <3> QED BY <3>6 DEF whole
  <2> QED BY <2>2, <2>3
<1>5. shifted \in Seq(Word) /\ Len(shifted) = WORDS
  BY <1>1, <1>2, <1>4
<1> HIDE DEF rest, first
<1>6. Num(low.words) = first + WORD * Num(rest) /\ Num(rest) \in Nat /\ first \in Nat
  <2>1. Num(<<first>> \o rest) = first + WORD * Num(rest)
    BY <1>4, NumPrepend
  <2> QED BY <1>4, <2>1, NumRange, Sizes
<1>7. Num(shifted) = Num(rest) + low.carry * p
  <2>1. WORDS - 1 \in Nat
    BY <1>1
  <2> QED BY <1>2, <1>4, <2>1, NumAppend DEF rest
<1> HIDE DEF shifted
<1>8. /\ high.words \in Seq(Word) /\ Len(high.words) = WORDS /\ high.carry \in 0 .. 1
      /\ Num(high.words) + high.carry * CAPACITY = Num(shifted) + Num(x)
  BY <1>5, AddRight DEF CAPACITY
<1> HIDE DEF high
<1> DEFINE words == <<first>> \o high.words
           all == words \o <<high.carry>>
<1>9. high.carry \in Word /\ high.carry \in Nat
  <2>1. 0 .. 1 \subseteq Word /\ 0 .. 1 \subseteq Nat
    BY <1>1 DEF Word
  <2> QED BY <1>8, <2>1
<1>10. words \in Seq(Word) /\ Len(words) = WORDS + 1
  BY <1>1, <1>4, <1>8
<1>11. all \in Seq(Word) /\ Len(all) = WORDS + 2
  <2> HIDE DEF words
  <2> QED BY <1>1, <1>9, <1>10
<1>12. Num(words) = first + WORD * Num(high.words) /\ Num(high.words) \in Nat
  <2> HIDE DEF words
  <2>1. Num(<<first>> \o high.words) = first + WORD * Num(high.words)
    BY <1>4, <1>8, NumPrepend
  <2> QED BY <1>8, <2>1, NumRange DEF words
<1>13. Num(all) = Num(words) + high.carry * (WORD * CAPACITY)
  <2>1. all = Append(words, high.carry)
    <3> HIDE DEF words
    <3> QED BY <1>9, <1>10
  <2>2. Power(WORD, WORDS + 1) = WORD * CAPACITY
    BY <1>1, PowerSteps DEF CAPACITY
  <2>3. WORDS + 1 \in Nat
    BY <1>1
  <2> HIDE DEF words, all
  <2>4. Num(Append(words, high.carry)) = Num(words) + high.carry * Power(WORD, WORDS + 1)
    BY <1>9, <1>10, <2>3, NumAppend
  <2> QED BY <2>1, <2>2, <2>4
<1>14. Num(all) = Num(x) * (WORD + OMEGA)
  <2> DEFINE nx == Num(x)
             nr == Num(rest)
             nh == Num(high.words)
             c == low.carry
             h == high.carry
  <2>1. /\ nx \in Nat /\ nr \in Nat /\ nh \in Nat /\ c \in Nat /\ h \in Nat /\ first \in Nat
    BY <1>2, <1>6, <1>9, <1>12, NumRange, Sizes
  <2>2. /\ (first + WORD * nr) + c * (WORD * p) = nx * OMEGA
        /\ nh + h * CAPACITY = (nr + c * p) + nx
    BY <1>1, <1>2, <1>6, <1>7, <1>8
  <2> HIDE DEF nx, nr, nh, c, h, p
  <2>3. WORD * (nh + h * CAPACITY) = WORD * nh + h * (WORD * CAPACITY)
        /\ WORD * nh \in Nat /\ h * (WORD * CAPACITY) \in Nat
    BY <1>1, <2>1
  <2>4. WORD * ((nr + c * p) + nx) = (WORD * nr + c * (WORD * p)) + WORD * nx
        /\ WORD * nr \in Nat /\ c * (WORD * p) \in Nat /\ WORD * nx \in Nat
    BY <1>1, <2>1
  <2>5. nx * (WORD + OMEGA) = WORD * nx + nx * OMEGA /\ nx * OMEGA \in Nat
    BY <1>1, <2>1
  <2>6. Num(all) = (first + WORD * nh) + h * (WORD * CAPACITY)
    BY <1>12, <1>13 DEF nh, h
  <2>7. WORD * nh + h * (WORD * CAPACITY) = (WORD * nr + c * (WORD * p)) + WORD * nx
    BY <2>2, <2>3, <2>4
  <2> DEFINE e1 == WORD * nh
             e2 == h * (WORD * CAPACITY)
             e3 == WORD * nr
             e4 == c * (WORD * p)
             e5 == WORD * nx
             e6 == nx * OMEGA
  <2>8. /\ e1 \in Nat /\ e2 \in Nat /\ e3 \in Nat /\ e4 \in Nat /\ e5 \in Nat /\ e6 \in Nat
        /\ (first + e3) + e4 = e6 /\ e1 + e2 = (e3 + e4) + e5
        /\ Num(all) = (first + e1) + e2 /\ nx * (WORD + OMEGA) = e5 + e6
    BY <2>2, <2>3, <2>4, <2>5, <2>6, <2>7
  <2> HIDE DEF e1, e2, e3, e4, e5, e6, all
  <2>9. Num(all) = nx * (WORD + OMEGA)
    BY <2>1, <2>8
  <2> QED BY <2>9 DEF nx
<1> QED BY <1>3, <1>11, <1>14

-----------------------------------------------------------------------------
(* Congruences.                                                            *)

\* x and y differ by a multiple of m.
Same(x, y, m) == \E k \in Int : x = y + k * m

\* It is an equivalence.
LEMMA SameEquivalence ==
  ASSUME NEW m \in Int
  PROVE  /\ \A x \in Int : Same(x, x, m)
         /\ \A x, y \in Int : Same(x, y, m) => Same(y, x, m)
         /\ \A x, y, t \in Int : Same(x, y, m) /\ Same(y, t, m) => Same(x, t, m)
<1>1. ASSUME NEW x \in Int
      PROVE  Same(x, x, m)
  <2>1. x = x + 0 * m /\ 0 \in Int
    OBVIOUS
  <2> QED BY <2>1 DEF Same
<1>2. ASSUME NEW x \in Int, NEW y \in Int, Same(x, y, m)
      PROVE  Same(y, x, m)
  <2>1. PICK k \in Int : x = y + k * m
    BY <1>2 DEF Same
  <2>2. (0 - k) * m = 0 - k * m /\ k * m \in Int /\ 0 - k \in Int
    OBVIOUS
  <2>3. y = x + (0 - k) * m
    BY <2>1, <2>2
  <2> QED BY <2>2, <2>3 DEF Same
<1>3. ASSUME NEW x \in Int, NEW y \in Int, NEW t \in Int, Same(x, y, m), Same(y, t, m)
      PROVE  Same(x, t, m)
  <2>1. PICK k \in Int : x = y + k * m
    BY <1>3 DEF Same
  <2>2. PICK l \in Int : y = t + l * m
    BY <1>3 DEF Same
  <2>3. (l + k) * m = l * m + k * m /\ k * m \in Int /\ l * m \in Int /\ l + k \in Int
    OBVIOUS
  <2>4. x = t + (l + k) * m
    BY <2>1, <2>2, <2>3
  <2> QED BY <2>3, <2>4 DEF Same
<1> QED BY <1>1, <1>2, <1>3

\* Sums, differences and products of congruent numbers.
LEMMA SameOperations ==
  ASSUME NEW m \in Int, NEW x \in Int, NEW y \in Int, Same(x, y, m),
         NEW t \in Int, NEW u \in Int, Same(t, u, m)
  PROVE  Same(x + t, y + u, m) /\ Same(x - t, y - u, m) /\ Same(x * t, y * u, m)
<1>1. PICK k \in Int : x = y + k * m
  BY DEF Same
<1>2. PICK l \in Int : t = u + l * m
  BY DEF Same
<1>3. k * m \in Int /\ l * m \in Int /\ k + l \in Int /\ k - l \in Int
      /\ (k + l) * m = k * m + l * m /\ (k - l) * m = k * m - l * m
  OBVIOUS
<1>4. x + t = (y + u) + (k + l) * m
  BY <1>1, <1>2, <1>3
<1>5. x - t = (y - u) + (k - l) * m
  BY <1>1, <1>2, <1>3
<1>6. x * t = y * u + (y * l + k * t) * m
  <2>1. x * t = y * t + (k * t) * m
    BY <1>1
  <2>2. y * t = y * u + (y * l) * m
    BY <1>2
  <2>3. (y * l + k * t) * m = (y * l) * m + (k * t) * m
        /\ (y * l) * m \in Int /\ (k * t) * m \in Int /\ y * u \in Int
    OBVIOUS
  <2> QED BY <2>1, <2>2, <2>3
<1>7. y * l + k * t \in Int
  OBVIOUS
<1> QED BY <1>3, <1>4, <1>5, <1>6, <1>7 DEF Same

\* A number is congruent to its remainder; congruent numbers have the same.
LEMMA SameRemainder ==
  ASSUME NEW m \in Nat, m > 0, NEW x \in Int
  PROVE  /\ x % m \in 0 .. m - 1 /\ Same(x, x % m, m) /\ Same(x % m, x, m)
         /\ \A y \in Int : Same(x, y, m) <=> x % m = y % m
         /\ \A y \in 0 .. m - 1 : Same(x, y, m) => x % m = y
<1>1. ASSUME NEW y \in Int
      PROVE  y % m \in 0 .. m - 1 /\ Same(y, y % m, m) /\ Same(y % m, y, m)
  <2>1. y % m \in 0 .. m - 1 /\ y \div m \in Int /\ y = (y % m) + (y \div m) * m
    OBVIOUS
  <2>2. Same(y, y % m, m)
    BY <2>1 DEF Same
  <2>3. m \in Int /\ y % m \in Int
    BY <2>1
  <2>4. Same(y % m, y, m)
    BY <2>2, <2>3, SameEquivalence
  <2> QED BY <2>1, <2>2, <2>4
<1>2. ASSUME NEW y \in 0 .. m - 1, Same(x, y, m)
      PROVE  x % m = y
  <2>1. PICK k \in Int : x = y + k * m
    BY <1>2 DEF Same
  <2>2. x = k * m + y
    BY <2>1
  <2> QED BY <2>2, DivideUnique
<1>3. ASSUME NEW y \in Int, Same(x, y, m)
      PROVE  x % m = y % m
  <2>1. y % m \in 0 .. m - 1 /\ y % m \in Int /\ m \in Int
    BY <1>1
  <2>2. Same(x, y % m, m)
    BY <1>1, <1>3, <2>1, SameEquivalence
  <2> QED BY <1>2, <2>1, <2>2
<1>4. ASSUME NEW y \in Int, x % m = y % m
      PROVE  Same(x, y, m)
  <2>1. Same(x, y % m, m) /\ Same(y % m, y, m) /\ m \in Int /\ y % m \in Int
    BY <1>1, <1>4
  <2> QED BY <2>1, SameEquivalence
<1> QED BY <1>1, <1>2, <1>3, <1>4

\* No number but 1 and p divides p.
IsPrime(p) == p \in Nat /\ p > 1 /\ \A d \in 2 .. p - 1 : p % d # 0

\* A prime that divides a product of smaller numbers divides none but 0.
LEMMA Euclid ==
  ASSUME NEW p, IsPrime(p), NEW x \in 1 .. p - 1, NEW y \in 1 .. p - 1
  PROVE  (x * y) % p # 0
<1> DEFINE S == {d \in 1 .. p - 1 : (d * y) % p = 0}
<1>1. p \in Nat /\ p > 1 /\ (\A d \in 2 .. p - 1 : p % d # 0) /\ p > 0
  BY DEF IsPrime
<1> SUFFICES ASSUME (x * y) % p = 0
             PROVE  FALSE
  OBVIOUS
<1>2. PICK d \in S : \A e \in S : d <= e
  <2>1. x \in S
    OBVIOUS
  <2>2. S \in SUBSET Nat
    BY <1>1
  <2> HIDE DEF S
  <2> QED BY <2>1, <2>2, Smallest
<1>3. d \in 1 .. p - 1 /\ (d * y) % p = 0
  OBVIOUS
<1>4. d # 1
  <2> SUFFICES ASSUME d = 1
               PROVE  FALSE
    OBVIOUS
  <2>1. d * y = y /\ y % p = y
    BY <1>1
  <2> QED BY <1>3, <2>1
<1>5. d \in 2 .. p - 1 /\ d \in Nat /\ d > 0
  BY <1>1, <1>3, <1>4
<1> DEFINE q == p \div d
           r == p % d
<1>6. q \in Nat /\ r \in 0 .. d - 1 /\ p = q * d + r
  BY <1>1, <1>5
<1>7. r # 0
  BY <1>1, <1>5
<1> HIDE DEF q, r, S
<1>8. (r * y) % p = 0
  <2>1. PICK k \in Int : d * y = 0 + k * p
    <3>1. d * y \in Int
      BY <1>1, <1>5
    <3>2. Same(d * y, (d * y) % p, p)
      BY <1>1, <3>1, SameRemainder
    <3> QED BY <1>3, <3>2 DEF Same
  <2>2. r * y = p * y - q * (d * y)
    BY <1>1, <1>5, <1>6
  <2>3. q * (d * y) = (q * k) * p
    <3>1. q * (k * p) = (q * k) * p /\ k * p \in Int
      BY <1>1, <1>6
    <3>2. d * y = k * p
      BY <2>1, <3>1
    <3> QED BY <3>1, <3>2
  <2>4. r * y = 0 + (y - q * k) * p
    <3>1. (y - q * k) * p = p * y - (q * k) * p /\ (y - q * k) * p \in Int
      BY <1>1, <1>6
    <3> QED BY <2>2, <2>3, <3>1
  <2>5. r * y \in Int /\ y - q * k \in Int /\ 0 \in 0 .. p - 1
    BY <1>1, <1>5, <1>6
  <2>6. Same(r * y, 0, p)
    BY <2>4, <2>5 DEF Same
  <2> QED BY <1>1, <2>5, <2>6, SameRemainder
<1>9. r \in 1 .. p - 1 /\ r < d
  BY <1>1, <1>5, <1>6, <1>7
<1>10. r \in S
  BY <1>8, <1>9 DEF S
<1> QED BY <1>2, <1>5, <1>9, <1>10

-----------------------------------------------------------------------------
(* uECC_vli_modAdd(), uECC_vli_modSub()                                    *)

\* As many words as the curve has.
IsNumber(x) == x \in Seq(Word) /\ Len(x) = WORDS

\* A number has the words that stand for it.
LEMMA NumberOfWords ==
  ASSUME NEW m \in 0 .. CAPACITY - 1
  PROVE  IsNumber(WordsOf(m, WORDS)) /\ Num(WordsOf(m, WORDS)) = m
<1>1. WORDS \in Nat /\ m \in Nat /\ CAPACITY \in Nat /\ CAPACITY > 0
  BY Sizes
<1>2. m % CAPACITY = m
  BY <1>1
<1> QED BY <1>1, <1>2, NumOfWords DEF IsNumber, CAPACITY

\* The numbers of words that are the same number.
LEMMA NumberFits ==
  ASSUME NEW x, IsNumber(x)
  PROVE  x \in Seq(Word) /\ Len(x) = WORDS /\ Num(x) \in 0 .. CAPACITY - 1
<1>1. x \in Seq(Word) /\ Len(x) = WORDS
  BY DEF IsNumber
<1>2. Num(x) \in Nat /\ Num(x) < CAPACITY
  BY <1>1, NumRange DEF CAPACITY
<1> QED BY <1>1, <1>2, Sizes

\* The results of ModAdd and ModSub.
Added(x, y, m) ==
  LET sum == vli_add(x, y)
      reducible == sum.carry = 1 \/ vli_cmp(WordsOf(m, WORDS), sum.words) # 1
  IN  IF reducible THEN vli_sub(sum.words, WordsOf(m, WORDS)).words ELSE sum.words

Subtracted(x, y, m) ==
  LET difference == vli_sub(x, y)
  IN  IF difference.borrow = 1 THEN vli_add(difference.words, WordsOf(m, WORDS)).words
      ELSE difference.words

\* vli_add(), vli_sub() and vli_cmp() of such numbers.
LEMMA AddNumbers ==
  ASSUME NEW x, IsNumber(x), NEW y, IsNumber(y)
  PROVE  /\ IsNumber(vli_add(x, y).words) /\ vli_add(x, y).carry \in 0 .. 1
         /\ Num(vli_add(x, y).words) + vli_add(x, y).carry * CAPACITY = Num(x) + Num(y)
BY NumberFits, AddRight DEF IsNumber, CAPACITY

\* The same for the difference.
LEMMA SubNumbers ==
  ASSUME NEW x, IsNumber(x), NEW y, IsNumber(y)
  PROVE  /\ IsNumber(vli_sub(x, y).words) /\ vli_sub(x, y).borrow \in 0 .. 1
         /\ Num(x) + vli_sub(x, y).borrow * CAPACITY = Num(vli_sub(x, y).words) + Num(y)
BY NumberFits, SubRight DEF IsNumber, CAPACITY

\* The same for the comparison.
LEMMA CmpNumbers ==
  ASSUME NEW x, IsNumber(x), NEW y, IsNumber(y)
  PROVE  /\ vli_cmp(x, y) = 1 <=> Num(x) > Num(y)
         /\ vli_cmp(x, y) > 0 <=> Num(x) > Num(y)
BY NumberFits, CmpRight DEF IsNumber

\* The sum is reduced.
LEMMA AddReduced ==
  ASSUME NEW m \in 1 .. CAPACITY - 1, NEW x, IsNumber(x), NEW y, IsNumber(y),
         Num(x) < m, Num(y) < m
  PROVE  IsNumber(Added(x, y, m)) /\ Num(Added(x, y, m)) = (Num(x) + Num(y)) % m
<1> DEFINE w == WordsOf(m, WORDS)
           sum == vli_add(x, y)
           less == vli_sub(sum.words, w)
           s == Num(x) + Num(y)
<1>1. m \in Nat /\ m > 0 /\ CAPACITY \in Nat /\ m < CAPACITY /\ s \in Nat /\ s < m + m
  <2>1. Num(x) \in 0 .. CAPACITY - 1 /\ Num(y) \in 0 .. CAPACITY - 1
    BY NumberFits
  <2>2. CAPACITY \in Nat /\ CAPACITY > 0
    BY Sizes
  <2> QED BY <2>1, <2>2
<1>2. IsNumber(w) /\ Num(w) = m
  <2>1. m \in 0 .. CAPACITY - 1
    BY <1>1
  <2> QED BY <2>1, NumberOfWords
<1>3. IsNumber(sum.words) /\ sum.carry \in 0 .. 1 /\ Num(sum.words) + sum.carry * CAPACITY = s
  BY AddNumbers
<1>4. Num(sum.words) \in 0 .. CAPACITY - 1
  BY <1>3, NumberFits
<1>5. /\ IsNumber(less.words) /\ less.borrow \in 0 .. 1
      /\ Num(sum.words) + less.borrow * CAPACITY = Num(less.words) + m
  BY <1>2, <1>3, SubNumbers
<1>6. Num(less.words) \in 0 .. CAPACITY - 1
  BY <1>5, NumberFits
<1>7. vli_cmp(w, sum.words) = 1 <=> m > Num(sum.words)
  BY <1>2, <1>3, CmpNumbers
<1>8. Added(x, y, m) = IF sum.carry = 1 \/ vli_cmp(w, sum.words) # 1
                         THEN less.words ELSE sum.words
  BY DEF Added
<1> HIDE DEF w, sum, less, s
<1>9. s >= m => s % m = s - m
  <2> SUFFICES ASSUME s >= m
               PROVE  s % m = s - m
    OBVIOUS
  <2>1. s = 1 * m + (s - m) /\ s - m \in 0 .. m - 1 /\ s \in Int /\ 1 \in Int
    BY <1>1
  <2> QED BY <1>1, <2>1, DivideUnique
<1>10. s < m => s % m = s
  BY <1>1
<1>11. ASSUME sum.carry = 1
      PROVE  IsNumber(Added(x, y, m)) /\ Num(Added(x, y, m)) = s % m
  <2>1. Num(sum.words) + CAPACITY = s
    BY <1>1, <1>3, <1>11
  <2>2. less.borrow = 1 /\ Num(less.words) = s - m
    <3>1. CASE less.borrow = 1
      BY <1>1, <1>4, <1>5, <1>6, <2>1, <3>1
    <3>2. CASE less.borrow = 0
      BY <1>1, <1>4, <1>5, <1>6, <2>1, <3>2
    <3> QED BY <1>5, <3>1, <3>2
  <2>3. s >= m
    BY <1>1, <1>4, <2>1
  <2> QED BY <1>5, <1>8, <1>9, <1>11, <2>2, <2>3
<1>12. ASSUME sum.carry = 0
      PROVE  IsNumber(Added(x, y, m)) /\ Num(Added(x, y, m)) = s % m
  <2>1. Num(sum.words) = s
    BY <1>1, <1>3, <1>4, <1>12
  <2>2. CASE s >= m
    <3>1. less.borrow = 0 /\ Num(less.words) = s - m
      <4>1. CASE less.borrow = 1
        BY <1>1, <1>4, <1>5, <1>6, <2>1, <2>2, <4>1
      <4>2. CASE less.borrow = 0
        BY <1>1, <1>4, <1>5, <1>6, <2>1, <2>2, <4>2
      <4> QED BY <1>5, <4>1, <4>2
    <3>2. ~ (m > Num(sum.words))
      BY <1>1, <2>1, <2>2
    <3> QED BY <1>5, <1>7, <1>8, <1>9, <2>2, <3>1, <3>2
  <2>3. CASE s < m
    BY <1>1, <1>3, <1>7, <1>8, <1>10, <1>12, <2>1, <2>3
  <2> QED BY <1>1, <2>2, <2>3
<1>13. IsNumber(Added(x, y, m)) /\ Num(Added(x, y, m)) = s % m
  BY <1>3, <1>11, <1>12
<1> QED BY <1>13 DEF s

\* The difference is reduced.
LEMMA SubReduced ==
  ASSUME NEW m \in 1 .. CAPACITY - 1, NEW x, IsNumber(x), NEW y, IsNumber(y),
         Num(x) < m, Num(y) < m
  PROVE  IsNumber(Subtracted(x, y, m)) /\ Num(Subtracted(x, y, m)) = (Num(x) - Num(y)) % m
<1> DEFINE w == WordsOf(m, WORDS)
           difference == vli_sub(x, y)
           again == vli_add(difference.words, w)
           s == Num(x) - Num(y)
<1>1. m \in Nat /\ m > 0 /\ CAPACITY \in Nat /\ m < CAPACITY /\ s \in Int
      /\ s > 0 - m /\ s < m
  <2>1. Num(x) \in 0 .. CAPACITY - 1 /\ Num(y) \in 0 .. CAPACITY - 1
    BY NumberFits
  <2>2. CAPACITY \in Nat /\ CAPACITY > 0
    BY Sizes
  <2> QED BY <2>1, <2>2
<1>2. IsNumber(w) /\ Num(w) = m
  <2>1. m \in 0 .. CAPACITY - 1
    BY <1>1
  <2> QED BY <2>1, NumberOfWords
<1>3. /\ IsNumber(difference.words) /\ difference.borrow \in 0 .. 1
      /\ Num(x) + difference.borrow * CAPACITY = Num(difference.words) + Num(y)
  BY SubNumbers
<1>4. Num(difference.words) \in 0 .. CAPACITY - 1
  BY <1>3, NumberFits
<1>5. /\ IsNumber(again.words) /\ again.carry \in 0 .. 1
      /\ Num(again.words) + again.carry * CAPACITY = Num(difference.words) + m
  BY <1>2, <1>3, AddNumbers
<1>6. Num(again.words) \in 0 .. CAPACITY - 1
  BY <1>5, NumberFits
<1>7. Subtracted(x, y, m) = IF difference.borrow = 1 THEN again.words ELSE difference.words
  BY DEF Subtracted
<1>07. Num(x) \in 0 .. CAPACITY - 1 /\ Num(y) \in 0 .. CAPACITY - 1
  BY NumberFits
<1> HIDE DEF w, difference, again
<1>8. ASSUME difference.borrow = 1
      PROVE  IsNumber(Subtracted(x, y, m)) /\ Num(Subtracted(x, y, m)) = s % m
  <2>1. Num(difference.words) = s + CAPACITY
    BY <1>1, <1>3, <1>4, <1>07, <1>8
  <2>2. Num(again.words) = s + m /\ s < 0
    <3>1. CASE again.carry = 1
      BY <1>1, <1>4, <1>5, <1>6, <2>1, <3>1
    <3>2. CASE again.carry = 0
      BY <1>1, <1>4, <1>5, <1>6, <2>1, <3>2
    <3> QED BY <1>5, <3>1, <3>2
  <2> HIDE DEF s
  <2>3. s = (0 - 1) * m + (s + m) /\ s + m \in 0 .. m - 1 /\ 0 - 1 \in Int
    BY <1>1, <2>2
  <2>4. s % m = s + m
    BY <1>1, <2>3, DivideUnique
  <2> QED BY <1>5, <1>7, <1>8, <2>2, <2>4
<1>9. ASSUME difference.borrow = 0
      PROVE  IsNumber(Subtracted(x, y, m)) /\ Num(Subtracted(x, y, m)) = s % m
  <2>1. Num(difference.words) = s
    BY <1>1, <1>3, <1>4, <1>07, <1>9
  <2> HIDE DEF s
  <2>2. s % m = s
    BY <1>1, <1>4, <2>1
  <2> QED BY <1>3, <1>7, <1>9, <2>1, <2>2
<1>10. IsNumber(Subtracted(x, y, m)) /\ Num(Subtracted(x, y, m)) = s % m
  BY <1>3, <1>8, <1>9
<1> QED BY <1>10 DEF s

-----------------------------------------------------------------------------
(* uECC_vli_mmod()                                                         *)

\* The words of x shifted to the left by fewer bits than a word has.
ShiftedWords(x, bits) ==
  LET Carry(i) == IF i = 1 THEN 0 ELSE x[i - 1] \div Power(2, WORD_BITS - bits)
  IN  [i \in 1 .. WORDS |-> ((x[i] * Power(2, bits)) % WORD) + Carry(i)]

\* A word is divided into the bits that stay and the bits that leave.
LEMMA ShiftedWord ==
  ASSUME NEW x \in Word, NEW p \in Nat, p > 0, NEW q \in Nat, q > 0, WORD = p * q
  PROVE  /\ (x * p) % WORD = (x % q) * p /\ x \div q \in 0 .. p - 1 /\ x % q \in 0 .. q - 1
         /\ ((x * p) % WORD) + WORD * (x \div q) = x * p
         /\ \A c \in 0 .. p - 1 : ((x * p) % WORD) + c \in Word
<1>1. WORD \in Nat /\ WORD >= 4 /\ x \in Nat /\ x < WORD
  BY Sizes DEF Word
<1> DEFINE d == x \div q
           r == x % q
<1>2. d \in Nat /\ r \in 0 .. q - 1 /\ x = d * q + r
  BY <1>1
<1> HIDE DEF d, r
<1>3. d < p
  <2> SUFFICES ASSUME d >= p
               PROVE  FALSE
    BY <1>2
  <2>1. (d - p) * q >= 0 /\ (d - p) * q = d * q - p * q /\ d * q \in Int /\ p * q \in Int
    BY <1>2
  <2> QED BY <1>1, <1>2, <2>1
<1>4. x * p = d * WORD + r * p
  <2>1. (d * q + r) * p = d * (p * q) + r * p
    BY <1>2
  <2> QED BY <1>2, <2>1
<1>5. r * p \in Nat /\ r * p + p <= WORD
  <2>1. (q - 1 - r) * p >= 0 /\ (q - 1 - r) * p = p * q - p - r * p
        /\ r * p \in Nat /\ p * q \in Int
    BY <1>2
  <2> QED BY <1>1, <2>1
<1>6. (x * p) % WORD = r * p
  <2>1. x * p \in Int /\ r * p \in 0 .. WORD - 1 /\ WORD > 0 /\ d \in Int
    BY <1>1, <1>2, <1>5
  <2> DEFINE e == x * p
             f == r * p
  <2>2. e \in Int /\ f \in 0 .. WORD - 1 /\ e = d * WORD + f /\ d \in Int
    BY <1>4, <2>1
  <2> HIDE DEF e, f
  <2>3. e % WORD = f
    BY <1>1, <2>1, <2>2, DivideUnique
  <2> QED BY <2>3 DEF e, f
<1>7. ((x * p) % WORD) + WORD * d = x * p
  <2>1. WORD * d = d * WORD /\ d * WORD \in Int /\ x * p \in Int
    BY <1>1, <1>2
  <2> QED BY <1>4, <1>5, <1>6, <2>1
<1>8. \A c \in 0 .. p - 1 : ((x * p) % WORD) + c \in Word
  <2>1. \A c \in 0 .. p - 1 : r * p + c \in 0 .. WORD - 1
    BY <1>1, <1>5
  <2> QED BY <1>6, <2>1 DEF Word
<1> QED BY <1>2, <1>3, <1>6, <1>7, <1>8 DEF d, r

\* The bits that leave the last word are those above its words.
LEMMA ShiftedRight ==
  ASSUME NEW x, IsNumber(x), NEW bits \in 0 .. WORD_BITS - 1
  PROVE  /\ IsNumber(ShiftedWords(x, bits))
         /\ \E c \in Nat : Num(ShiftedWords(x, bits)) + c * CAPACITY = Num(x) * Power(2, bits)
<1> DEFINE n == WORDS
           p == Power(2, bits)
           q == Power(2, WORD_BITS - bits)
           w == ShiftedWords(x, bits)
           c == [i \in 0 .. n |-> IF i = 0 THEN 0 ELSE x[i] \div q]
           scaled == [i \in 1 .. n |-> x[i] * p]
           zeros == [i \in 1 .. n |-> 0]
<1>1. /\ n \in Nat /\ n >= 3 /\ WORD \in Nat /\ p \in Nat /\ p > 0 /\ q \in Nat /\ q > 0
      /\ WORD = p * q
  <2>1. WORD_BITS \in Nat /\ bits \in Nat /\ WORD_BITS - bits \in Nat
        /\ bits + (WORD_BITS - bits) = WORD_BITS /\ 2 \in Nat /\ 2 > 0
    BY WordBits
  <2>2. p \in Nat /\ p > 0 /\ q \in Nat /\ q > 0
    BY <2>1, PowerPositive
  <2>3. Power(2, bits + (WORD_BITS - bits)) = p * q
    BY <2>1, PowerOfSum
  <2> QED BY <2>1, <2>2, <2>3, Sizes, WordBits
<1>2. x \in Seq(Word) /\ Len(x) = n /\ x \in Seq(Nat) /\ \A i \in 1 .. n : x[i] \in Word /\ x[i] \in Nat
  <2>1. x \in Seq(Word) /\ Len(x) = n
    BY DEF IsNumber
  <2> QED BY <2>1, ElementOfSeq, NumRange
<1> HIDE DEF p, q
<1>3. w = [i \in 1 .. n |-> ((x[i] * p) % WORD) + IF i = 1 THEN 0 ELSE x[i - 1] \div q]
  BY DEF ShiftedWords, p, q
<1> HIDE DEF w
<1>4. ASSUME NEW i \in 1 .. n
      PROVE  /\ i - 1 \in 0 .. n /\ i \in 0 .. n /\ w[i] = ((x[i] * p) % WORD) + c[i - 1]
             /\ w[i] \in Word /\ c[i] = x[i] \div q /\ c[i] \in Nat
             /\ w[i] + WORD * c[i] = scaled[i] + zeros[i] + c[i - 1]
  <2>1. i - 1 \in 0 .. n /\ i \in 0 .. n /\ i # 0 /\ (i = 1 <=> i - 1 = 0)
        /\ (i # 1 => i - 1 \in 1 .. n)
    BY <1>1
  <2>2. w[i] = ((x[i] * p) % WORD) + IF i = 1 THEN 0 ELSE x[i - 1] \div q
    BY <1>3
  <2>3. c[i - 1] = (IF i - 1 = 0 THEN 0 ELSE x[i - 1] \div q) /\ c[i] = x[i] \div q
    BY <2>1
  <2>4. scaled[i] = x[i] * p /\ zeros[i] = 0
    OBVIOUS
  <2> HIDE DEF c, scaled, zeros
  <2>5. /\ (x[i] * p) % WORD \in Nat /\ x[i] \div q \in Nat
        /\ ((x[i] * p) % WORD) + WORD * (x[i] \div q) = x[i] * p
        /\ \A e \in 0 .. p - 1 : ((x[i] * p) % WORD) + e \in Word
    <3>1. x[i] \in Word
      BY <1>2
    <3>2. /\ (x[i] * p) % WORD = (x[i] % q) * p /\ x[i] \div q \in 0 .. p - 1
          /\ ((x[i] * p) % WORD) + WORD * (x[i] \div q) = x[i] * p
          /\ \A e \in 0 .. p - 1 : ((x[i] * p) % WORD) + e \in Word
      BY <1>1, <3>1, ShiftedWord
    <3>3. (x[i] * p) % WORD \in Nat
      <4>1. x[i] * p \in Int
        BY <1>1, <1>2
      <4>2. WORD > 0
        BY Sizes
      <4> QED BY <1>1, <4>1, <4>2
    <3> QED BY <3>2, <3>3
  <2>6. c[i - 1] \in 0 .. p - 1
    <3>1. CASE i = 1
      BY <1>1, <2>1, <2>3, <3>1
    <3>2. CASE i # 1
      <4>1. x[i - 1] \in Word
        BY <1>2, <2>1, <3>2
      <4>2. x[i - 1] \div q \in 0 .. p - 1
        BY <1>1, <4>1, ShiftedWord
      <4> QED BY <2>1, <2>3, <3>2, <4>2
    <3> QED BY <3>1, <3>2
  <2>7. w[i] = ((x[i] * p) % WORD) + c[i - 1]
    BY <2>1, <2>2, <2>3
  <2>8. w[i] + WORD * c[i] = x[i] * p + 0 + c[i - 1]
    <3> DEFINE a == (x[i] * p) % WORD
               e == WORD * (x[i] \div q)
               g == x[i] * p
    <3>1. a \in Nat /\ a + e = g /\ w[i] = a + c[i - 1] /\ WORD * c[i] = e
      BY <2>3, <2>5, <2>7
    <3>3. c[i - 1] \in Nat
      BY <1>1, <2>6
    <3>4. e \in Nat
      BY <1>1, <2>5
    <3>5. g \in Nat
      BY <1>1, <1>2
    <3> HIDE DEF a, e, g
    <3>2. w[i] + WORD * c[i] = g + 0 + c[i - 1]
      BY <3>1, <3>3, <3>4, <3>5
    <3> QED BY <3>2 DEF g
  <2> QED BY <2>1, <2>3, <2>4, <2>5, <2>6, <2>7, <2>8
<1>5. w \in Seq(Word) /\ Len(w) = n
  <2>1. w = [i \in 1 .. n |-> w[i]]
    BY <1>3
  <2>2. w \in [1 .. n -> Word]
    <3>1. \A i \in 1 .. n : w[i] \in Word
      BY <1>4
    <3> QED BY <2>1, <3>1
  <2> QED BY <1>1, <2>2
<1>6. c \in [0 .. n -> Nat] /\ c[0] = 0 /\ c[n] \in Nat
  <2>1. 0 \in 0 .. n /\ n \in 0 .. n /\ \A i \in 0 .. n : i = 0 \/ i \in 1 .. n
    BY <1>1
  <2>2. \A i \in 0 .. n : (IF i = 0 THEN 0 ELSE x[i] \div q) \in Nat
    <3>1. ASSUME NEW i \in 1 .. n
          PROVE  x[i] \div q \in Nat
      <4>1. x[i] \in Nat /\ q \in Nat /\ q > 0
        BY <1>1, <1>2
      <4> QED BY <4>1
    <3> QED BY <2>1, <3>1
  <2> QED BY <2>1, <2>2
<1>7. /\ scaled \in Seq(Nat) /\ Len(scaled) = n /\ zeros \in Seq(Nat) /\ Len(zeros) = n
      /\ \A k \in 1 .. n : scaled[k] = x[k] * p /\ zeros[k] = x[k] * 0
  BY <1>1, <1>2
<1> HIDE DEF c, scaled, zeros, n
<1>8. NumberOf(scaled, WORD) = Num(x) * p /\ NumberOf(zeros, WORD) = 0
  <2>1. ASSUME NEW z \in Seq(Nat), NEW t \in Nat, Len(z) = n, \A i \in 1 .. n : z[i] = x[i] * t
        PROVE  NumberOf(z, WORD) = NumberOf(x, WORD) * t
    <3>1. x \in Seq(Nat) /\ WORD \in Nat /\ Len(z) = Len(x) /\ \A i \in 1 .. Len(x) : z[i] = x[i] * t
      BY <1>1, <1>2, <2>1
    <3> QED BY <3>1, NumberScale
  <2>2. NumberOf(x, WORD) * 0 = 0
    BY <1>1, <1>2, NumberSteps
  <2>3. NumberOf(scaled, WORD) = NumberOf(x, WORD) * p
    BY <1>1, <1>7, <2>1
  <2>4. NumberOf(zeros, WORD) = NumberOf(x, WORD) * 0
    BY <1>1, <1>7, <2>1
  <2> QED BY <2>2, <2>3, <2>4 DEF Num
<1>9. Num(w) + c[n] * CAPACITY = Num(x) * p
  <2>1. w \in Seq(Nat)
    BY <1>5, NumRange
  <2>2. Carries(WORD, scaled, zeros, w, c)
    BY <1>4, <1>5 DEF Carries
  <2>3. SumSoFar(NumberOf(scaled, WORD) + c[0], NumberOf(zeros, WORD), NumberOf(w, WORD),
                 c[Len(w)], Power(WORD, Len(w)))
    <3>1. c \in [0 .. Len(w) -> Nat]
      BY <1>5, <1>6
    <3> QED BY <1>1, <1>5, <1>7, <2>1, <2>2, <3>1, NumbersSum
  <2>4. NumberOf(scaled, WORD) \in Nat
    BY <1>1, <1>7, NumberSteps
  <2>5. NumberOf(w, WORD) + c[n] * Power(WORD, n) = NumberOf(scaled, WORD)
    BY <1>5, <1>6, <1>8, <2>3, <2>4 DEF SumSoFar
  <2> QED BY <1>8, <2>5 DEF Num, n, CAPACITY
<1> QED BY <1>5, <1>6, <1>9 DEF IsNumber, n, p, w

\* Words that are 0.
LEMMA NumZeros ==
  ASSUME NEW n \in Nat
  PROVE  Zeros(n) \in Seq(Word) /\ Len(Zeros(n)) = n /\ Num(Zeros(n)) = 0
<1> DEFINE z == Zeros(n)
<1>1. 0 \in Word /\ WORD \in Nat
  BY Sizes
<1>2. z \in Seq(Word) /\ z \in Seq(Nat) /\ Len(z) = n /\ \A i \in 1 .. Len(z) : z[i] = z[i] * 0
  BY <1>1 DEF Zeros
<1> HIDE DEF z
<1>3. NumberOf(z, WORD) = NumberOf(z, WORD) * 0 /\ NumberOf(z, WORD) \in Nat
  <2>1. \A t \in Nat : (\A i \in 1 .. Len(z) : z[i] = z[i] * t)
                        => NumberOf(z, WORD) = NumberOf(z, WORD) * t
    BY <1>1, <1>2, NumberScale
  <2> QED BY <1>1, <1>2, <2>1, NumberSteps
<1>4. NumberOf(z, WORD) = 0
  BY <1>3
<1> QED BY <1>2, <1>4 DEF z, Num

\* Words after words.
LEMMA NumConcat ==
  ASSUME NEW low \in Seq(Word), NEW high \in Seq(Word)
  PROVE  /\ low \o high \in Seq(Word) /\ Len(low \o high) = Len(low) + Len(high)
         /\ Num(low \o high) = Num(low) + Power(WORD, Len(low)) * Num(high)
<1>1. low \in Seq(Nat) /\ high \in Seq(Nat) /\ WORD \in Nat
  BY NumRange, Sizes
<1>2. NumberOf(low \o high, WORD) = NumberOf(low, WORD) + Power(WORD, Len(low)) * NumberOf(high, WORD)
  BY <1>1, NumberConcat
<1>3. low \o high \in Seq(Word) /\ Len(low \o high) = Len(low) + Len(high)
  BY ConcatProperties
<1> QED BY <1>2, <1>3 DEF Num

\* The shift that AlignMod begins with, and the words.
AlignedShift(m) == 2 * WORDS * WORD_BITS - NumBits(m)

Aligned(m) ==
  Zeros(AlignedShift(m) \div WORD_BITS)
    \o ShiftedWords(WordsOf(m, WORDS), AlignedShift(m) % WORD_BITS)

\* Products with a power, in both orders.
LEMMA TimesMonotone ==
  ASSUME NEW x \in Nat, NEW y \in Nat, NEW t \in Nat
  PROVE  (x <= y => x * t <= y * t) /\ (t > 0 /\ x < y => x * t < y * t)
         /\ (t > 0 /\ x * t < y * t => x < y)
<1>1. ASSUME x <= y
      PROVE  x * t <= y * t
  <2>1. (y - x) * t >= 0 /\ (y - x) * t = y * t - x * t /\ x * t \in Int /\ y * t \in Int
    BY <1>1
  <2> QED BY <2>1
<1>2. ASSUME t > 0, x < y
      PROVE  x * t < y * t
  <2>1. (y - x - 1) * t >= 0 /\ (y - x - 1) * t = y * t - x * t - t
        /\ x * t \in Int /\ y * t \in Int
    BY <1>2
  <2> QED BY <1>2, <2>1
<1>3. ASSUME NEW p \in Nat, NEW q \in Nat, p <= q
      PROVE  p * t <= q * t /\ p * t \in Int /\ q * t \in Int
  <2>1. (q - p) * t >= 0 /\ (q - p) * t = q * t - p * t /\ p * t \in Int /\ q * t \in Int
    BY <1>3
  <2> QED BY <2>1
<1>4. ASSUME t > 0, x * t < y * t
      PROVE  x < y
  <2> SUFFICES ASSUME y <= x
               PROVE  FALSE
    OBVIOUS
  <2>1. y * t <= x * t /\ y * t \in Int /\ x * t \in Int
    BY <1>3
  <2> QED BY <1>4, <2>1
<1> QED BY <1>1, <1>2, <1>4

\* The modulus is shifted until its highest bit is that of 2 * WORDS words,
\* and so the product of two numbers is less than twice as much.
LEMMA AlignRight ==
  ASSUME NEW m \in Power(WORD, WORDS - 1) .. CAPACITY - 1
  PROVE  /\ AlignedShift(m) \in 0 .. 2 * WORDS * WORD_BITS
         /\ Aligned(m) \in Seq(Word) /\ Len(Aligned(m)) = 2 * WORDS
         /\ Num(Aligned(m)) = m * Power(2, AlignedShift(m))
         /\ CAPACITY * CAPACITY <= m * Power(2, AlignedShift(m) + 1)
<1> DEFINE n == WORDS
           l == WORD_BITS
           b == NumBits(m)
           t == l * n
           bits == t - b
           sh == AlignedShift(m)
           x == WordsOf(m, n)
           w == ShiftedWords(x, bits)
<1>1. /\ n \in Nat /\ n >= 3 /\ l \in Nat /\ l > 0 /\ CAPACITY \in Nat /\ CAPACITY > 0
      /\ WORD \in Nat /\ WORD = Power(2, l) /\ WORD > 0
  BY Sizes, WordBits
<1>2. /\ t \in Nat /\ l * (n - 1) = t - l /\ t - l \in Nat /\ t + t = 2 * n * l /\ t = n * l
  <2>1. l * (n - 1) = t - l /\ l * (n - 1) \in Nat /\ t \in Nat /\ t = n * l
    BY <1>1
  <2>2. 2 * n * l = n * l + n * l
    BY <1>1
  <2> QED BY <2>1, <2>2
<1>3. CAPACITY = Power(2, t) /\ Power(WORD, n - 1) = Power(2, t - l)
  <2>1. \A k \in Nat : Power(Power(2, l), k) = Power(2, l * k)
    BY <1>1, PowerOfPower
  <2>2. n - 1 \in Nat
    BY <1>1
  <2>3. CAPACITY = Power(Power(2, l), n)
    BY <1>1 DEF CAPACITY
  <2> HIDE DEF n, l, t
  <2> QED BY <1>1, <1>2, <2>1, <2>2, <2>3 DEF t
<1>4. m \in Nat /\ m > 0 /\ m < CAPACITY /\ Power(WORD, n - 1) <= m
  <2>1. n - 1 \in Nat
    BY <1>1
  <2>2. Power(WORD, n - 1) \in Nat /\ Power(WORD, n - 1) > 0
    BY <2>1, Sizes
  <2> QED BY <1>1, <2>2
<1>5. b \in Nat /\ m < Power(2, b) /\ b > 0 /\ Power(2, b - 1) <= m
  BY <1>4, NumBitsRight
<1>6. \A i \in Nat : Power(2, i) \in Nat /\ Power(2, i) > 0
  <2>1. 2 \in Nat /\ 2 > 0
    OBVIOUS
  <2> QED BY <2>1, PowerPositive
<1>7. \A i, j \in Nat : i <= j => Power(2, i) <= Power(2, j)
  <2>1. 2 \in Nat /\ 2 > 1
    OBVIOUS
  <2> QED BY <2>1, PowerMonotone
<1>8. \A i, j \in Nat : Power(2, i + j) = Power(2, i) * Power(2, j)
  <2>1. 2 \in Nat
    OBVIOUS
  <2> QED BY <2>1, PowerOfSum
<1> HIDE DEF n, l, t, b, x
<1>9. b > t - l
  <2> SUFFICES ASSUME b <= t - l
               PROVE  FALSE
    BY <1>1, <1>2, <1>5
  <2>1. Power(2, b) <= Power(2, t - l)
    BY <1>2, <1>5, <1>7
  <2> QED BY <1>2, <1>3, <1>4, <1>5, <1>6, <2>1
<1>10. b <= t
  <2> SUFFICES ASSUME t <= b - 1
               PROVE  FALSE
    BY <1>1, <1>2, <1>5
  <2>0. b - 1 \in Nat
    BY <1>5
  <2>1. Power(2, t) <= Power(2, b - 1)
    BY <1>2, <1>7, <2>0
  <2> QED BY <1>2, <1>3, <1>4, <1>5, <1>6, <2>0, <2>1
<1>11. bits \in 0 .. l - 1 /\ bits \in Nat /\ bits + b = t
  BY <1>1, <1>2, <1>5, <1>9, <1>10
<1>12. sh = n * l + bits /\ sh = t + bits /\ sh \in Nat /\ sh \in 0 .. 2 * n * l
  <2>1. sh = 2 * n * l - b
    BY DEF AlignedShift, n, l, b
  <2> QED BY <1>1, <1>2, <1>5, <1>11, <2>1
<1> HIDE DEF sh, bits
<1>13. sh \div l = n /\ sh % l = bits
  BY <1>1, <1>11, <1>12, DivideUnique
<1>14. Aligned(m) = Zeros(n) \o w
  BY <1>13 DEF Aligned, sh, n, l, x
<1>15. IsNumber(x) /\ Num(x) = m
  <2>1. m \in 0 .. CAPACITY - 1
    BY <1>1, <1>4
  <2> QED BY <2>1, NumberOfWords DEF x, n
<1>16. PICK c \in Nat : Num(w) + c * CAPACITY = m * Power(2, bits)
  <2>1. bits \in 0 .. WORD_BITS - 1
    BY <1>11 DEF l
  <2> QED BY <1>15, <2>1, ShiftedRight
<1>17. w \in Seq(Word) /\ Len(w) = n /\ Num(w) \in Nat
  <2>1. bits \in 0 .. WORD_BITS - 1
    BY <1>11 DEF l
  <2>2. IsNumber(w)
    BY <1>15, <2>1, ShiftedRight
  <2> QED BY <2>2, NumberFits DEF n
<1> HIDE DEF w
<1>18. Num(w) = m * Power(2, bits)
  <2> DEFINE p == Power(2, bits)
             q == Power(2, b)
  <2>1. p \in Nat /\ p > 0 /\ q \in Nat
    BY <1>5, <1>6, <1>11
  <2>2. q * p = CAPACITY
    BY <1>3, <1>5, <1>8, <1>11
  <2>3. m < q
    BY <1>5
  <2> HIDE DEF p, q
  <2>4. m * p < q * p
    BY <1>4, <2>1, <2>3, TimesMonotone
  <2>5. c = 0
    <3> SUFFICES ASSUME c > 0
                 PROVE  FALSE
      BY <1>16
    <3>1. (c - 1) * CAPACITY >= 0 /\ (c - 1) * CAPACITY = c * CAPACITY - CAPACITY
          /\ c * CAPACITY \in Int /\ m * p \in Int
      BY <1>1, <1>4, <1>16, <2>1
    <3> QED BY <1>1, <1>16, <1>17, <2>2, <2>4, <3>1 DEF p
  <2>6. 0 * CAPACITY = 0
    BY <1>1
  <2> QED BY <1>16, <1>17, <2>5, <2>6
<1>19. Zeros(n) \in Seq(Word) /\ Len(Zeros(n)) = n /\ Num(Zeros(n)) = 0
  BY <1>1, NumZeros
<1>20. Aligned(m) \in Seq(Word) /\ Len(Aligned(m)) = 2 * n
  <2> DEFINE z == Zeros(n)
  <2>1. z \in Seq(Word) /\ Len(z) = n
    BY <1>19
  <2> HIDE DEF z
  <2>2. z \o w \in Seq(Word) /\ Len(z \o w) = n + n
    BY <1>17, <2>1, NumConcat
  <2> QED BY <1>1, <1>14, <2>2 DEF z
<1>21. Num(Aligned(m)) = m * Power(2, sh)
  <2> DEFINE z == Zeros(n)
  <2>1. z \in Seq(Word) /\ Len(z) = n /\ Num(z) = 0
    BY <1>19
  <2> HIDE DEF z
  <2>2. Num(z \o w) = 0 + CAPACITY * (m * Power(2, bits))
    BY <1>17, <1>18, <2>1, NumConcat DEF n, CAPACITY
  <2>3. Power(2, sh) = CAPACITY * Power(2, bits)
    BY <1>2, <1>3, <1>8, <1>11, <1>12
  <2>4. \A p \in Nat : 0 + CAPACITY * (m * p) = m * (CAPACITY * p)
    BY <1>1, <1>4
  <2> QED BY <1>6, <1>11, <1>14, <2>2, <2>3, <2>4 DEF z
<1>22. CAPACITY * CAPACITY <= m * Power(2, sh + 1)
  <2>1. b - 1 \in Nat /\ sh + 1 \in Nat /\ (b - 1) + (sh + 1) = t + t
    BY <1>5, <1>11, <1>12
  <2>2. Power(2, b - 1) * Power(2, sh + 1) = Power(2, t + t)
    BY <1>8, <2>1
  <2>3. Power(2, t + t) = CAPACITY * CAPACITY
    BY <1>2, <1>3, <1>8
  <2>4. Power(2, b - 1) * Power(2, sh + 1) <= m * Power(2, sh + 1)
    BY <1>4, <1>5, <1>6, <2>1, TimesMonotone
  <2> QED BY <2>2, <2>3, <2>4
<1> QED BY <1>12, <1>20, <1>21, <1>22 DEF sh, n, l

\* What one subtraction leaves of the product.
Lessened(p, w) ==
  LET difference == vli_sub(p, w)
  IN  IF difference.borrow = 1 THEN p ELSE difference.words

\* The product is congruent to what it was and less than the multiple.
LEMMA LessenedRight ==
  ASSUME NEW p \in Seq(Word), NEW w \in Seq(Word), Len(p) = Len(w),
         NEW m \in Nat, m > 0, NEW k \in Nat, Num(w) = m * k, Num(p) < Num(w) + Num(w)
  PROVE  /\ Lessened(p, w) \in Seq(Word) /\ Len(Lessened(p, w)) = Len(p)
         /\ Num(Lessened(p, w)) < Num(w) /\ Num(Lessened(p, w)) % m = Num(p) % m
<1> DEFINE d == vli_sub(p, w)
           c == Power(WORD, Len(p))
<1>1. /\ d.words \in Seq(Word) /\ Len(d.words) = Len(p) /\ d.borrow \in 0 .. 1
      /\ Num(p) + d.borrow * c = Num(d.words) + Num(w)
  BY SubRight
<1>2. /\ Num(p) \in Nat /\ Num(p) < c /\ Num(w) \in Nat /\ Num(w) < c
      /\ Num(d.words) \in Nat /\ Num(d.words) < c /\ c \in Nat
  <2>1. Len(p) \in Nat
    OBVIOUS
  <2> HIDE DEF d
  <2> QED BY <1>1, <2>1, NumRange, Sizes
<1>3. Lessened(p, w) = IF d.borrow = 1 THEN p ELSE d.words
  BY DEF Lessened
<1> HIDE DEF d, c
<1>4. CASE d.borrow = 1
  <2>1. Num(p) < Num(w)
    BY <1>1, <1>2, <1>4
  <2> QED BY <1>3, <1>4, <2>1
<1>5. CASE d.borrow = 0
  <2>1. Num(d.words) = Num(p) - Num(w)
    BY <1>1, <1>2, <1>5
  <2>2. Num(d.words) < Num(w)
    BY <1>2, <2>1
  <2>3. Same(Num(p), Num(d.words), m)
    <3>1. Num(p) = Num(d.words) + k * m /\ k \in Int
      <4>1. k * m = m * k
        OBVIOUS
      <4> QED BY <1>2, <2>1, <4>1
    <3> QED BY <3>1 DEF Same
  <2>4. Num(p) % m = Num(d.words) % m
    <3>1. Num(p) \in Int /\ Num(d.words) \in Int
      BY <1>2
    <3> QED BY <2>3, <3>1, SameRemainder
  <2> QED BY <1>1, <1>3, <1>5, <2>2, <2>4
<1> QED BY <1>1, <1>4, <1>5

\* What is left in the end fits the lower half.
LEMMA LowOfSmall ==
  ASSUME NEW p \in Seq(Word), Len(p) = 2 * WORDS
  PROVE  /\ IsNumber(Low(p)) /\ IsNumber(High(p))
         /\ Num(p) = Num(Low(p)) + CAPACITY * Num(High(p))
         /\ Num(p) < CAPACITY => Num(Low(p)) = Num(p)
         /\ Num(Low(p)) = Num(p) % CAPACITY /\ Num(High(p)) = Num(p) \div CAPACITY
<1> DEFINE low == SubSeq(p, 1, WORDS)
           high == SubSeq(p, WORDS + 1, 2 * WORDS)
<1>1. WORDS \in Nat /\ WORDS >= 3 /\ CAPACITY \in Nat /\ CAPACITY > 0
  BY Sizes
<1>2. /\ low \in Seq(Word) /\ Len(low) = WORDS /\ high \in Seq(Word) /\ Len(high) = WORDS
      /\ \A i \in 1 .. WORDS : low[i] = p[i] /\ high[i] = p[WORDS + i]
  <2>1. WORDS \in 0 .. Len(p) /\ 2 * WORDS = Len(p) /\ (2 * WORDS) - (WORDS + 1) + 1 = WORDS
        /\ WORDS + 1 \in 1 .. Len(p)
    BY <1>1
  <2> QED BY <1>1, <2>1
<1> HIDE DEF low, high
<1>3. p = low \o high
  <2> DEFINE whole == low \o high
  <2>1. /\ whole \in Seq(Word) /\ Len(whole) = WORDS + WORDS
        /\ \A i \in 1 .. WORDS + WORDS : whole[i] = IF i <= WORDS THEN low[i] ELSE high[i - WORDS]
    <3>1. /\ whole \in Seq(Word) /\ Len(whole) = Len(low) + Len(high)
          /\ \A i \in 1 .. Len(low) + Len(high) :
               whole[i] = IF i <= Len(low) THEN low[i] ELSE high[i - Len(low)]
      BY <1>2, ConcatProperties
    <3> HIDE DEF whole
    <3> QED BY <1>2, <3>1
  <2>2. \A i \in 1 .. WORDS + WORDS :
          (i <= WORDS /\ i \in 1 .. WORDS)
            \/ (~ (i <= WORDS) /\ i - WORDS \in 1 .. WORDS /\ WORDS + (i - WORDS) = i)
    BY <1>1
  <2> HIDE DEF whole
  <2>3. \A i \in 1 .. WORDS + WORDS : p[i] = whole[i]
    <3> SUFFICES ASSUME NEW i \in 1 .. WORDS + WORDS
                 PROVE  p[i] = whole[i]
      OBVIOUS
    <3>1. CASE i <= WORDS /\ i \in 1 .. WORDS
      BY <1>2, <2>1, <3>1
    <3>2. CASE ~ (i <= WORDS) /\ i - WORDS \in 1 .. WORDS /\ WORDS + (i - WORDS) = i
      <4>1. high[i - WORDS] = p[WORDS + (i - WORDS)]
        BY <1>2, <3>2
      <4> QED BY <2>1, <3>2, <4>1
    <3> QED BY <2>2, <3>1, <3>2
  <2>4. Len(p) = WORDS + WORDS
    BY <1>1
  <2>5. p = whole
    BY <2>1, <2>3, <2>4, SeqEqual
  <2> QED BY <2>5 DEF whole
<1>4. Num(p) = Num(low) + CAPACITY * Num(high)
  BY <1>2, <1>3, NumConcat DEF CAPACITY
<1>5. IsNumber(low) /\ IsNumber(high)
  BY <1>2 DEF IsNumber
<1>6. Num(low) \in 0 .. CAPACITY - 1 /\ Num(high) \in Nat /\ Num(p) \in Nat
  <2>1. Num(high) \in 0 .. CAPACITY - 1
    BY <1>5, NumberFits
  <2> QED BY <1>1, <1>5, <2>1, NumberFits, NumRange
<1>7. Num(p) = Num(high) * CAPACITY + Num(low)
  BY <1>1, <1>4, <1>6
<1>8. Num(low) = Num(p) % CAPACITY /\ Num(high) = Num(p) \div CAPACITY
  <2> DEFINE e == Num(p)
             f == Num(high)
             g == Num(low)
  <2>1. e \in Int /\ f \in Int /\ g \in 0 .. CAPACITY - 1 /\ e = f * CAPACITY + g
    BY <1>6, <1>7
  <2> HIDE DEF e, f, g
  <2>2. g = e % CAPACITY /\ f = e \div CAPACITY
    BY <1>1, <2>1, DivideUnique
  <2> QED BY <2>2 DEF e, f, g
<1>9. Num(p) < CAPACITY => Num(low) = Num(p)
  BY <1>1, <1>6, <1>8
<1> QED BY <1>4, <1>5, <1>8, <1>9 DEF low, high, Low, High

-----------------------------------------------------------------------------
(* vli_mmod_fast_secp256k1()                                               *)

\* The prime, and the number that is congruent to the next power.
LEMMA PrimeSizes ==
  /\ Prime \in Nat /\ WORD + OMEGA \in Nat /\ WORD + OMEGA > 0
  /\ Prime = CAPACITY - (WORD + OMEGA) /\ Prime < CAPACITY /\ CAPACITY \in Nat
  /\ LET s == WORD + OMEGA IN s * s + 2 * s - 2 < CAPACITY /\ s < Prime
  /\ IsPrime(Prime)
<1> DEFINE s == WORD + OMEGA
<1>1. /\ WORD \in Nat /\ WORD >= 4 /\ WORDS \in Nat /\ WORDS >= 3 /\ OMEGA \in 1 .. WORD - 1
      /\ CAPACITY \in Nat
  BY Sizes
<1>2. s \in Nat /\ s >= 5 /\ s <= 2 * WORD - 1 /\ Prime = CAPACITY - s
  BY <1>1 DEF Prime
<1>3. WORD * (WORD * WORD) <= CAPACITY
  <2>1. Power(WORD, 3) <= CAPACITY
    <3>1. WORD > 1 /\ 3 \in Nat
      BY <1>1
    <3> QED BY <1>1, <3>1, PowerMonotone DEF CAPACITY
  <2>2. Power(WORD, 3) = WORD * (WORD * WORD)
    <3>1. /\ Power(WORD, 0) = 1 /\ Power(WORD, 0 + 1) = WORD * Power(WORD, 0)
          /\ Power(WORD, 1 + 1) = WORD * Power(WORD, 1) /\ Power(WORD, 2 + 1) = WORD * Power(WORD, 2)
      BY <1>1, PowerSteps
    <3>2. 0 + 1 = 1 /\ 1 + 1 = 2 /\ 2 + 1 = 3 /\ WORD * 1 = WORD
      BY <1>1
    <3> QED BY <3>1, <3>2
  <2> QED BY <2>1, <2>2
<1>4. s * s + 2 * s - 2 < CAPACITY
  <2>1. s * s <= (2 * WORD - 1) * (2 * WORD - 1)
    <3> HIDE DEF s
    <3>1. (2 * WORD - 1 - s) * s >= 0 /\ (2 * WORD - 1) * (2 * WORD - 1 - s) >= 0
      BY <1>1, <1>2
    <3>2. /\ (2 * WORD - 1 - s) * s = (2 * WORD - 1) * s - s * s
          /\ (2 * WORD - 1) * (2 * WORD - 1 - s)
               = (2 * WORD - 1) * (2 * WORD - 1) - (2 * WORD - 1) * s
          /\ (2 * WORD - 1) * s \in Int /\ s * s \in Int
          /\ (2 * WORD - 1) * (2 * WORD - 1) \in Int
      BY <1>1, <1>2
    <3> QED BY <3>1, <3>2
  <2>2. (2 * WORD - 1) * (2 * WORD - 1) = 4 * (WORD * WORD) - 4 * WORD + 1
        /\ WORD * WORD \in Nat
    BY <1>1
  <2>3. 4 * (WORD * WORD) <= WORD * (WORD * WORD)
    <3>1. WORD * WORD \in Nat /\ 4 \in Nat
      BY <1>1
    <3> QED BY <1>1, <3>1, TimesMonotone
  <2>4. s * s \in Int /\ WORD * (WORD * WORD) \in Int
    BY <1>1, <1>2
  <2> HIDE DEF s
  <2> QED BY <1>1, <1>2, <1>3, <2>1, <2>2, <2>3, <2>4
<1>5. s * s >= 5 * s /\ s * s \in Nat
  <2> HIDE DEF s
  <2>1. 5 \in Nat /\ s * s \in Nat
    BY <1>2
  <2> QED BY <1>2, <2>1, TimesMonotone
<1> HIDE DEF s
<1>6. Prime \in Nat /\ Prime < CAPACITY /\ s < Prime /\ Prime > 1
  BY <1>1, <1>2, <1>4, <1>5
<1>7. IsPrime(Prime)
  BY <1>6, PrimeAssumption DEF IsPrime
<1> QED BY <1>1, <1>2, <1>4, <1>6, <1>7 DEF s

\* What FoldHigh and FoldAgain leave is not far above two times the capacity.
LEMMA FoldedBound ==
  ASSUME NEW x \in Nat, x < CAPACITY * CAPACITY
  PROVE  LET s == WORD + OMEGA
             high == (x \div CAPACITY) * s
         IN  /\ x \div CAPACITY \in Nat /\ x % CAPACITY \in Nat /\ high \in Nat
             /\ high \div CAPACITY \in Nat /\ high % CAPACITY \in Nat
             /\ high \div CAPACITY < CAPACITY
             /\ (high \div CAPACITY) * s \in Nat /\ (high \div CAPACITY) * s < s * s
             /\ (high \div CAPACITY) * s < CAPACITY
             /\ Folded(x) = (x % CAPACITY) + (high % CAPACITY) + (high \div CAPACITY) * s
             /\ Folded(x) \in Nat /\ Folded(x) <= 2 * CAPACITY - 2 + (s * s - s)
             /\ Same(x, Folded(x), Prime)
<1> DEFINE s == WORD + OMEGA
           q == x \div CAPACITY
           r == x % CAPACITY
           high == q * s
           h == high \div CAPACITY
           e == high % CAPACITY
<1>1. /\ CAPACITY \in Nat /\ CAPACITY > 0 /\ s \in Nat /\ s > 0 /\ Prime \in Nat
      /\ Prime = CAPACITY - s /\ s * s + 2 * s - 2 < CAPACITY /\ s < CAPACITY
  BY PrimeSizes, Sizes
<1>2. q \in Nat /\ r \in 0 .. CAPACITY - 1 /\ x = q * CAPACITY + r
  BY <1>1
<1>3. Folded(x) = r + e + h * s
  BY DEF Folded
<1> HIDE DEF q, r, s
<1>4. q < CAPACITY
  <2>1. q * CAPACITY < CAPACITY * CAPACITY
    <3>1. q * CAPACITY \in Int /\ CAPACITY * CAPACITY \in Int
      BY <1>1, <1>2
    <3> QED BY <1>2, <3>1
  <2> QED BY <1>1, <1>2, <2>1, TimesMonotone
<1>5. high \in Nat /\ high < CAPACITY * s
  BY <1>1, <1>2, <1>4, TimesMonotone
<1> HIDE DEF high
<1>6. h \in Nat /\ e \in 0 .. CAPACITY - 1 /\ high = h * CAPACITY + e
  BY <1>1, <1>5
<1> HIDE DEF h, e
<1>7. h < s
  <2>1. h * CAPACITY < s * CAPACITY
    <3>1. h * CAPACITY \in Int /\ CAPACITY * s = s * CAPACITY /\ s * CAPACITY \in Int
      BY <1>1, <1>6
    <3> QED BY <1>5, <1>6, <3>1
  <2> QED BY <1>1, <1>6, <2>1, TimesMonotone
<1>8. h * s \in Nat /\ h * s <= s * s - s /\ s * s \in Nat
  <2>1. (s - 1 - h) * s >= 0 /\ (s - 1 - h) * s = s * s - s - h * s /\ h * s \in Nat
        /\ s * s \in Nat
    BY <1>1, <1>6, <1>7
  <2> QED BY <1>1, <2>1
<1>9. Folded(x) \in Nat /\ Folded(x) <= 2 * CAPACITY - 2 + (s * s - s) /\ h * s < s * s
      /\ h * s < CAPACITY /\ h < CAPACITY
  BY <1>1, <1>2, <1>3, <1>6, <1>7, <1>8
<1>10. Same(x, Folded(x), Prime)
  <2>1. q * CAPACITY = q * Prime + q * s /\ h * CAPACITY = h * Prime + h * s
        /\ q * s \in Int /\ q * Prime \in Int /\ h * Prime \in Int
    BY <1>1, <1>2, <1>6
  <2>2. q * s = h * CAPACITY + e
    BY <1>6 DEF high
  <2>3. x = Folded(x) + (q * Prime + h * Prime)
    BY <1>2, <1>3, <1>6, <1>8, <2>1, <2>2
  <2>4. q * Prime + h * Prime = (q + h) * Prime /\ q + h \in Int
    BY <1>1, <1>2, <1>6
  <2> QED BY <2>3, <2>4 DEF Same
<1> QED BY <1>2, <1>3, <1>5, <1>6, <1>8, <1>9, <1>10 DEF s, q, r, high, h, e

\* The sums of CarryLost().
Lost == CAPACITY + Prime .. 2 * CAPACITY - 1

\* The remainder r and the carry c stand for what has been folded into t, but
\* for the primes subtracted so far: none, or one after a carry of two; and in
\* the end none to two, or one too many.
Reducing(r, c, t) ==
  \/ c = 2 /\ t = r + 2 * CAPACITY
  \/ c = 1 /\ t = r + CAPACITY
  \/ c = 1 /\ t = r + CAPACITY + Prime /\ t >= 2 * CAPACITY
  \/ c = 0 /\ t \notin Lost /\ \E j \in 0 .. 2 : t = r + j * Prime
  \/ c = 0 /\ t \in Lost /\ t = r + CAPACITY + Prime

\* The sum of the two foldings.
LEMMA ReducingStart ==
  ASSUME NEW r \in 0 .. CAPACITY - 1, NEW c \in 0 .. 2, NEW t \in Nat, r + c * CAPACITY = t
  PROVE  Reducing(r, c, t)
<1>1. Prime \in Nat /\ CAPACITY \in Nat
  BY PrimeSizes
<1>2. CASE c = 0
  <2>1. t = r /\ t \notin Lost /\ t = r + 0 * Prime
    BY <1>1, <1>2 DEF Lost
  <2> QED BY <1>2, <2>1 DEF Reducing
<1>3. CASE c = 1
  BY <1>1, <1>3 DEF Reducing
<1>4. CASE c = 2
  BY <1>1, <1>4 DEF Reducing
<1> QED BY <1>2, <1>3, <1>4

\* One subtraction of the prime, with what it borrows.
LEMMA ReducingStep ==
  ASSUME NEW r \in 0 .. CAPACITY - 1, NEW c \in 1 .. 2, NEW t \in Nat, Reducing(r, c, t),
         t <= 2 * CAPACITY - 2 + ((WORD + OMEGA) * (WORD + OMEGA) - (WORD + OMEGA)),
         NEW after \in 0 .. CAPACITY - 1, NEW borrow \in 0 .. 1,
         r + borrow * CAPACITY = after + Prime
  PROVE  Reducing(after, c - 1, t)
<1> DEFINE s == WORD + OMEGA
           q == s * s
<1>1. /\ Prime \in Nat /\ CAPACITY \in Nat /\ s \in Nat /\ s > 0 /\ Prime = CAPACITY - s
      /\ q + 2 * s - 2 < CAPACITY /\ q \in Nat /\ t <= 2 * CAPACITY - 2 + (q - s)
  BY PrimeSizes
<1> HIDE DEF s, q
<1>2. (borrow = 1 /\ r + CAPACITY = after + Prime) \/ (borrow = 0 /\ r = after + Prime)
  BY <1>1
<1>3. CASE c = 2 /\ t = r + 2 * CAPACITY
  <2>1. r < Prime
    BY <1>1, <1>3
  <2>2. t = after + CAPACITY + Prime
    BY <1>1, <1>2, <1>3, <2>1
  <2> QED BY <1>1, <1>3, <2>2 DEF Reducing
<1>4. CASE c = 1 /\ t = r + CAPACITY
  <2>1. CASE r < Prime
    <3>1. t = after + 1 * Prime /\ t \notin Lost
      BY <1>1, <1>2, <1>4, <2>1 DEF Lost
    <3> QED BY <1>4, <3>1 DEF Reducing
  <2>2. CASE r >= Prime
    <3>1. t = after + CAPACITY + Prime /\ t \in Lost
      BY <1>1, <1>2, <1>4, <2>2 DEF Lost
    <3> QED BY <1>4, <3>1 DEF Reducing
  <2> QED BY <1>1, <2>1, <2>2
<1>5. CASE c = 1 /\ t = r + CAPACITY + Prime /\ t >= 2 * CAPACITY
  <2>1. r < Prime
    BY <1>1, <1>5
  <2>2. t = after + 2 * Prime /\ t \notin Lost
    BY <1>1, <1>2, <1>5, <2>1 DEF Lost
  <2> QED BY <1>5, <2>2 DEF Reducing
<1> QED BY <1>3, <1>4, <1>5 DEF Reducing

\* The last subtraction leaves the remainder of the product, unless a carry
\* was lost; the prime itself is no remainder that is left.
LEMMA ReducingEnd ==
  ASSUME NEW x \in 0 .. Prime - 1, NEW y \in 0 .. Prime - 1,
         NEW r \in 0 .. CAPACITY - 1, Reducing(r, 0, Folded(x * y))
  PROVE  (IF r > Prime THEN r - Prime ELSE r) = (x * y) % Prime <=> ~ CarryLost(x * y)
<1> DEFINE s == WORD + OMEGA
           p == x * y
           t == Folded(p)
           res == IF r > Prime THEN r - Prime ELSE r
<1>1. /\ Prime \in Nat /\ CAPACITY \in Nat /\ s \in Nat /\ s > 0 /\ Prime = CAPACITY - s
      /\ s < Prime /\ IsPrime(Prime) /\ Prime > 0 /\ Prime < CAPACITY
      /\ s * s + 2 * s - 2 < CAPACITY /\ s * s \in Nat
  BY PrimeSizes
<1>2. p \in Nat /\ p < CAPACITY * CAPACITY
  <2>1. x * y \in Nat /\ x * y <= Prime * y /\ y * Prime <= Prime * Prime /\ y * Prime = Prime * y
    BY <1>1, TimesMonotone
  <2>2. Prime * Prime < CAPACITY * Prime /\ Prime * CAPACITY <= CAPACITY * CAPACITY
        /\ CAPACITY * Prime = Prime * CAPACITY
    BY <1>1, TimesMonotone
  <2>3. /\ Prime * y \in Int /\ Prime * Prime \in Int /\ CAPACITY * Prime \in Int
        /\ CAPACITY * CAPACITY \in Int
    BY <1>1
  <2> QED BY <2>1, <2>2, <2>3
<1>3. t \in Nat /\ Same(p, t, Prime)
  BY <1>2, FoldedBound
<1>4. CarryLost(p) <=> t \in Lost
  BY DEF CarryLost, Lost
<1>5. ASSUME NEW j \in 0 .. 2, t = r + j * Prime
      PROVE  res = p % Prime
  <2>1. Same(t, r, Prime)
    BY <1>5 DEF Same
  <2>2. Same(p, r, Prime)
    <3>1. Prime \in Int /\ p \in Int /\ t \in Int /\ r \in Int
      BY <1>1, <1>2, <1>3
    <3> HIDE DEF p, t
    <3> QED BY <1>3, <2>1, <3>1, SameEquivalence
  <2>3. CASE r < Prime
    <3>1. res = r /\ r \in 0 .. Prime - 1 /\ p \in Int
      BY <1>1, <1>2, <2>3
    <3> HIDE DEF p, res
    <3> QED BY <1>1, <2>2, <3>1, SameRemainder
  <2>4. CASE r > Prime
    <3>1. r - Prime \in 0 .. Prime - 1 /\ res = r - Prime
      BY <1>1, <2>4
    <3>2. Same(r, r - Prime, Prime)
      <4>1. r = (r - Prime) + 1 * Prime /\ 1 \in Int
        BY <1>1
      <4> QED BY <4>1 DEF Same
    <3>3. Same(p, r - Prime, Prime)
      <4>1. Prime \in Int /\ p \in Int /\ r - Prime \in Int /\ r \in Int
        BY <1>1, <1>2
      <4> HIDE DEF p
      <4> QED BY <2>2, <3>2, <4>1, SameEquivalence
    <3>4. p \in Int
      BY <1>2
    <3> HIDE DEF p, res
    <3> QED BY <1>1, <3>1, <3>3, <3>4, SameRemainder
  <2>5. CASE r = Prime
    <3>1. p % Prime = 0
      <4>1. Same(r, 0, Prime)
        <5>1. r = 0 + 1 * Prime
          BY <1>1, <2>5
        <5> QED BY <5>1 DEF Same
      <4>2. Same(p, 0, Prime)
        <5>1. Prime \in Int /\ p \in Int /\ r \in Int
          BY <1>1, <1>2
        <5> HIDE DEF p
        <5> QED BY <2>2, <4>1, <5>1, SameEquivalence
      <4>3. p \in Int /\ 0 \in 0 .. Prime - 1
        BY <1>1, <1>2
      <4> HIDE DEF p
      <4> QED BY <1>1, <4>2, <4>3, SameRemainder
    <3>2. x = 0 \/ y = 0
      <4> SUFFICES ASSUME x # 0, y # 0
                   PROVE  FALSE
        OBVIOUS
      <4>1. x \in 1 .. Prime - 1 /\ y \in 1 .. Prime - 1
        BY <1>1
      <4>2. (x * y) % Prime # 0
        BY <1>1, <4>1, Euclid
      <4> QED BY <3>1, <4>2
    <3>3. p = 0
      BY <1>1, <3>2
    <3>4. t = 0
      <4>1. 0 \div CAPACITY = 0 /\ 0 % CAPACITY = 0
        BY <1>1
      <4>2. Folded(0) = 0
        <5>1. 0 * (WORD + OMEGA) = 0
          BY <1>1
        <5>2. Folded(0) = (0 % CAPACITY) + (((0 \div CAPACITY) * (WORD + OMEGA)) % CAPACITY)
                + (((0 \div CAPACITY) * (WORD + OMEGA)) \div CAPACITY) * (WORD + OMEGA)
          BY DEF Folded
        <5> QED BY <4>1, <5>1, <5>2
      <4> QED BY <3>3, <4>2
    <3>5. t > 0
      <4>1. j * Prime >= 0 /\ j * Prime \in Int
        BY <1>1
      <4> QED BY <1>1, <1>5, <2>5, <4>1
    <3> QED BY <3>4, <3>5
  <2> HIDE DEF p, res
  <2>6. r < Prime \/ r > Prime \/ r = Prime
    BY <1>1
  <2> QED BY <2>3, <2>4, <2>5, <2>6
<1>6. ASSUME t \in Lost, t = r + CAPACITY + Prime
      PROVE  res # p % Prime
  <2>1. r < s /\ res = r
    BY <1>1, <1>6 DEF Lost
  <2>2. Same(t, r + s, Prime)
    <3>1. t = (r + s) + 2 * Prime /\ 2 \in Int
      BY <1>1, <1>6
    <3> QED BY <3>1 DEF Same
  <2>3. Prime \in Int /\ p \in Int /\ t \in Int /\ r \in Int /\ r + s \in Int /\ s \in Int
    BY <1>1, <1>2, <1>3
  <2>4. Same(p, r + s, Prime)
    <3> HIDE DEF p, t, s
    <3> QED BY <1>3, <2>2, <2>3, SameEquivalence
  <2> SUFFICES ASSUME res = p % Prime
               PROVE  FALSE
    OBVIOUS
  <2>5. Same(p, r, Prime)
    <3>1. Same(p, p % Prime, Prime)
      BY <1>1, <2>3, SameRemainder
    <3> HIDE DEF p
    <3> QED BY <2>1, <3>1
  <2>6. Same(r + s, r, Prime)
    <3> HIDE DEF p, s
    <3> QED BY <2>3, <2>4, <2>5, SameEquivalence
  <2>7. PICK k \in Int : r + s = r + k * Prime
    BY <2>6 DEF Same
  <2>8. s = 0 + k * Prime
    <3>1. k * Prime \in Int
      BY <1>1
    <3> QED BY <1>1, <2>7, <3>1
  <2>9. Same(s, 0, Prime) /\ Same(s, s, Prime)
    <3>1. Same(s, s, Prime)
      <4> HIDE DEF s
      <4> QED BY <2>3, SameEquivalence
    <3> QED BY <2>8, <3>1 DEF Same
  <2>10. s % Prime = 0 /\ s % Prime = s
    <3>1. s \in 0 .. Prime - 1 /\ 0 \in 0 .. Prime - 1
      BY <1>1
    <3> HIDE DEF s
    <3> QED BY <1>1, <2>3, <2>9, <3>1, SameRemainder
  <2> QED BY <1>1, <2>10
<1>7. Reducing(r, 0, t)
  OBVIOUS
<1> HIDE DEF t, p, res
<1>8. (t \notin Lost /\ \E j \in 0 .. 2 : t = r + j * Prime)
        \/ (t \in Lost /\ t = r + CAPACITY + Prime)
  BY <1>7 DEF Reducing
<1>9. res = p % Prime <=> ~ CarryLost(p)
  BY <1>4, <1>5, <1>6, <1>8
<1> QED BY <1>9 DEF p, res

\* The arguments.
Arguments ==
  /\ IsNumber(left) /\ IsNumber(right)
  /\ mod \in 1 .. CAPACITY - 1
  /\ mpc \in {"add", "sub", "multFast", "fold", "again", "carry"} =>
       Num(left) < mod /\ Num(right) < mod
  /\ mpc \in {"align", "mult", "subtract"} => mod \in Power(WORD, WORDS - 1) .. CAPACITY - 1
  /\ mpc \in {"multFast", "fold", "again", "carry"} => mod = Prime

\* As many words as a product has.
IsProduct(x) == x \in Seq(Word) /\ Len(x) = 2 * WORDS

\* mmod(): what is left of the product is congruent to it and less than two
\* times the multiple.
Subtracting ==
  /\ shift \in -1 .. 2 * WORDS * WORD_BITS
  /\ IsProduct(product) /\ IsProduct(multiple)
  /\ Num(product) % mod = (Num(left) * Num(right)) % mod
  /\ Num(product) < mod * Power(2, shift + 1)
  /\ shift >= 0 => Num(multiple) = mod * Power(2, shift)

\* vli_mmod_fast_secp256k1(), after the first folding.
FoldedOnce ==
  LET x == Num(left) * Num(right)
      high == (x \div CAPACITY) * (WORD + OMEGA)
  IN  /\ IsNumber(result) /\ carry \in 0 .. 1 /\ IsProduct(multiple)
      /\ Num(result) + carry * CAPACITY = (x % CAPACITY) + (high % CAPACITY)
      /\ Num(High(multiple)) = high \div CAPACITY

\* The steps before the result, each with what it finds; and the result.
MultInv ==
  /\ mpc \in {"add", "sub", "mult", "multFast", "align", "subtract", "fold", "again", "carry",
              "added", "subtracted", "done", "doneFast"}
  /\ Arguments
  /\ mpc \in {"align", "fold"} => IsProduct(product) /\ Num(product) = Num(left) * Num(right)
  /\ mpc = "subtract" => Subtracting
  /\ mpc = "again" => FoldedOnce
  /\ mpc = "carry" =>
       /\ IsNumber(result) /\ carry \in 0 .. 2
       /\ Reducing(Num(result), carry, Folded(Num(left) * Num(right)))
  /\ ReducedResult

\* The result of the words that ReturnResult() is given.
LEMMA ResultOf ==
  ASSUME NEW words, NEW pc, pc \in {"added", "subtracted", "done", "doneFast"},
         MultInv, ReturnResult(words, pc),
         LET x == Num(left) y == Num(right) IN
           /\ pc = "added" => Num(words) = (x + y) % mod
           /\ pc = "subtracted" => Num(words) = (x - y) % mod
           /\ pc = "done" => Num(words) = (x * y) % mod
           /\ pc = "doneFast" => (Num(words) = (x * y) % mod <=> ~ CarryLost(x * y))
  PROVE  MultInv'
<1>1. mpc' = pc /\ result' = words /\ left' = left /\ right' = right /\ mod' = mod
  BY DEF ReturnResult, multArgs
<1>2. Arguments'
  BY <1>1 DEF MultInv, Arguments
<1>3. ReducedResult'
  BY <1>1 DEF ReducedResult
<1> QED BY <1>1, <1>2, <1>3 DEF MultInv

\* It holds at the beginning.
LEMMA MultStart == MultInit => MultInv
<1> SUFFICES ASSUME MultInit
             PROVE  MultInv
  OBVIOUS
<1>1. PICK m \in Moduli \cup {Prime} : \E f \in Factors(m) :
        /\ mod = m /\ (mpc # "mult" => f[1] < m /\ f[2] < m)
        /\ left = WordsOf(f[1], WORDS) /\ right = WordsOf(f[2], WORDS)
  BY DEF MultInit
<1>2. PICK f \in Factors(m) :
        /\ mod = m /\ (mpc # "mult" => f[1] < m /\ f[2] < m)
        /\ left = WordsOf(f[1], WORDS) /\ right = WordsOf(f[2], WORDS)
  BY <1>1
<1>3. m \in 1 .. CAPACITY - 1
  <2>1. CAPACITY \in Nat /\ Prime \in Nat /\ Prime > 1 /\ Prime < CAPACITY
    BY PrimeSizes DEF IsPrime
  <2>2. Power(WORD, WORDS - 1) \in Nat /\ Power(WORD, WORDS - 1) > 0
    <3>1. WORDS - 1 \in Nat
      BY Sizes
    <3> QED BY <3>1, Sizes
  <2>3. m \in Moduli => m \in Power(WORD, WORDS - 1) .. CAPACITY - 1
    BY ModuliAssumption
  <2> QED BY <2>1, <2>2, <2>3
<1>4. f \in (0 .. CAPACITY - 1) \X (0 .. CAPACITY - 1)
  BY <1>2, ModuliAssumption
<1>5. f[1] \in 0 .. CAPACITY - 1 /\ f[2] \in 0 .. CAPACITY - 1
  BY <1>4
<1>6. /\ IsNumber(left) /\ IsNumber(right)
      /\ mpc # "mult" => Num(left) < mod /\ Num(right) < mod
  <2>1. IsNumber(WordsOf(f[1], WORDS)) /\ Num(WordsOf(f[1], WORDS)) = f[1]
    BY <1>5, NumberOfWords
  <2>2. IsNumber(WordsOf(f[2], WORDS)) /\ Num(WordsOf(f[2], WORDS)) = f[2]
    BY <1>5, NumberOfWords
  <2> QED BY <1>2, <1>5, <2>1, <2>2
<1>7. Arguments
  <2>1. mpc \in {"add", "sub", "mult", "multFast"} /\ (mpc = "multFast" => mod = Prime)
        /\ (mpc # "multFast" => mod \in Moduli)
    BY DEF MultInit
  <2>2. mod \in Moduli => mod \in Power(WORD, WORDS - 1) .. CAPACITY - 1
    BY ModuliAssumption
  <2> QED BY <1>2, <1>3, <1>6, <2>1, <2>2 DEF Arguments
<1> QED BY <1>7 DEF MultInit, MultInv, ReducedResult

\* omega_mult(), with the words above its own that the code has set to 0.
LEMMA OmegaLong ==
  ASSUME NEW x, IsNumber(x)
  PROVE  LET w == omega_mult(x)
             t == w \o Zeros(WORDS - 2)
         IN  IsProduct(t) /\ Num(t) = Num(x) * (WORD + OMEGA) /\ Low(w) = Low(t)
<1> DEFINE w == omega_mult(x)
           z == Zeros(WORDS - 2)
           t == w \o z
<1>1. WORDS \in Nat /\ WORDS >= 3 /\ WORDS - 2 \in Nat
  BY Sizes
<1>2. w \in Seq(Word) /\ Len(w) = WORDS + 2 /\ Num(w) = Num(x) * (WORD + OMEGA)
  BY OmegaRight DEF IsNumber
<1>3. z \in Seq(Word) /\ Len(z) = WORDS - 2 /\ Num(z) = 0
  BY <1>1, NumZeros
<1> HIDE DEF w, z
<1>4. t \in Seq(Word) /\ Len(t) = 2 * WORDS
  <2>1. t \in Seq(Word) /\ Len(t) = Len(w) + Len(z)
    BY <1>2, <1>3, NumConcat
  <2> HIDE DEF t
  <2> QED BY <1>1, <1>2, <1>3, <2>1
<1>5. Num(t) = Num(w)
  <2>1. Num(t) = Num(w) + Power(WORD, Len(w)) * Num(z)
    BY <1>2, <1>3, NumConcat
  <2>2. Power(WORD, Len(w)) \in Nat /\ Num(w) \in Nat
    <3>1. Len(w) \in Nat
      BY <1>1, <1>2
    <3> QED BY <1>2, <3>1, Sizes, NumRange
  <2>3. Power(WORD, Len(w)) * 0 = 0
    BY <2>2
  <2> HIDE DEF t
  <2> QED BY <1>3, <2>1, <2>2, <2>3
<1>6. Low(w) = Low(t)
  <2>1. \A i \in 1 .. WORDS : t[i] = w[i]
    <3>1. \A i \in 1 .. Len(w) + Len(z) : t[i] = IF i <= Len(w) THEN w[i] ELSE z[i - Len(w)]
      BY <1>2, <1>3, ConcatProperties
    <3> HIDE DEF t
    <3> QED BY <1>1, <1>2, <1>3, <3>1
  <2> HIDE DEF t
  <2>2. /\ SubSeq(w, 1, WORDS) \in Seq(Word) /\ Len(SubSeq(w, 1, WORDS)) = WORDS
        /\ \A i \in 1 .. WORDS : SubSeq(w, 1, WORDS)[i] = w[i]
    BY <1>1, <1>2
  <2>3. /\ SubSeq(t, 1, WORDS) \in Seq(Word) /\ Len(SubSeq(t, 1, WORDS)) = WORDS
        /\ \A i \in 1 .. WORDS : SubSeq(t, 1, WORDS)[i] = t[i]
    BY <1>1, <1>4
  <2>4. SubSeq(w, 1, WORDS) = SubSeq(t, 1, WORDS)
    BY <2>1, <2>2, <2>3, SeqEqual
  <2> QED BY <2>4 DEF Low
<1> QED BY <1>2, <1>4, <1>5, <1>6 DEF IsProduct, w, z

\* Every step keeps it.
LEMMA MultStep == MultInv /\ [MultNext]_multVars => MultInv'
<1> SUFFICES ASSUME MultInv, [MultNext]_multVars
             PROVE  MultInv'
  OBVIOUS
<1> DEFINE a == Num(left)
           b == Num(right)
           x == a * b
<1>1. /\ IsNumber(left) /\ IsNumber(right) /\ mod \in 1 .. CAPACITY - 1
      /\ Num(left) < CAPACITY /\ Num(right) < CAPACITY /\ CAPACITY \in Nat
      /\ Num(left) \in Nat /\ Num(right) \in Nat
  <2>1. IsNumber(left) /\ IsNumber(right) /\ mod \in 1 .. CAPACITY - 1
    BY DEF MultInv, Arguments
  <2>2. CAPACITY \in Nat
    BY Sizes
  <2>3. Num(left) \in 0 .. CAPACITY - 1 /\ Num(right) \in 0 .. CAPACITY - 1
    BY <2>1, NumberFits
  <2> QED BY <2>1, <2>2, <2>3
<1>2. x \in Nat /\ x < CAPACITY * CAPACITY
  <2> HIDE DEF a, b
  <2>1. a \in Nat /\ b \in Nat /\ a < CAPACITY /\ b < CAPACITY
    BY <1>1 DEF a, b
  <2>2. a * b \in Nat /\ a * b <= CAPACITY * b /\ b * CAPACITY = CAPACITY * b
    BY <1>1, <2>1, TimesMonotone
  <2>3. CAPACITY > 0
    BY Sizes
  <2>4. b * CAPACITY < CAPACITY * CAPACITY
    BY <1>1, <2>1, <2>3, TimesMonotone
  <2>5. CAPACITY * b \in Int /\ CAPACITY * CAPACITY \in Int
    BY <1>1, <2>1
  <2> QED BY <2>2, <2>4, <2>5
<1>3. CASE ModAdd
  <2>1. mpc = "add" /\ ReturnResult(Added(left, right, mod), "added")
    BY <1>3 DEF ModAdd, Added
  <2>2. Num(Added(left, right, mod)) = (Num(left) + Num(right)) % mod
    BY <1>1, <2>1, AddReduced DEF MultInv, Arguments
  <2> QED BY <2>1, <2>2, ResultOf
<1>4. CASE ModSub
  <2>1. mpc = "sub" /\ ReturnResult(Subtracted(left, right, mod), "subtracted")
    BY <1>4 DEF ModSub, Subtracted
  <2>2. Num(Subtracted(left, right, mod)) = (Num(left) - Num(right)) % mod
    BY <1>1, <2>1, SubReduced DEF MultInv, Arguments
  <2> QED BY <2>1, <2>2, ResultOf
<1>5. CASE Mult
  <2>1. /\ mpc \in {"mult", "multFast"} /\ product' = vli_mult(left, right)
        /\ mpc' = (IF mpc = "mult" THEN "align" ELSE "fold")
        /\ left' = left /\ right' = right /\ mod' = mod
    BY <1>5 DEF Mult, multArgs
  <2>2. IsProduct(product') /\ Num(product') = Num(left) * Num(right)
    BY <1>1, <2>1, MultRight DEF IsNumber, IsProduct
  <2>3. Arguments'
    BY <2>1 DEF MultInv, Arguments
  <2>4. ReducedResult'
    BY <2>1 DEF ReducedResult
  <2> QED BY <2>1, <2>2, <2>3, <2>4 DEF MultInv
<1>6. CASE AlignMod
  <2>1. /\ mpc = "align" /\ mpc' = "subtract" /\ product' = product
        /\ shift' = AlignedShift(mod) /\ multiple' = Aligned(mod)
        /\ left' = left /\ right' = right /\ mod' = mod
    BY <1>6 DEF AlignMod, multArgs, AlignedShift, Aligned, ShiftedWords
  <2>2. mod \in Power(WORD, WORDS - 1) .. CAPACITY - 1
    BY <2>1 DEF MultInv, Arguments
  <2>3. /\ AlignedShift(mod) \in 0 .. 2 * WORDS * WORD_BITS
        /\ Aligned(mod) \in Seq(Word) /\ Len(Aligned(mod)) = 2 * WORDS
        /\ Num(Aligned(mod)) = mod * Power(2, AlignedShift(mod))
        /\ CAPACITY * CAPACITY <= mod * Power(2, AlignedShift(mod) + 1)
    BY <2>2, AlignRight
  <2>4. IsProduct(product) /\ Num(product) = x
    BY <2>1 DEF MultInv
  <2>5. Subtracting'
    <3>1. shift' \in -1 .. 2 * WORDS * WORD_BITS
      <4>1. 2 * WORDS * WORD_BITS \in Nat
        BY Sizes, WordBits
      <4> HIDE DEF x
      <4> QED BY <2>1, <2>3, <4>1
    <3>2. Num(product') < mod' * Power(2, shift' + 1)
      <4> DEFINE d == mod * Power(2, AlignedShift(mod) + 1)
                 e == CAPACITY * CAPACITY
      <4>1. d \in Nat /\ e \in Nat
        <5>1. AlignedShift(mod) + 1 \in Nat /\ 2 \in Nat
          BY <2>3
        <5>2. Power(2, AlignedShift(mod) + 1) \in Nat
          BY <5>1, PowerSteps
        <5>3. mod \in Nat
          BY <1>1
        <5> QED BY <1>1, <5>2, <5>3
      <4>2. e <= d /\ Num(product) = x /\ x < e
        BY <1>2, <2>3, <2>4
      <4> HIDE DEF d, e, x
      <4>3. Num(product) < d
        BY <1>2, <4>1, <4>2
      <4> QED BY <2>1, <4>3 DEF d
    <3>3. Num(product') % mod' = (Num(left') * Num(right')) % mod'
      BY <2>1, <2>4
    <3>4. IsProduct(product') /\ IsProduct(multiple') /\ Num(multiple') = mod' * Power(2, shift')
      BY <2>1, <2>3, <2>4 DEF IsProduct
    <3> QED BY <3>1, <3>2, <3>3, <3>4 DEF Subtracting
  <2>6. Arguments'
    BY <2>1 DEF MultInv, Arguments
  <2>7. ReducedResult'
    BY <2>1 DEF ReducedResult
  <2> QED BY <2>1, <2>5, <2>6, <2>7 DEF MultInv
<1>7. CASE SubtractMultiple
  <2>1. /\ mpc = "subtract" /\ mpc' = "subtract" /\ shift >= 0 /\ shift' = shift - 1
        /\ product' = Lessened(product, multiple) /\ multiple' = Halved(multiple)
        /\ left' = left /\ right' = right /\ mod' = mod
    BY <1>7 DEF SubtractMultiple, multArgs, Lessened
  <2>2. /\ shift \in -1 .. 2 * WORDS * WORD_BITS
        /\ product \in Seq(Word) /\ Len(product) = 2 * WORDS
        /\ multiple \in Seq(Word) /\ Len(multiple) = 2 * WORDS
        /\ Num(product) % mod = x % mod
        /\ Num(product) < mod * Power(2, shift + 1)
        /\ Num(multiple) = mod * Power(2, shift)
    BY <2>1 DEF MultInv, Subtracting, IsProduct
  <2>3. /\ shift \in Nat /\ shift \in 0 .. 2 * WORDS * WORD_BITS
        /\ shift - 1 \in -1 .. 2 * WORDS * WORD_BITS /\ (shift - 1) + 1 = shift
        /\ mod \in Nat /\ mod > 0
    <3>1. 2 * WORDS * WORD_BITS \in Nat
      BY Sizes, WordBits
    <3> HIDE DEF x
    <3> QED BY <1>1, <2>1, <2>2, <3>1
  <2> DEFINE k == Power(2, shift)
  <2>4. k \in Nat /\ Power(2, shift + 1) = 2 * k
    <3>1. 2 \in Nat
      OBVIOUS
    <3> QED BY <2>3, <3>1, PowerSteps
  <2>5. Num(multiple) = mod * k /\ mod * k \in Nat /\ mod * (2 * k) = mod * k + mod * k
    <3>1. mod * k \in Nat /\ mod * (2 * k) = mod * k + mod * k
      <4> HIDE DEF k
      <4> QED BY <2>3, <2>4
    <3> QED BY <2>2, <3>1
  <2> HIDE DEF k, x
  <2>6. /\ Lessened(product, multiple) \in Seq(Word)
        /\ Len(Lessened(product, multiple)) = Len(product)
        /\ Num(Lessened(product, multiple)) < Num(multiple)
        /\ Num(Lessened(product, multiple)) % mod = Num(product) % mod
    <3>1. Num(product) < Num(multiple) + Num(multiple)
      BY <2>2, <2>4, <2>5
    <3>2. Len(product) = Len(multiple)
      BY <2>2
    <3> QED BY SMTT(30), <2>2, <2>3, <2>4, <2>5, <3>1, <3>2, LessenedRight
  <2>7. /\ Halved(multiple) \in Seq(Word) /\ Len(Halved(multiple)) = 2 * WORDS
        /\ Num(Halved(multiple)) = (mod * k) \div 2
    BY <2>2, <2>5, HalvedRight
  <2>8. shift - 1 >= 0 => Num(Halved(multiple)) = mod * Power(2, shift - 1)
    <3> SUFFICES ASSUME shift - 1 >= 0
                 PROVE  Num(Halved(multiple)) = mod * Power(2, shift - 1)
      OBVIOUS
    <3>1. shift - 1 \in Nat /\ 2 \in Nat
      BY <2>3
    <3> DEFINE l == Power(2, shift - 1)
    <3>2. l \in Nat /\ k = 2 * l
      BY <2>3, <3>1, PowerSteps DEF k
    <3> HIDE DEF l
    <3>3. mod * k = (mod * l) * 2 + 0 /\ mod * l \in Int
      BY <2>3, <3>2
    <3>4. (mod * k) \div 2 = mod * l
      <4> DEFINE e == mod * k
                 f == mod * l
      <4>1. e \in Int /\ f \in Int /\ e = f * 2 + 0
        BY <2>5, <3>3
      <4> HIDE DEF e, f
      <4>2. e \div 2 = f
        BY <4>1
      <4> QED BY <4>2 DEF e, f
    <3> QED BY <2>7, <3>4 DEF l
  <2>9. Subtracting'
    <3>1. IsProduct(product') /\ IsProduct(multiple')
      BY <2>1, <2>2, <2>6, <2>7 DEF IsProduct
    <3>2. Num(product') % mod' = (Num(left') * Num(right')) % mod'
      BY <2>1, <2>2, <2>6 DEF x
    <3>3. Num(product') < mod' * Power(2, shift' + 1)
      BY <2>1, <2>3, <2>5, <2>6 DEF k
    <3>4. shift' >= 0 => Num(multiple') = mod' * Power(2, shift')
      BY <2>1, <2>8
    <3>5. shift' \in -1 .. 2 * WORDS * WORD_BITS
      BY <2>1, <2>3
    <3> QED BY <3>1, <3>2, <3>3, <3>4, <3>5 DEF Subtracting
  <2>10. Arguments'
    BY <2>1 DEF MultInv, Arguments
  <2>11. ReducedResult'
    BY <2>1 DEF ReducedResult
  <2> QED BY <2>1, <2>9, <2>10, <2>11 DEF MultInv
<1>8. CASE SetResult
  <2>1. mpc = "subtract" /\ shift < 0 /\ ReturnResult(Low(product), "done")
    BY <1>8 DEF SetResult
  <2>2. /\ shift \in -1 .. 2 * WORDS * WORD_BITS /\ product \in Seq(Word) /\ Len(product) = 2 * WORDS
        /\ Num(product) % mod = x % mod /\ Num(product) < mod * Power(2, shift + 1)
    BY <2>1 DEF MultInv, Subtracting, IsProduct
  <2>3. shift + 1 = 0 /\ 2 \in Nat
    BY <2>1, <2>2
  <2>4. Power(2, shift + 1) = 1
    BY <2>3, PowerSteps
  <2>5. Num(product) \in Nat /\ Num(product) < mod
    <3>1. mod * 1 = mod
      BY <1>1
    <3> QED BY <2>2, <2>4, <3>1, NumRange
  <2>6. Num(product) % mod = Num(product) /\ Num(product) < CAPACITY
    BY <1>1, <2>5
  <2>7. Num(Low(product)) = Num(product)
    BY <2>2, <2>6, LowOfSmall
  <2>8. Num(Low(product)) = (Num(left) * Num(right)) % mod
    BY <2>2, <2>6, <2>7
  <2> QED BY <2>1, <2>8, ResultOf
<1>9. CASE FoldHigh
  <2> DEFINE tmp == omega_mult(High(product)) \o Zeros(WORDS - 2)
             add == vli_add(Low(product), Low(tmp))
             high == (x \div CAPACITY) * (WORD + OMEGA)
  <2>1. /\ mpc = "fold" /\ mpc' = "again" /\ multiple' = tmp
        /\ result' = add.words /\ carry' = add.carry
        /\ left' = left /\ right' = right /\ mod' = mod
    BY <1>9 DEF FoldHigh, multArgs
  <2>2. product \in Seq(Word) /\ Len(product) = 2 * WORDS /\ Num(product) = x
    BY <2>1 DEF MultInv, IsProduct
  <2>3. /\ IsNumber(Low(product)) /\ IsNumber(High(product))
        /\ Num(Low(product)) = x % CAPACITY /\ Num(High(product)) = x \div CAPACITY
    BY <2>2, LowOfSmall
  <2>4. IsProduct(tmp) /\ Num(tmp) = high
    BY <2>3, OmegaLong
  <2> HIDE DEF tmp, high
  <2>5. /\ IsNumber(Low(tmp)) /\ Num(Low(tmp)) = high % CAPACITY
        /\ Num(High(tmp)) = high \div CAPACITY
    BY <2>4, LowOfSmall DEF IsProduct
  <2>6. /\ IsNumber(add.words) /\ add.carry \in 0 .. 1
        /\ Num(add.words) + add.carry * CAPACITY = (x % CAPACITY) + (high % CAPACITY)
    BY <2>3, <2>5, AddNumbers
  <2> HIDE DEF add
  <2>7. FoldedOnce'
    <3>1. IsNumber(result') /\ carry' \in 0 .. 1 /\ IsProduct(multiple')
      BY <2>1, <2>4, <2>6
    <3>2. (Num(left') * Num(right')) = x
      BY <2>1
    <3>3. Num(result') + carry' * CAPACITY = (x % CAPACITY) + (high % CAPACITY)
      BY <2>1, <2>6
    <3>4. Num(High(multiple')) = high \div CAPACITY
      BY <2>1, <2>5
    <3> QED BY <3>1, <3>2, <3>3, <3>4 DEF FoldedOnce, high
  <2>8. Arguments'
    BY <2>1 DEF MultInv, Arguments
  <2>9. ReducedResult'
    BY <2>1 DEF ReducedResult
  <2> QED BY <2>1, <2>7, <2>8, <2>9 DEF MultInv
<1>10. CASE FoldAgain
  <2> DEFINE high == (x \div CAPACITY) * (WORD + OMEGA)
             h == high \div CAPACITY
             e == h * (WORD + OMEGA)
             w == omega_mult(High(multiple))
             add == vli_add(result, Low(w))
  <2>1. /\ mpc = "again" /\ mpc' = "carry"
        /\ result' = add.words /\ carry' = carry + add.carry
        /\ left' = left /\ right' = right /\ mod' = mod
    BY <1>10 DEF FoldAgain, multArgs
  <2>2. /\ IsNumber(result) /\ carry \in 0 .. 1 /\ IsProduct(multiple)
        /\ Num(result) + carry * CAPACITY = (x % CAPACITY) + (high % CAPACITY)
        /\ Num(High(multiple)) = h
    BY <2>1 DEF MultInv, FoldedOnce
  <2>3. /\ x % CAPACITY \in Nat /\ high % CAPACITY \in Nat /\ h \in Nat
        /\ e \in Nat /\ e < CAPACITY
        /\ Folded(x) = (x % CAPACITY) + (high % CAPACITY) + e
        /\ Folded(x) \in Nat
    BY <1>2, FoldedBound
  <2>4. IsNumber(High(multiple))
    BY <2>2, LowOfSmall DEF IsProduct
  <2> HIDE DEF e, h
  <2>5. IsNumber(Low(w)) /\ Num(Low(w)) = e
    <3> DEFINE t == w \o Zeros(WORDS - 2)
    <3>1. IsProduct(t) /\ Num(t) = e /\ Low(w) = Low(t)
      BY <2>2, <2>4, OmegaLong DEF e
    <3> HIDE DEF t
    <3>2. IsNumber(Low(t)) /\ Num(Low(t)) = Num(t)
      BY <2>3, <3>1, LowOfSmall DEF IsProduct
    <3> QED BY <3>1, <3>2
  <2> HIDE DEF w
  <2>6. /\ IsNumber(add.words) /\ add.carry \in 0 .. 1
        /\ Num(add.words) + add.carry * CAPACITY = Num(result) + e
    BY <2>2, <2>5, AddNumbers
  <2>7. Num(add.words) \in 0 .. CAPACITY - 1 /\ Num(result) \in 0 .. CAPACITY - 1
    BY <2>2, <2>6, NumberFits
  <2> HIDE DEF add, high
  <2>8. carry + add.carry \in 0 .. 2
        /\ Num(add.words) + (carry + add.carry) * CAPACITY = Folded(x)
    <3>1. (carry + add.carry) * CAPACITY = carry * CAPACITY + add.carry * CAPACITY
          /\ carry * CAPACITY \in Int /\ add.carry * CAPACITY \in Int
      BY <1>1, <2>2, <2>6
    <3>2. carry + add.carry \in 0 .. 2
      BY <2>2, <2>6
    <3> HIDE DEF x
    <3> QED BY <2>2, <2>3, <2>6, <2>7, <3>1, <3>2
  <2>9. Reducing(Num(add.words), carry + add.carry, Folded(x))
    BY <2>3, <2>7, <2>8, ReducingStart
  <2>10. Arguments'
    BY <2>1 DEF MultInv, Arguments
  <2>11. ReducedResult'
    BY <2>1 DEF ReducedResult
  <2> QED BY <2>1, <2>6, <2>8, <2>9, <2>10, <2>11 DEF MultInv
<1>11. CASE SubtractCarry
  <2> DEFINE difference == vli_sub(result, curve_p)
             after == Num(difference.words)
  <2>1. /\ mpc = "carry" /\ carry > 0 /\ mpc' = "carry"
        /\ result' = difference.words /\ carry' = carry - 1
        /\ left' = left /\ right' = right /\ mod' = mod
    BY <1>11 DEF SubtractCarry, multArgs
  <2>2. IsNumber(result) /\ carry \in 1 .. 2 /\ Reducing(Num(result), carry, Folded(x))
    BY <2>1 DEF MultInv
  <2>3. IsNumber(curve_p) /\ Num(curve_p) = Prime
    BY PrimeSizes, NumberOfWords DEF curve_p
  <2>4. /\ IsNumber(difference.words) /\ difference.borrow \in 0 .. 1
        /\ Num(result) + difference.borrow * CAPACITY = after + Prime
    BY <2>2, <2>3, SubNumbers
  <2>5. Num(result) \in 0 .. CAPACITY - 1 /\ after \in 0 .. CAPACITY - 1
    BY <2>2, <2>4, NumberFits
  <2>6. /\ Folded(x) \in Nat
        /\ Folded(x) <= 2 * CAPACITY - 2 + ((WORD + OMEGA) * (WORD + OMEGA) - (WORD + OMEGA))
    BY <1>2, FoldedBound
  <2>7. Reducing(after, carry - 1, Folded(x))
    <3> HIDE DEF after, x
    <3> QED BY <2>2, <2>4, <2>5, <2>6, ReducingStep
  <2>8. Arguments'
    BY <2>1 DEF MultInv, Arguments
  <2>9. ReducedResult'
    BY <2>1 DEF ReducedResult
  <2>10. carry - 1 \in 0 .. 2
    BY <2>2
  <2> QED BY <2>1, <2>4, <2>7, <2>8, <2>9, <2>10 DEF MultInv
<1>12. CASE SubtractLast
  <2> DEFINE r == Num(result)
             above == vli_cmp(result, curve_p) > 0
             words == IF above THEN vli_sub(result, curve_p).words ELSE result
  <2>1. mpc = "carry" /\ carry = 0 /\ ReturnResult(words, "doneFast")
    BY <1>12 DEF SubtractLast
  <2>2. IsNumber(result) /\ Reducing(r, 0, Folded(x))
    BY <2>1 DEF MultInv
  <2>3. mod = Prime
    BY <2>1 DEF MultInv, Arguments
  <2>4. IsNumber(curve_p) /\ Num(curve_p) = Prime /\ Prime \in Nat
    BY PrimeSizes, NumberOfWords DEF curve_p
  <2>5. above <=> r > Prime
    BY <2>2, <2>4, CmpNumbers
  <2>6. r \in 0 .. CAPACITY - 1
    BY <2>2, NumberFits
  <2>7. Num(words) = IF r > Prime THEN r - Prime ELSE r
    <3>1. CASE r > Prime
      <4> DEFINE difference == vli_sub(result, curve_p)
      <4>1. /\ IsNumber(difference.words) /\ difference.borrow \in 0 .. 1
            /\ r + difference.borrow * CAPACITY = Num(difference.words) + Prime
        BY <2>2, <2>4, SubNumbers
      <4>2. Num(difference.words) \in 0 .. CAPACITY - 1
        BY <4>1, NumberFits
      <4>3. words = difference.words
        BY <2>5, <3>1
      <4> HIDE DEF r, difference, words
      <4>4. difference.borrow = 0 \/ difference.borrow = 1
        BY <4>1
      <4>5. Num(difference.words) = r - Prime
        <5>1. CASE difference.borrow = 0
          BY <1>1, <2>4, <2>6, <3>1, <4>1, <4>2, <5>1
        <5>2. CASE difference.borrow = 1
          BY <1>1, <2>4, <2>6, <3>1, <4>1, <4>2, <5>2
        <5> QED BY <4>4, <5>1, <5>2
      <4> QED BY <3>1, <4>3, <4>5
    <3>2. CASE ~ (r > Prime)
      BY <2>5, <3>2
    <3> QED BY <3>1, <3>2
  <2>8. a \in 0 .. Prime - 1 /\ b \in 0 .. Prime - 1
    <3>1. a < mod /\ b < mod
      BY <2>1 DEF MultInv, Arguments
    <3> HIDE DEF a, b
    <3>2. a \in Nat /\ b \in Nat
      BY <1>1 DEF a, b
    <3> QED BY <2>3, <2>4, <3>1, <3>2
  <2>9. Num(words) = (x % mod) <=> ~ CarryLost(x)
    <3>1. (IF r > Prime THEN r - Prime ELSE r) = x % Prime <=> ~ CarryLost(x)
      <4> HIDE DEF a, b, r
      <4> QED BY <2>2, <2>6, <2>8, ReducingEnd
    <3> QED BY <2>3, <2>7, <3>1
  <2> HIDE DEF words
  <2> QED BY <2>1, <2>9, ResultOf
<1>13. CASE UNCHANGED multVars
  BY <1>13 DEF multVars, MultInv, Arguments, Subtracting, FoldedOnce, ReducedResult
<1> QED BY <1>3, <1>4, <1>5, <1>6, <1>7, <1>8, <1>9, <1>10, <1>11, <1>12, <1>13 DEF MultNext

\* What a sum, a difference and a product return is what arithmetic says, for
\* every word size, number of words and prime of this form: the carries and
\* borrows of uECC_vli_modAdd(), modSub(), modMult() and modMult_fast(), but
\* for the carry that vli_mmod_fast_secp256k1() loses.
THEOREM ResultReduced == MultSpec => []ReducedResult
<1>1. MultInv => ReducedResult
  BY DEF MultInv
<1> QED BY <1>1, MultStart, MultStep, PTL DEF MultSpec
=============================================================================
