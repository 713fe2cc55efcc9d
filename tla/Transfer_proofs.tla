-------------------------- MODULE Transfer_proofs --------------------------
(***************************************************************************)
(* A whole session, from the hex file to the hash after the reset, for     *)
(* every file, every memory layout and every width of a byte: what the     *)
(* tool hashes is what the MCU programs, and what the MCU programs is what *)
(* it hashes.                                                              *)
(***************************************************************************)
EXTENDS Transfer, Device_proofs

-----------------------------------------------------------------------------
(* The addresses of a file.                                                *)

\* What the tool has read decides what the upper address is next.
LEMMA UpperNext ==
  ASSUME NEW f, NEW n \in Nat \ {0}
  PROVE  UpperAt(f, n + 1) = IF f[n].type = 4 THEN f[n].upper ELSE UpperAt(f, n)
<1> DEFINE before(m) == {k \in 1 .. m - 1 : f[k].type = 4}
           last(m) == CHOOSE k \in before(m) : \A j \in before(m) : j <= k
<1>1. \A m : UpperAt(f, m) = IF before(m) = {} THEN 0 ELSE f[last(m)].upper
  BY DEF UpperAt
<1>2. \A k : k \in 1 .. (n + 1) - 1 <=> k \in 1 .. n - 1 \/ k = n
  OBVIOUS
<1>3. CASE f[n].type = 4
  <2>1. n \in before(n + 1) /\ \A j \in before(n + 1) : j <= n
    BY <1>2, <1>3
  <2>2. \A k \in before(n + 1) : (\A j \in before(n + 1) : j <= k) => k = n
    BY <2>1
  <2>3. last(n + 1) = n
    BY <2>1, <2>2
  <2> HIDE DEF last, before
  <2> QED BY <1>1, <1>3, <2>1, <2>3
<1>4. CASE f[n].type # 4
  <2>1. before(n + 1) = before(n)
    BY <1>2, <1>4
  <2>2. last(n + 1) = last(n)
    BY <2>1
  <2> HIDE DEF last, before
  <2> QED BY <1>1, <1>4, <2>1, <2>2
<1> QED BY <1>3, <1>4

\* Upper addresses are numbers.
LEMMA UpperType ==
  ASSUME NEW f \in Files, NEW n \in 1 .. Len(f) + 1
  PROVE  UpperAt(f, n) \in Nat
<1> DEFINE S == {k \in Nat : k > Len(f) \/ UpperAt(f, k + 1) \in Nat}
<1>1. Len(f) \in Nat /\ \A k \in 1 .. Len(f) : f[k].type = 4 => f[k].upper \in Nat
  BY FilesAssumption
<1>2. 0 \in S
  <2>1. {k \in 1 .. (0 + 1) - 1 : f[k].type = 4} = {}
    OBVIOUS
  <2>2. UpperAt(f, 0 + 1) = 0
    BY <2>1 DEF UpperAt
  <2> QED BY <2>2
<1>3. ASSUME NEW k \in Nat, k \in S
      PROVE  k + 1 \in S
  <2>1. CASE k + 1 > Len(f)
    BY <2>1
  <2>2. CASE k + 1 <= Len(f)
    <3>1. UpperAt(f, k + 1) \in Nat /\ k + 1 \in 1 .. Len(f)
      BY <1>1, <1>3, <2>2
    <3>2. UpperAt(f, (k + 1) + 1) = IF f[k + 1].type = 4 THEN f[k + 1].upper
                                    ELSE UpperAt(f, k + 1)
      BY UpperNext
    <3> QED BY <1>1, <3>1, <3>2
  <2> QED BY <1>1, <2>1, <2>2
<1>4. S = Nat
  <2> HIDE DEF S
  <2>1. S \in SUBSET Nat
    BY DEF S
  <2> QED BY <1>2, <1>3, <2>1, Induction
<1>5. n - 1 \in S
  BY <1>1, <1>4
<1> QED BY <1>1, <1>5

\* A record that is to be sent, and that a 24-bit address holds all of it.
LEMMA LoadedFacts ==
  ASSUME NEW f \in Files, NEW n \in Loaded(f)
  PROVE  /\ n \in 1 .. Len(f) /\ f[n].type = 0
         /\ f[n].data \in Seq(Byte) /\ Len(f[n].data) \in Nat
         /\ AddrAt(f, n) \in Nat /\ EndAt(f, n) \in Nat
         /\ EndAt(f, n) = AddrAt(f, n) + Len(f[n].data)
         /\ EndAt(f, n) < ADDR_MOD
<1>1. n \in 1 .. Len(f) /\ f[n].type = 0 /\ UpperAt(f, n) <= LAST_UPPER /\ Len(f) \in Nat
  BY FilesAssumption DEF Loaded
<1>2. UpperAt(f, n) \in Nat
  BY <1>1, UpperType
<1> DEFINE room == (LAST_UPPER + 1) * SEGMENT
<1>3. /\ LAST_UPPER \in Nat /\ SEGMENT \in Nat
      /\ f[n].data \in Seq(Byte) /\ f[n].addr \in 0 .. SEGMENT - 1
      /\ room + Len(f[n].data) <= ADDR_MOD
  BY ZenonT(30), <1>1, FilesAssumption
<1>4. ASSUME NEW u \in Nat, NEW v \in Nat, u <= v, NEW s \in Nat
      PROVE  u * s \in Nat /\ u * s + s <= (v + 1) * s
  <2>1. v - u \in Nat /\ (v - u) * s \in Nat /\ u * s \in Nat
    BY <1>4
  <2>2. (v + 1) * s = u * s + (v - u) * s + s
    BY <2>1
  <2> QED BY <2>1, <2>2
<1>5. UpperAt(f, n) * SEGMENT \in Nat /\ UpperAt(f, n) * SEGMENT + SEGMENT <= room
  BY <1>1, <1>2, <1>3, <1>4
<1>6. room \in Nat /\ Len(f[n].data) \in Nat /\ ADDR_MOD \in Nat
  BY <1>3, RequestAssumption
<1> HIDE DEF room
<1>7. AddrAt(f, n) \in Nat /\ AddrAt(f, n) < room
  BY <1>3, <1>5, <1>6 DEF AddrAt
<1>8. EndAt(f, n) = AddrAt(f, n) + Len(f[n].data)
  BY DEF EndAt
<1>9. EndAt(f, n) \in Nat /\ EndAt(f, n) < ADDR_MOD
  <2>1. ASSUME NEW a \in Nat, NEW r \in Nat, NEW l \in Nat, NEW m \in Nat,
               a < r, r + l <= m
        PROVE  a + l \in Nat /\ a + l < m
    BY <2>1
  <2> QED BY SMTT(30), <1>3, <1>6, <1>7, <1>8, <2>1
<1> QED BY <1>1, <1>3, <1>6, <1>7, <1>8, <1>9

-----------------------------------------------------------------------------
(* What is programmed, and what has been hashed.                           *)

\* The memory below the signature, as the first n bytes of h have it: the GOTO
\* at address 4, nothing else there, and nothing behind them.
Mirrors(f, h, n) ==
  /\ \A x \in 0 .. 3 : f[x + 4] = IF x < n THEN h[x + 1] ELSE ERASED
  /\ \A x \in 8 .. SIGNAT_OFFSET - 1 : f[x] = IF x < n THEN h[x + 1] ELSE ERASED
  /\ \A x \in 4 .. 7 : x < n => h[x + 1] = ERASED

\* From n to a, h has fill, and from there d.
Continues(h, n, a, d) ==
  /\ \A k \in n + 1 .. a : h[k] = ERASED
  /\ \A k \in 1 .. Len(d) : h[a + k] = d[k]

\* No byte of a record at a is meant for 4 to 7.
LeavesGap(a, d) == \A k \in 1 .. Len(d) : a + k - 1 \in 4 .. 7 => d[k] = ERASED

\* Every address below the signature is one of the memory.
LEMMA LowAddr ==
  /\ SIGNAT_OFFSET \in Nat /\ SIGNAT_OFFSET > 8
  /\ \A x \in 0 .. SIGNAT_OFFSET - 1 : x \in Addr
BY Layout DEF Addr

\* An erased byte takes what is programmed.
LEMMA ErasedTakes ==
  ASSUME NEW b \in Byte
  PROVE  ERASED \cap b = b /\ b \cap ERASED = b
BY DEF Byte, ERASED

\* What WriteBytes makes of a byte.
LEMMA WriteAt ==
  ASSUME NEW f \in [Addr -> Byte], NEW a \in Nat, NEW s \in Seq(Byte), NEW x \in Addr
  PROVE  /\ x \in Nat
         /\ x >= a /\ x < a + Len(s) =>
              /\ x - a + 1 \in 1 .. Len(s) /\ s[x - a + 1] \in Byte
              /\ WriteBytes(f, a, s)[x] = f[x] \cap s[x - a + 1]
         /\ ~(x >= a /\ x < a + Len(s)) => WriteBytes(f, a, s)[x] = f[x]
<1>1. x \in Nat /\ Len(s) \in Nat /\ DOMAIN f = Addr
  BY TopAssumption DEF Addr
<1>2. x \in a .. a + Len(s) - 1 <=> x >= a /\ x < a + Len(s)
  BY <1>1
<1>3. x >= a /\ x < a + Len(s) => x - a + 1 \in 1 .. Len(s)
  BY <1>1
<1>4. \A k \in 1 .. Len(s) : s[k] \in Byte
  OBVIOUS
<1>5. WriteBytes(f, a, s)[x]
        = IF x \in a .. a + Len(s) - 1 THEN f[x] \cap s[x - a + 1] ELSE f[x]
  BY <1>1 DEF WriteBytes
<1> QED BY <1>1, <1>2, <1>3, <1>4, <1>5

\* A record behind the vector is programmed where it belongs.
LEMMA MirrorRecord ==
  ASSUME NEW f \in [Addr -> Byte], NEW h, NEW n \in Nat, NEW a \in Nat, n <= a, a >= 4,
         NEW d \in Seq(Byte), a + Len(d) < SIGNAT_OFFSET,
         Mirrors(f, h, n), Continues(h, n, a, d), LeavesGap(a, d)
  PROVE  Mirrors(WriteBytes(f, a, d), h, a + Len(d))
<1> DEFINE g == WriteBytes(f, a, d)
           e == a + Len(d)
<1>0. Len(d) \in Nat /\ e \in Nat /\ e < SIGNAT_OFFSET /\ a <= e
  OBVIOUS
<1>1. ASSUME NEW x \in Nat, x < SIGNAT_OFFSET
      PROVE  /\ x >= a /\ x < e => /\ x - a + 1 \in 1 .. Len(d) /\ d[x - a + 1] \in Byte
                                   /\ g[x] = f[x] \cap d[x - a + 1]
             /\ ~(x >= a /\ x < e) => g[x] = f[x]
  <2>1. x \in Addr
    BY <1>1, LowAddr
  <2> QED BY <2>1, WriteAt
<1>2. ASSUME NEW x \in Nat, x < e, x >= n
      PROVE  /\ x < a => h[x + 1] = ERASED
             /\ x >= a => x - a + 1 \in 1 .. Len(d) /\ h[x + 1] = d[x - a + 1]
  <2>1. x < a => x + 1 \in n + 1 .. a
    BY <1>2
  <2>2. x >= a => x - a + 1 \in 1 .. Len(d) /\ a + (x - a + 1) = x + 1
    BY <1>2, <1>0
  <2> QED BY <2>1, <2>2 DEF Continues
<1>3. ASSUME NEW x \in 4 .. 7, x >= a, x < e
      PROVE  d[x - a + 1] = ERASED
  <2>1. x - a + 1 \in 1 .. Len(d) /\ a + (x - a + 1) - 1 = x
    BY <1>0, <1>3
  <2> QED BY <1>3, <2>1 DEF LeavesGap
<1> HIDE DEF g, e
<1>4. ASSUME NEW x \in 0 .. 3
      PROVE  g[x + 4] = IF x < e THEN h[x + 1] ELSE ERASED
  <2>1. x + 4 \in Nat /\ x + 4 < SIGNAT_OFFSET /\ x + 4 \in 4 .. 7 /\ x < e /\ x < a
    BY <1>0, <1>4, LowAddr
  <2>2. f[x + 4] \in Byte
    BY <2>1, LowAddr
  <2>3. g[x + 4] = f[x + 4]
    BY <1>1, <1>3, <2>1, <2>2, ErasedTakes
  <2>4. f[x + 4] = IF x < n THEN h[x + 1] ELSE ERASED
    BY DEF Mirrors
  <2>5. x >= n => h[x + 1] = ERASED
    BY <1>2, <2>1
  <2> QED BY <2>1, <2>3, <2>4, <2>5
<1>5. ASSUME NEW x \in 8 .. SIGNAT_OFFSET - 1
      PROVE  g[x] = IF x < e THEN h[x + 1] ELSE ERASED
  <2>1. x \in Nat /\ x < SIGNAT_OFFSET
    BY LowAddr
  <2>2. f[x] = IF x < n THEN h[x + 1] ELSE ERASED
    BY DEF Mirrors
  <2>3. CASE x < n
    BY <1>0, <1>1, <2>1, <2>2, <2>3
  <2>4. CASE x >= n /\ x < a
    BY <1>0, <1>1, <1>2, <2>1, <2>2, <2>4
  <2>5. CASE x >= a /\ x < e
    <3>1. g[x] = f[x] \cap d[x - a + 1] /\ d[x - a + 1] \in Byte
      BY <1>1, <2>1, <2>5
    <3>2. f[x] = ERASED /\ h[x + 1] = d[x - a + 1]
      BY <1>2, <2>1, <2>2, <2>5
    <3> QED BY <2>5, <3>1, <3>2, ErasedTakes
  <2>6. CASE x >= e
    BY <1>0, <1>1, <2>1, <2>2, <2>6
  <2> QED BY <1>0, <2>1, <2>3, <2>4, <2>5, <2>6
<1>6. ASSUME NEW x \in 4 .. 7, x < e
      PROVE  h[x + 1] = ERASED
  <2>1. x < n => h[x + 1] = ERASED
    BY DEF Mirrors
  <2> QED BY <1>2, <1>3, <1>6, <2>1
<1>7. Mirrors(g, h, e)
  BY <1>4, <1>5, <1>6 DEF Mirrors
<1> QED BY <1>7 DEF g, e

\* What message_handle() makes of a record for address 0.
Start(f, d) == WriteBytes(WriteBytes(f, 4, SubSeq(d, 1, 4)), 8, SubSeq(d, 9, Len(d)))

\* The pieces of that record.
LEMMA StartPieces ==
  ASSUME NEW d \in Seq(Byte), Len(d) >= 4
  PROVE  /\ SubSeq(d, 1, 4) \in Seq(Byte) /\ Len(SubSeq(d, 1, 4)) = 4
         /\ \A k \in 1 .. 4 : SubSeq(d, 1, 4)[k] = d[k]
         /\ SubSeq(d, 9, Len(d)) \in Seq(Byte)
         /\ Len(SubSeq(d, 9, Len(d))) = IF Len(d) > 8 THEN Len(d) - 8 ELSE 0
         /\ \A k \in 1 .. Len(d) - 8 : SubSeq(d, 9, Len(d))[k] = d[k + 8]
OBVIOUS

\* A first record with the GOTO in it is programmed where it belongs.
LEMMA MirrorStart ==
  ASSUME NEW f \in [Addr -> Byte], NEW h, NEW d \in Seq(Byte),
         Len(d) >= 4, Len(d) < SIGNAT_OFFSET,
         Mirrors(f, h, 0), Continues(h, 0, 0, d), LeavesGap(0, d)
  PROVE  Mirrors(Start(f, d), h, Len(d))
<1> DEFINE goto == SubSeq(d, 1, 4)
           rest == SubSeq(d, 9, Len(d))
           g == WriteBytes(f, 4, goto)
<1>0. Len(d) \in Nat /\ \A k \in 1 .. Len(d) : d[k] \in Byte
  OBVIOUS
<1>1. /\ goto \in Seq(Byte) /\ Len(goto) = 4 /\ \A k \in 1 .. 4 : goto[k] = d[k]
      /\ rest \in Seq(Byte) /\ Len(rest) = IF Len(d) > 8 THEN Len(d) - 8 ELSE 0
      /\ \A k \in 1 .. Len(d) - 8 : rest[k] = d[k + 8]
  BY StartPieces
<1> HIDE DEF goto, rest
<1>2. g \in [Addr -> Byte]
  BY <1>1, WriteKeepsBytes
<1>3. Start(f, d) = WriteBytes(g, 8, rest)
  BY DEF Start, goto, rest
<1>4. \A x \in 1 .. Len(d) : h[x] = d[x]
  <2>1. \A x \in 1 .. Len(d) : h[0 + x] = d[x] /\ 0 + x = x
    BY DEF Continues
  <2> QED BY <2>1
<1>5. ASSUME NEW x \in Addr
      PROVE  /\ x >= 4 /\ x < 8 => g[x] = f[x] \cap goto[x - 3]
             /\ ~(x >= 4 /\ x < 8) => g[x] = f[x]
  <2> DEFINE four == 4
  <2>1. four \in Nat /\ four = 4
    OBVIOUS
  <2>0. goto \in Seq(Byte)
    BY <1>1
  <2> HIDE DEF four, g
  <2>2. /\ x \in Nat
        /\ x >= four /\ x < four + Len(goto) =>
             WriteBytes(f, four, goto)[x] = f[x] \cap goto[x - four + 1]
        /\ ~(x >= four /\ x < four + Len(goto)) => WriteBytes(f, four, goto)[x] = f[x]
    BY <2>0, <2>1, WriteAt
  <2>3. x - four + 1 = x - 3
    BY <2>1, <2>2
  <2>4. g = WriteBytes(f, four, goto)
    BY <2>1 DEF g
  <2> QED BY <1>1, <2>1, <2>2, <2>3, <2>4
<1> HIDE DEF g
<1>9. ASSUME NEW x \in Addr
      PROVE  /\ x >= 8 /\ x < 8 + Len(rest) =>
                  Start(f, d)[x] = g[x] \cap rest[x - 7]
             /\ ~(x >= 8 /\ x < 8 + Len(rest)) => Start(f, d)[x] = g[x]
  <2> DEFINE eight == 8
  <2>1. eight \in Nat /\ eight = 8
    OBVIOUS
  <2>0. rest \in Seq(Byte)
    BY <1>1
  <2> HIDE DEF eight
  <2>2. /\ x \in Nat
        /\ x >= eight /\ x < eight + Len(rest) =>
             WriteBytes(g, eight, rest)[x] = g[x] \cap rest[x - eight + 1]
        /\ ~(x >= eight /\ x < eight + Len(rest)) => WriteBytes(g, eight, rest)[x] = g[x]
    BY <1>2, <2>0, <2>1, WriteAt
  <2>3. x - eight + 1 = x - 7
    BY <2>1, <2>2
  <2>4. Start(f, d) = WriteBytes(g, eight, rest)
    BY <1>3, <2>1
  <2> QED BY <2>1, <2>2, <2>3, <2>4
<1>6. ASSUME NEW x \in 0 .. 3
      PROVE  Start(f, d)[x + 4] = IF x < Len(d) THEN h[x + 1] ELSE ERASED
  <2>1. x + 4 \in Addr /\ x + 4 >= 4 /\ x + 4 < 8 /\ x < Len(d) /\ x + 1 \in 1 .. 4
        /\ x + 1 \in 1 .. Len(d)
    BY <1>0, LowAddr
  <2>2. Start(f, d)[x + 4] = g[x + 4]
    BY <1>9, <2>1
  <2>3. x + 4 - 3 = x + 1
    OBVIOUS
  <2>4. g[x + 4] = f[x + 4] \cap d[x + 1]
    <3>1. g[x + 4] = f[x + 4] \cap goto[x + 4 - 3]
      BY <1>5, <2>1
    <3> QED BY <1>1, <2>1, <2>3, <3>1
  <2>5. f[x + 4] = ERASED
    BY DEF Mirrors
  <2> QED BY <1>0, <1>4, <2>1, <2>2, <2>4, <2>5, ErasedTakes
<1>7. ASSUME NEW x \in 8 .. SIGNAT_OFFSET - 1
      PROVE  Start(f, d)[x] = IF x < Len(d) THEN h[x + 1] ELSE ERASED
  <2>1. x \in Addr /\ x \in Nat /\ x >= 8
    BY LowAddr
  <2>2. g[x] = ERASED
    BY <1>5, <2>1 DEF Mirrors
  <2>3. CASE x < Len(d)
    <3>1. x >= 8 /\ x < 8 + Len(rest)
      BY <1>0, <1>1, <2>1, <2>3
    <3>2. Start(f, d)[x] = g[x] \cap rest[x - 7]
      BY <1>9, <2>1, <3>1
    <3>3. x - 7 \in 1 .. Len(d) - 8 /\ x - 7 + 8 = x + 1 /\ x + 1 \in 1 .. Len(d)
      BY <1>0, <2>1, <2>3
    <3>4. rest[x - 7] = d[x + 1]
      BY <1>1, <3>3
    <3> QED BY <1>0, <1>4, <2>2, <2>3, <3>2, <3>3, <3>4, ErasedTakes
  <2>4. CASE ~(x < Len(d))
    <3>1. ~(x >= 8 /\ x < 8 + Len(rest))
      BY <1>0, <1>1, <2>1, <2>4
    <3> QED BY <1>9, <2>1, <2>2, <2>4, <3>1
  <2> QED BY <2>3, <2>4
<1>8. ASSUME NEW x \in 4 .. 7, x < Len(d)
      PROVE  h[x + 1] = ERASED
  <2>1. x + 1 \in 1 .. Len(d) /\ 0 + (x + 1) - 1 = x
    BY <1>0, <1>8
  <2> QED BY <1>4, <1>8, <2>1 DEF LeavesGap
<1> QED BY <1>6, <1>7, <1>8 DEF Mirrors

\* What is written below the metadata does not reach it.
LEMMA WriteBelow ==
  ASSUME NEW f \in [Addr -> Byte], NEW a \in Nat, NEW s \in Seq(Byte),
         a + Len(s) <= SIGNAT_OFFSET
  PROVE  \A x \in SIGNAT_OFFSET .. BTLD_OFFSET - 1 : WriteBytes(f, a, s)[x] = f[x]
<1>1. /\ SIGNAT_OFFSET \in Nat /\ Len(s) \in Nat
      /\ BTLD_OFFSET \in Nat /\ BTLD_OFFSET <= TOP /\ TOP \in Nat
  BY Layout
<1>2. ASSUME NEW x \in SIGNAT_OFFSET .. BTLD_OFFSET - 1
      PROVE  WriteBytes(f, a, s)[x] = f[x]
  <2>1. x \in Addr /\ ~(x >= a /\ x < a + Len(s))
    BY <1>1 DEF Addr
  <2> QED BY <2>1, WriteAt
<1> QED BY <1>2

\* Nor does a record for address 0.
LEMMA StartBelow ==
  ASSUME NEW f \in [Addr -> Byte], NEW d \in Seq(Byte),
         Len(d) >= 4, Len(d) < SIGNAT_OFFSET
  PROVE  \A x \in SIGNAT_OFFSET .. BTLD_OFFSET - 1 : Start(f, d)[x] = f[x]
<1> DEFINE goto == SubSeq(d, 1, 4)
           rest == SubSeq(d, 9, Len(d))
           four == 4
           eight == 8
           g == WriteBytes(f, four, goto)
<1>1. /\ goto \in Seq(Byte) /\ Len(goto) = 4 /\ rest \in Seq(Byte)
      /\ Len(rest) = IF Len(d) > 8 THEN Len(d) - 8 ELSE 0
  BY StartPieces
<1>2. four \in Nat /\ eight \in Nat /\ four = 4 /\ eight = 8 /\ Len(d) \in Nat
  OBVIOUS
<1>3. Start(f, d) = WriteBytes(g, eight, rest)
  BY DEF Start
<1>4. g \in [Addr -> Byte]
  BY WriteKeepsBytes
<1> HIDE DEF goto, rest, four, eight
<1>5. four + Len(goto) <= SIGNAT_OFFSET /\ eight + Len(rest) <= SIGNAT_OFFSET
  BY <1>1, <1>2, LowAddr
<1>6. \A x \in SIGNAT_OFFSET .. BTLD_OFFSET - 1 : g[x] = f[x]
  BY <1>1, <1>2, <1>5, WriteBelow
<1> HIDE DEF g
<1>7. \A x \in SIGNAT_OFFSET .. BTLD_OFFSET - 1 : WriteBytes(g, eight, rest)[x] = g[x]
  BY <1>1, <1>2, <1>4, <1>5, WriteBelow
<1> QED BY <1>3, <1>6, <1>7

\* What is programmed above does not matter.
LEMMA MirrorsKept ==
  ASSUME NEW f, NEW g, NEW h, NEW n, Mirrors(f, h, n),
         \A x \in 0 .. SIGNAT_OFFSET - 1 : g[x] = f[x]
  PROVE  Mirrors(g, h, n)
<1>1. \A x \in 0 .. 3 : x + 4 \in 0 .. SIGNAT_OFFSET - 1
  BY LowAddr
<1>2. \A x \in 8 .. SIGNAT_OFFSET - 1 : x \in 0 .. SIGNAT_OFFSET - 1
  BY LowAddr
<1> QED BY <1>1, <1>2 DEF Mirrors

\* Nor does what is hashed later.
LEMMA MirrorsLonger ==
  ASSUME NEW f, NEW h, NEW i, NEW n \in Nat, Mirrors(f, h, n),
         \A k \in 1 .. n : i[k] = h[k]
  PROVE  Mirrors(f, i, n)
<1>1. \A x \in Nat : x < n => x + 1 \in 1 .. n
  OBVIOUS
<1>2. \A x \in 0 .. 3 : x \in Nat
  OBVIOUS
<1>3. \A x \in 8 .. SIGNAT_OFFSET - 1 : x \in Nat
  BY LowAddr
<1>4. \A x \in 4 .. 7 : x \in Nat
  OBVIOUS
<1> QED BY <1>1, <1>2, <1>3, <1>4 DEF Mirrors

\* Three digits say a number that three digits can say.
LEMMA SizeDigits ==
  ASSUME NEW n \in Nat, n < RADIX * RADIX * RADIX
  PROVE  SizeFrom(SizeBytes(n)) = n
<1> DEFINE R == RADIX
           low == n % R
           q == n \div R
           mid == q % R
           high == q \div R
<1>1. R \in Nat /\ R > 0 /\ \A k \in 0 .. R - 1 : NumOf(ByteOf(k)) = k
  BY ByteAssumption
<1>2. q \in Nat /\ low \in 0 .. R - 1 /\ n = q * R + low
  BY <1>1
<1>3. high \in Nat /\ mid \in 0 .. R - 1 /\ q = high * R + mid
  BY <1>1, <1>2
<1>0. n < R * R * R
  OBVIOUS
<1>d. SizeBytes(n) = <<ByteOf((n \div (R * R)) % R), ByteOf(q % R), ByteOf(low)>>
  BY DEF SizeBytes
<1>f. \A d : SizeFrom(d) = NumOf(d[1]) * R * R + NumOf(d[2]) * R + NumOf(d[3])
  BY DEF SizeFrom
<1> HIDE DEF R
<1>4. n \div (R * R) = high
  <2> DEFINE square == R * R
             rest == mid * R + low
  <2>1. square \in Nat /\ square > 0 /\ mid * R \in Nat /\ high * square \in Nat
    BY <1>1, <1>3
  <2>2. rest \in 0 .. square - 1
    <3>1. (mid + 1) * R <= square
      <4>1. R - (mid + 1) \in Nat /\ (R - (mid + 1)) * R \in Nat
        BY <1>1, <1>3
      <4>2. square = (mid + 1) * R + (R - (mid + 1)) * R
        BY <1>1, <1>3
      <4>3. (mid + 1) * R \in Nat
        BY <1>1, <1>3
      <4> HIDE DEF mid, square
      <4> QED BY <2>1, <4>1, <4>2, <4>3
    <3>2. (mid + 1) * R = mid * R + R
      BY <1>1, <1>3
    <3> HIDE DEF mid, low, square
    <3> QED BY <1>1, <1>2, <1>3, <2>1, <3>1, <3>2
  <2>3. n = high * square + rest
    <3>1. q * R = high * square + mid * R
      BY <1>1, <1>2, <1>3
    <3> HIDE DEF q, high, mid, low, square
    <3> QED BY <1>2, <2>1, <3>1
  <2> HIDE DEF square, rest, high
  <2>4. n \in Int /\ high \in Int
    BY <1>3
  <2>5. n \div square = high
    BY <2>1, <2>2, <2>3, <2>4, DivideUnique
  <2> QED BY <2>5 DEF square
<1>5. high < R
  <2> DEFINE square == R * R
  <2>1. SUFFICES ASSUME high >= R PROVE FALSE
    BY <1>1, <1>3
  <2>2. square \in Nat /\ n < R * square /\ R * square \in Nat
    BY <1>0, <1>1
  <2>3. n >= high * square
    <3>1. q * R = high * square + mid * R /\ mid * R \in Nat /\ high * square \in Nat
      BY <1>1, <1>2, <1>3
    <3> HIDE DEF q, high, mid, low, square
    <3> QED BY <1>2, <3>1
  <2>4. high * square = R * square + (high - R) * square /\ (high - R) * square \in Nat
    BY <1>1, <1>3, <2>1, <2>2
  <2> HIDE DEF square, high
  <2> QED BY <1>1, <1>3, <2>2, <2>3, <2>4
<1>6. high % R = high
  BY <1>1, <1>3, <1>5, SmallModulo
<1>7. /\ NumOf(ByteOf(high)) = high /\ NumOf(ByteOf(mid)) = mid /\ NumOf(ByteOf(low)) = low
  BY <1>1, <1>2, <1>3, <1>5
<1> HIDE DEF low, high, mid
<1>8. SizeBytes(n) = <<ByteOf(high), ByteOf(mid), ByteOf(low)>>
  BY <1>d, <1>4, <1>6 DEF mid
<1>9. SizeFrom(SizeBytes(n)) = high * R * R + mid * R + low
  BY <1>f, <1>7, <1>8
<1> HIDE DEF q
<1>10. n = high * R * R + mid * R + low
  BY <1>1, <1>2, <1>3
<1> QED BY <1>9, <1>10

\* The code size is sent as three bytes.
LEMMA SizeBytesType ==
  ASSUME NEW n \in Nat
  PROVE  SizeBytes(n) \in Seq(Byte) /\ Len(SizeBytes(n)) = 3
<1>1. \A m \in Nat : m % RADIX \in 0 .. RADIX - 1
  BY ByteAssumption
<1>2. n \div RADIX \in Nat /\ n \div (RADIX * RADIX) \in Nat
  <2>1. RADIX \in Nat /\ RADIX > 0 /\ RADIX * RADIX \in Nat /\ RADIX * RADIX > 0
    BY ByteAssumption
  <2>2. \A m \in Nat : m > 0 => n \div m \in Nat
    OBVIOUS
  <2> QED BY <2>1, <2>2
<1>3. \A m \in Nat : ByteOf(m % RADIX) \in Byte
  BY <1>1, ByteAssumption
<1>4. /\ ByteOf((n \div (RADIX * RADIX)) % RADIX) \in Byte
      /\ ByteOf((n \div RADIX) % RADIX) \in Byte /\ ByteOf(n % RADIX) \in Byte
  BY <1>2, <1>3
<1>5. \A x, y, z \in Byte : <<x, y, z>> \in Seq(Byte) /\ Len(<<x, y, z>>) = 3
  OBVIOUS
<1> QED BY <1>4, <1>5 DEF SizeBytes

\* The size goes where the MCU will look for it, and leaves the rest alone.
LEMMA SizeWritten ==
  ASSUME NEW f \in [Addr -> Byte], NEW n \in Nat, n < SIGNAT_OFFSET,
         \A x \in SIGNAT_OFFSET .. BTLD_OFFSET - 1 : f[x] = ERASED
  PROVE  /\ StoredSize(WriteBytes(f, CODE_SIZE_OFFSET, SizeBytes(n))) = n
         /\ \A x \in 0 .. CODE_SIZE_OFFSET - 1 :
              WriteBytes(f, CODE_SIZE_OFFSET, SizeBytes(n))[x] = f[x]
<1> DEFINE d == SizeBytes(n)
           c == CODE_SIZE_OFFSET
           g == WriteBytes(f, c, d)
<1>1. d \in Seq(Byte) /\ Len(d) = 3
  BY SizeBytesType
<1>2. /\ c \in Nat /\ SIGNAT_OFFSET \in Nat /\ SIGNAT_OFFSET <= c /\ c + 3 = BTLD_OFFSET
      /\ BTLD_OFFSET <= TOP /\ TOP \in Nat
  BY Layout DEF CODE_SIZE_BYTES
<1>3. g \in [Addr -> Byte]
  BY WriteKeepsBytes
<1>4. SizeFrom(d) = n
  <2> DEFINE cube == RADIX * RADIX * RADIX
  <2>1. TOP <= cube /\ cube \in Nat
    BY SizeAssumption, ByteAssumption
  <2> HIDE DEF cube
  <2>2. n < cube
    BY <1>2, <2>1
  <2> QED BY <2>2, SizeDigits DEF cube
<1> HIDE DEF c, d, g
<1>5. ASSUME NEW x \in Addr
      PROVE  /\ x \in Nat
             /\ x >= c /\ x < c + Len(d) =>
                  x - c + 1 \in 1 .. Len(d) /\ d[x - c + 1] \in Byte
                  /\ g[x] = f[x] \cap d[x - c + 1]
             /\ ~(x >= c /\ x < c + Len(d)) => g[x] = f[x]
  <2>1. d \in Seq(Byte) /\ c \in Nat
    BY <1>1, <1>2
  <2>2. /\ x \in Nat
        /\ x >= c /\ x < c + Len(d) =>
             /\ x - c + 1 \in 1 .. Len(d) /\ d[x - c + 1] \in Byte
             /\ WriteBytes(f, c, d)[x] = f[x] \cap d[x - c + 1]
        /\ ~(x >= c /\ x < c + Len(d)) => WriteBytes(f, c, d)[x] = f[x]
    BY <2>1, WriteAt
  <2> QED BY <2>2 DEF g
<1>6. ASSUME NEW k \in 1 .. 3
      PROVE  ReadBytes(g, c, 3)[k] = d[k]
  <2> DEFINE x == c + k - 1
  <2>1. x \in Addr /\ x >= c /\ x < c + 3 /\ x - c + 1 = k
        /\ x \in SIGNAT_OFFSET .. BTLD_OFFSET - 1
    BY <1>2 DEF Addr
  <2> HIDE DEF x
  <2>2. g[x] = f[x] \cap d[k] /\ d[k] \in Byte /\ f[x] = ERASED
    BY <1>1, <1>5, <2>1
  <2>3. DOMAIN g = Addr
    BY <1>3
  <2>4. ReadBytes(g, c, 3)[k] = g[x]
    BY <2>1, <2>3 DEF ReadBytes, x
  <2> QED BY <2>2, <2>4, ErasedTakes
<1>7. StoredSize(g) = SizeFrom(d)
  <2>1. StoredSize(g) = SizeFrom(ReadBytes(g, c, 3))
    BY DEF StoredSize, CODE_SIZE_BYTES, c
  <2> QED BY <1>6, <2>1 DEF SizeFrom
<1>8. ASSUME NEW x \in 0 .. c - 1
      PROVE  g[x] = f[x]
  <2>1. x \in Addr
    BY <1>2 DEF Addr
  <2> QED BY <1>1, <1>2, <1>5, <2>1
<1> QED BY <1>4, <1>7, <1>8 DEF g, d, c

\* The signature leaves the rest and the size alone.
LEMMA SignatureWritten ==
  ASSUME NEW f \in [Addr -> Byte]
  PROVE  /\ StoredSize(WriteBytes(f, SIGNAT_OFFSET, Signature)) = StoredSize(f)
         /\ \A x \in 0 .. SIGNAT_OFFSET - 1 :
              WriteBytes(f, SIGNAT_OFFSET, Signature)[x] = f[x]
         /\ \A k \in 1 .. SIGNAT_SIZE :
              f[SIGNAT_OFFSET + k - 1] = ERASED =>
                WriteBytes(f, SIGNAT_OFFSET, Signature)[SIGNAT_OFFSET + k - 1] = Signature[k]
<1> DEFINE a == SIGNAT_OFFSET
           g == WriteBytes(f, a, Signature)
<1>1. Signature \in Seq(Byte) /\ a \in Nat /\ a + Len(Signature) = CODE_SIZE_OFFSET
  BY Layout, SignatureAssumption
<1>2. g \in [Addr -> Byte]
  BY WriteKeepsBytes
<1>3. ASSUME NEW x \in Addr
      PROVE  /\ x \in Nat /\ (~(x >= a /\ x < a + Len(Signature)) => g[x] = f[x])
             /\ x >= a /\ x < a + Len(Signature) =>
                  /\ x - a + 1 \in 1 .. Len(Signature) /\ Signature[x - a + 1] \in Byte
                  /\ g[x] = f[x] \cap Signature[x - a + 1]
  <2>1. Signature \in Seq(Byte) /\ a \in Nat
    BY <1>1
  <2> HIDE DEF g, a
  <2>2. /\ x \in Nat
        /\ x >= a /\ x < a + Len(Signature) =>
             /\ x - a + 1 \in 1 .. Len(Signature) /\ Signature[x - a + 1] \in Byte
             /\ WriteBytes(f, a, Signature)[x] = f[x] \cap Signature[x - a + 1]
        /\ ~(x >= a /\ x < a + Len(Signature)) => WriteBytes(f, a, Signature)[x] = f[x]
    BY <2>1, WriteAt
  <2> QED BY <2>2 DEF g
<1> HIDE DEF g
<1>4. ASSUME NEW k \in 1 .. 3
      PROVE  ReadBytes(g, CODE_SIZE_OFFSET, 3)[k] = ReadBytes(f, CODE_SIZE_OFFSET, 3)[k]
  <2> DEFINE x == CODE_SIZE_OFFSET + k - 1
  <2>1. x \in Nat /\ x >= CODE_SIZE_OFFSET /\ CODE_SIZE_OFFSET \in Nat
    BY Layout
  <2>2. DOMAIN g = Addr /\ DOMAIN f = Addr
    BY <1>2
  <2> HIDE DEF x
  <2>3. x \in Addr => g[x] = f[x]
    BY <1>1, <1>3, <2>1
  <2> QED BY <2>2, <2>3 DEF ReadBytes, x
<1>5. StoredSize(g) = StoredSize(f)
  BY <1>4 DEF StoredSize, SizeFrom, CODE_SIZE_BYTES
<1>6. ASSUME NEW x \in 0 .. SIGNAT_OFFSET - 1
      PROVE  g[x] = f[x]
  BY <1>1, <1>3, LowAddr
<1>7. ASSUME NEW k \in 1 .. SIGNAT_SIZE, f[a + k - 1] = ERASED
      PROVE  g[a + k - 1] = Signature[k]
  <2> DEFINE x == a + k - 1
  <2>1. /\ x \in Addr /\ x >= a /\ x < a + SIGNAT_SIZE /\ x - a + 1 = k
        /\ Len(Signature) = SIGNAT_SIZE
    BY Layout, SignatureAssumption DEF Addr
  <2>2. f[x] = ERASED
    BY <1>7
  <2> HIDE DEF x, a
  <2>3. g[x] = f[x] \cap Signature[k] /\ Signature[k] \in Byte
    BY <1>3, <2>1
  <2>4. g[x] = Signature[k]
    BY <2>2, <2>3, ErasedTakes
  <2> QED BY <2>4 DEF x
<1> QED BY <1>5, <1>6, <1>7 DEF g

-----------------------------------------------------------------------------
(* The four messages of the tool.                                          *)

DataMessage(a, d) == [op |-> "D", count |-> Len(d), addr |-> a, bytes |-> d]

\* Nothing lies behind a record that has as many bytes as it says.
LEMMA NothingBehind ==
  ASSUME NEW d \in Seq(Byte), NEW r, r.bytes = d, NEW data \in Behind(r, Len(d))
  PROVE  data = d /\ SubSeq(data, 1, Len(d)) = d
<1>1. PICK junk \in [1 .. 0 -> JunkByte] : data = d \o junk
  BY DEF Behind
<1>2. junk = << >>
  OBVIOUS
<1>3. d \o << >> = d
  OBVIOUS
<1>4. data = d
  BY <1>1, <1>2, <1>3
<1>5. SubSeq(d, 1, Len(d)) = d
  OBVIOUS
<1> QED BY <1>4, <1>5

\* What ends within the 24-bit addresses does not go round.
LEMMA RoundIsWrite ==
  ASSUME NEW f \in [Addr -> Byte], NEW a \in Nat, NEW d \in Seq(Byte), a + Len(d) < ADDR_MOD
  PROVE  WriteRound(f, a, d) = WriteBytes(f, a, d)
<1> DEFINE n == Len(d)
<1>1. n \in Nat /\ ADDR_MOD \in Nat /\ TOP \in Nat
  BY RequestAssumption, TopAssumption
<1>2. ASSUME NEW x \in Addr
      PROVE  WriteRound(f, a, d)[x] = WriteBytes(f, a, d)[x]
  <2> DEFINE k == IF x < a THEN x - a + ADDR_MOD ELSE x - a
  <2>1. WriteRound(f, a, d)[x] = IF k < n THEN f[x] \cap d[k + 1] ELSE f[x]
    BY DEF WriteRound
  <2>2. WriteBytes(f, a, d)[x] = IF x \in a .. a + n - 1 THEN f[x] \cap d[x - a + 1] ELSE f[x]
    BY DEF WriteBytes
  <2>3. x \in Nat /\ a + n < ADDR_MOD
    BY <1>1 DEF Addr
  <2> HIDE DEF n
  <2>4. k < n <=> x \in a .. a + n - 1
    BY <1>1, <2>3
  <2>5. k < n => k = x - a
    BY <1>1, <2>3
  <2>6. CASE k < n
    <3>1. d[k + 1] = d[x - a + 1]
      BY <2>5, <2>6
    <3> HIDE DEF k
    <3> QED BY <2>1, <2>2, <2>4, <2>6, <3>1
  <2>7. CASE ~(k < n)
    <3> HIDE DEF k
    <3> QED BY <2>1, <2>2, <2>4, <2>7
  <2> QED BY <2>6, <2>7
<1>3. /\ WriteRound(f, a, d) = [x \in Addr |-> WriteRound(f, a, d)[x]]
      /\ WriteBytes(f, a, d) = [x \in Addr |-> WriteBytes(f, a, d)[x]]
  BY DEF WriteRound, WriteBytes
<1> QED BY <1>2, <1>3

\* A record is programmed, or it is empty or reaches the metadata.
LEMMA HandleData ==
  ASSUME flash \in [Addr -> Byte],
         NEW a \in Nat, NEW d \in Seq(Byte), a + Len(d) < ADDR_MOD, Handle(DataMessage(a, d))
  PROVE  \/ /\ status' # "STATUS_NO_ERR"
            /\ d = << >> \/ a + Len(d) >= SIGNAT_OFFSET
         \/ /\ status' = "STATUS_NO_ERR"
            /\ a + Len(d) < SIGNAT_OFFSET
            /\ a # 0 => flash' = WriteBytes(flash, a, d)
            /\ a = 0 /\ Len(d) >= 4 => flash' = Start(flash, d)
<1> DEFINE r == DataMessage(a, d)
<1>1. r.op = "D" /\ r.count = Len(d) /\ r.addr = a /\ r.bytes = d
  BY DEF DataMessage
<1> HIDE DEF r
<1>2. Denied(r) <=> a + Len(d) >= SIGNAT_OFFSET
  <2>1. a + Len(d) \in 0 .. ADDR_MOD - 1 /\ ADDR_MOD \in Nat
    BY RequestAssumption
  <2>2. (a + Len(d)) % ADDR_MOD = a + Len(d)
    BY <2>1, SmallModulo
  <2> QED BY <1>1, <2>2 DEF Denied
<1>3. Handle(r)
  BY DEF r
<1>4. CASE RefuseEmpty(r) \/ RefuseAddress(r)
  BY <1>1, <1>2, <1>4 DEF RefuseEmpty, RefuseAddress, Return
<1>5. SIGNAT_OFFSET \in Nat /\ a + Len(d) \in Nat
  BY LowAddr
<1>6. CASE HandleStart(r)
  <2>1. status' = "STATUS_NO_ERR" /\ a = 0 /\ a + Len(d) < SIGNAT_OFFSET
    BY <1>1, <1>2, <1>5, <1>6 DEF HandleStart, Return
  <2>2. ASSUME Len(d) >= 4
        PROVE  flash' = Start(flash, d)
    <3>1. PICK data \in Behind(r, IF r.count < 4 THEN 4 ELSE r.count) :
            flash' = WriteBytes(WriteBytes(flash, 4, SubSeq(data, 1, 4)), 8,
                                SubSeq(data, 9, r.count))
      BY <1>6 DEF HandleStart
    <3>2. data \in Behind(r, Len(d))
      BY <1>1, <2>2, <3>1
    <3>3. data = d
      BY <1>1, <3>2, NothingBehind
    <3> QED BY <1>1, <3>1, <3>3 DEF Start
  <2> QED BY <2>1, <2>2
<1>7. CASE HandleRecord(r)
  <2>1. status' = "STATUS_NO_ERR" /\ a # 0 /\ a + Len(d) < SIGNAT_OFFSET
    BY <1>1, <1>2, <1>5, <1>7 DEF HandleRecord, Return
  <2>2. PICK data \in Behind(r, Len(d)) :
          flash' = WriteRound(flash, a, SubSeq(data, 1, Len(d)))
    BY <1>1, <1>7 DEF HandleRecord
  <2>3. SubSeq(data, 1, Len(d)) = d
    BY <1>1, NothingBehind
  <2>4. WriteRound(flash, a, d) = WriteBytes(flash, a, d)
    BY RoundIsWrite
  <2> QED BY <2>1, <2>2, <2>3, <2>4
<1> QED BY <1>1, <1>3, <1>4, <1>6, <1>7
        DEF Handle, HandleSize, HandleSignat, HandleStop, HandleUnknown

\* The size and the signature are programmed: they are as long as they should
\* be; and the end of it is the end.
LEMMA HandleMeta ==
  ASSUME NEW r, NEW b, NEW op, r = [op |-> op, bytes |-> b], Handle(r)
  PROVE  /\ op = "M" /\ Len(b) = CODE_SIZE_BYTES =>
              /\ status' = "STATUS_NO_ERR"
              /\ flash' = WriteBytes(flash, CODE_SIZE_OFFSET, b)
         /\ op = "N" /\ Len(b) = SIGNAT_SIZE =>
              /\ status' = "STATUS_NO_ERR"
              /\ flash' = WriteBytes(flash, SIGNAT_OFFSET, b)
         /\ op = "X" => flash' = flash
<1>1. r.op = op /\ r.bytes = b
  OBVIOUS
<1> QED
  BY <1>1 DEF Handle, HandleSize, HandleSignat, HandleStop, HandleUnknown, RefuseEmpty,
     RefuseAddress, HandleStart, HandleRecord, Return

-----------------------------------------------------------------------------
(* The invariant.                                                          *)

TransferTypeOK ==
  /\ file \in Files /\ line \in Nat /\ line <= Len(file)
  /\ hpc \in {"line", "reply", "size", "signat", "done", "ended", "refused"}
  /\ addr_upper \in Nat /\ addr_upper <= LAST_UPPER
  /\ ignore_next_data_rec \in BOOLEAN
  /\ next_expect_addr \in Nat /\ fw_size \in Nat
  /\ fw_hash \in Seq(Byte) /\ Len(fw_hash) = fw_size

\* What the tool knows of the segment is what the file says of it.
Segment ==
  LET upper == UpperAt(file, line + 1) IN
    /\ ignore_next_data_rec <=> upper > LAST_UPPER
    /\ ~ignore_next_data_rec => addr_upper = upper

\* The message under way is the last record, the size, the signature, the end.
InFlight ==
  sent # None =>
    /\ status = "STATUS_NO_ERR"
    /\ \/ /\ hpc = "reply" /\ line \in Loaded(file)
          /\ sent = DataMessage(AddrAt(file, line), file[line].data)
       \/ hpc = "size" /\ sent = [op |-> "M", bytes |-> SizeBytes(fw_size)]
       \/ hpc = "signat" /\ sent = [op |-> "N", bytes |-> Signature]
       \/ hpc = "done" /\ sent = [op |-> "X", bytes |-> << >>]

Misfit(n) == file[n].data = << >> \/ EndAt(file, n) >= SIGNAT_OFFSET

\* What has not been accepted is a misfit, and the MCU does not verify before
\* it is done.
Answers ==
  /\ hpc \in {"line", "ended"} => sent = None /\ status = "STATUS_NO_ERR"
  /\ hpc = "reply" /\ sent = None /\ status # "STATUS_NO_ERR" =>
       line \in Loaded(file) /\ Misfit(line)
  /\ hpc \in {"size", "signat"} /\ sent = None => status = "STATUS_NO_ERR"
  /\ hpc = "refused" => sent = None /\ \E n \in Loaded(file) : Misfit(n)
  /\ step # "off" => status # "STATUS_NO_ERR"

\* Record n has been hashed where it belongs.
HashedRecord(n) ==
  /\ EndAt(file, n) <= fw_size
  /\ \A k \in 1 .. Len(file[n].data) : fw_hash[AddrAt(file, n) + k] = file[n].data[k]

\* All of them have been, and the last one ends where the hash does.
HashOrdered ==
  /\ next_expect_addr = fw_size
  /\ fw_size = 0 \/ \E n \in Loaded(file) : n <= line /\ fw_size = EndAt(file, n)
  /\ \A n \in Loaded(file) : n <= line => HashedRecord(n)

\* What no record has a byte for has been hashed as fill.
FillHashed ==
  \A x \in Nat :
    x < fw_size
      /\ (\A n \in Loaded(file) :
            n <= line => ~ (AddrAt(file, n) <= x /\ x < EndAt(file, n)))
      => fw_hash[x + 1] = ERASED

\* A record of data is under way.
Pending == hpc = "reply" /\ sent # None

\* The size has been programmed.
Sized == hpc \in {"signat", "done"} \/ (hpc = "size" /\ sent = None)

\* The MCU has all that has been hashed, or all but the record under way and
\* the fill before it.
CodeInstalled ==
  IF Pending
    THEN \E n \in Nat :
           /\ n <= AddrAt(file, line) /\ n < SIGNAT_OFFSET /\ Mirrors(flash, fw_hash, n)
           /\ Continues(fw_hash, n, AddrAt(file, line), file[line].data)
           /\ fw_size = EndAt(file, line)
    ELSE fw_size < SIGNAT_OFFSET /\ Mirrors(flash, fw_hash, fw_size)

SizeInstalled ==
  IF Sized THEN StoredSize(flash) = fw_size
  ELSE \A x \in SIGNAT_OFFSET .. BTLD_OFFSET - 1 : flash[x] = ERASED

\* The signature has been programmed.
Signed == hpc = "done" \/ (hpc = "signat" /\ sent = None)

SignatInstalled ==
  status = "STATUS_NO_ERR" \/ hpc = "done" =>
    \A k \in 1 .. SIGNAT_SIZE :
      flash[SIGNAT_OFFSET + k - 1] = IF Signed THEN Signature[k] ELSE ERASED

\* As long as nothing has been refused.
Installed ==
  status = "STATUS_NO_ERR" \/ hpc = "done" => CodeInstalled /\ SizeInstalled

FileDone == hpc \in {"size", "signat", "done"} => line = Len(file)

TransferInv ==
  /\ TransferTypeOK /\ ValidInv /\ Segment /\ InFlight /\ Answers
  /\ WellFormed(file) =>
       HashOrdered /\ FillHashed /\ Installed /\ SignatInstalled /\ FileDone

-----------------------------------------------------------------------------
(* What a step reads and hashes.                                           *)

\* What a record of a file consists of.
LEMMA FileFacts ==
  ASSUME NEW f \in Files
  PROVE  /\ Len(f) \in Nat
         /\ \A n \in 1 .. Len(f) :
              /\ f[n].type = 0 => f[n].data \in Seq(Byte) /\ f[n].addr \in Nat
              /\ f[n].type = 4 => f[n].upper \in Nat /\ f[n].upper < 256
<1>1. SEGMENT \in Nat
  BY FilesAssumption
<1>2. \A x : x \in 0 .. SEGMENT - 1 => x \in Nat
  BY <1>1
<1> QED BY <1>2, FilesAssumption

\* The record main() reads next is one to be sent, unless it is to be ignored.
LEMMA ReadFacts ==
  ASSUME TransferTypeOK, Segment, NEW type, ReadLine(type)
  PROVE  /\ line + 1 \in 1 .. Len(file) /\ file[line + 1].type = type
         /\ type = 0 =>
              /\ Record.data \in Seq(Byte) /\ RecordAddr \in Nat
              /\ ignore_next_data_rec => line + 1 \notin Loaded(file)
              /\ ~ignore_next_data_rec =>
                   line + 1 \in Loaded(file) /\ RecordAddr = AddrAt(file, line + 1)
         /\ type # 0 => line + 1 \notin Loaded(file)
<1>1. line + 1 \in 1 .. Len(file) /\ file[line + 1].type = type /\ Record = file[line + 1]
  BY FileFacts DEF TransferTypeOK, ReadLine, Record
<1>2. ASSUME type = 0
      PROVE  Record.data \in Seq(Byte) /\ Record.addr \in Nat
  BY <1>1, <1>2, FileFacts DEF TransferTypeOK
<1>3. ASSUME type = 0
      PROVE  RecordAddr \in Nat
  <2>1. addr_upper \in Nat /\ SEGMENT \in Nat
    BY FilesAssumption DEF TransferTypeOK
  <2>2. addr_upper * SEGMENT \in Nat
    BY <2>1
  <2> QED BY <1>2, <1>3, <2>2 DEF RecordAddr
<1>4. UpperAt(file, line + 1) \in Nat /\ LAST_UPPER \in Nat
  <2>1. line + 1 \in 1 .. Len(file) + 1
    BY <1>1, FileFacts DEF TransferTypeOK
  <2> QED BY <2>1, UpperType, FilesAssumption DEF TransferTypeOK
<1>5. line + 1 \in Loaded(file) <=> type = 0 /\ ~ignore_next_data_rec
  BY <1>1, <1>4 DEF Loaded, Segment
<1>6. ~ignore_next_data_rec => RecordAddr = AddrAt(file, line + 1)
  BY <1>1 DEF Segment, RecordAddr, AddrAt
<1> QED BY <1>1, <1>2, <1>3, <1>5, <1>6

\* Two sequences in a row, element by element.
LEMMA ConcatParts ==
  ASSUME NEW V, NEW s \in Seq(V), NEW t \in Seq(V), NEW i, NEW j,
         i = Len(s), j = Len(t)
  PROVE  /\ s \o t \in Seq(V) /\ Len(s \o t) = i + j
         /\ \A k \in 1 .. i : (s \o t)[k] = s[k]
         /\ \A k \in 1 .. j : (s \o t)[i + k] = t[k]
<1>1. i \in Nat /\ j \in Nat
  OBVIOUS
<1>2. /\ s \o t \in Seq(V) /\ Len(s \o t) = i + j
      /\ \A k \in 1 .. i + j : (s \o t)[k] = IF k <= i THEN s[k] ELSE t[k - i]
  BY Concat
<1>3. ASSUME NEW k \in 1 .. i
      PROVE  (s \o t)[k] = s[k]
  <2>1. k \in 1 .. i + j /\ k <= i
    BY <1>1
  <2> QED BY <1>2, <2>1
<1>4. ASSUME NEW k \in 1 .. j
      PROVE  (s \o t)[i + k] = t[k]
  <2>1. i + k \in 1 .. i + j /\ ~(i + k <= i) /\ (i + k) - i = k
    BY <1>1
  <2> QED BY <1>2, <2>1
<1> QED BY <1>2, <1>3, <1>4

\* The n bytes of h, g bytes of fill and d.
Grows(i, h, n, g, d) ==
  /\ i \in Seq(Byte) /\ Len(i) = n + Len(d) + g
  /\ \A k \in 1 .. n : i[k] = h[k]
  /\ Continues(i, n, n + g, d)

\* What has been hashed stays, then comes the fill, then the record.
LEMMA HashGrows ==
  ASSUME NEW h \in Seq(Byte), NEW n, n = Len(h), NEW g \in Nat, NEW d \in Seq(Byte),
         NEW fill, fill = [k \in 1 .. g |-> ERASED]
  PROVE  Grows(h \o fill \o d, h, n, g, d)
<1>1. ERASED \in Byte
  BY DEF ERASED, Byte
<1>2. fill \in Seq(Byte) /\ Len(fill) = g /\ \A k \in 1 .. g : fill[k] = ERASED
  BY <1>1
<1> DEFINE i == h \o fill
           j == i \o d
<1>3. n \in Nat /\ Len(d) \in Nat
  OBVIOUS
<1>4. /\ i \in Seq(Byte) /\ Len(i) = n + g
      /\ \A k \in 1 .. n : i[k] = h[k]
      /\ \A k \in 1 .. g : i[n + k] = fill[k]
  BY <1>2, ConcatParts
<1> HIDE DEF i, j
<1>5. /\ j \in Seq(Byte) /\ Len(j) = (n + g) + Len(d)
      /\ \A k \in 1 .. n + g : j[k] = i[k]
      /\ \A k \in 1 .. Len(d) : j[(n + g) + k] = d[k]
  <2> DEFINE m == n + g
             l == Len(d)
  <2>1. i \in Seq(Byte) /\ m = Len(i) /\ l = Len(d)
    BY <1>4
  <2> HIDE DEF m, l
  <2>2. /\ i \o d \in Seq(Byte) /\ Len(i \o d) = m + l
        /\ \A k \in 1 .. m : (i \o d)[k] = i[k]
        /\ \A k \in 1 .. l : (i \o d)[m + k] = d[k]
    BY <2>1, ConcatParts
  <2> QED BY <2>2 DEF j, m, l
<1>6. \A k \in 1 .. n : j[k] = h[k]
  <2>1. \A k \in 1 .. n : k \in 1 .. n + g
    BY <1>3
  <2> QED BY <1>4, <1>5, <2>1
<1>7. \A k \in n + 1 .. n + g : j[k] = ERASED
  <2>1. \A k \in n + 1 .. n + g : k \in 1 .. n + g /\ k - n \in 1 .. g /\ n + (k - n) = k
    BY <1>3
  <2>2. ASSUME NEW k \in n + 1 .. n + g
        PROVE  j[k] = ERASED
    <3>1. j[k] = i[k] /\ i[n + (k - n)] = fill[k - n] /\ fill[k - n] = ERASED
      BY <1>2, <1>4, <1>5, <2>1
    <3> QED BY <2>1, <3>1
  <2> QED BY <2>2
<1>8. Continues(j, n, n + g, d)
  BY <1>5, <1>7 DEF Continues
<1>9. (n + g) + Len(d) = n + Len(d) + g
  BY <1>3
<1>10. h \o fill \o d = j
  BY DEF i, j
<1> QED BY <1>5, <1>6, <1>8, <1>9, <1>10 DEF Grows

\* What a record that is sent does to the hash.
LEMMA SendFacts ==
  ASSUME TransferTypeOK, Segment, SendData, NEW a, a = AddrAt(file, line + 1),
         NEW d, d = file[line + 1].data
  PROVE  /\ line + 1 \in Loaded(file) /\ a \in Nat /\ d \in Seq(Byte) /\ Len(d) \in Nat
         /\ sent' = DataMessage(a, d)
         /\ Gap \in Nat
         /\ next_expect_addr < a => Gap = a - next_expect_addr
         /\ ~(next_expect_addr < a) => Gap = 0
         /\ fw_size' = fw_size + Len(d) + Gap /\ fw_size' \in Nat
         /\ next_expect_addr' = a + Len(d)
         /\ fw_hash' \in Seq(Byte) /\ Len(fw_hash') = fw_size'
         /\ \A k \in 1 .. fw_size : fw_hash'[k] = fw_hash[k]
         /\ Continues(fw_hash', fw_size, fw_size + Gap, d)
<1>1. ReadLine(0) /\ ~ignore_next_data_rec /\ HashRecord
      /\ sent' = [op |-> "D", count |-> Len(Record.data), addr |-> RecordAddr,
                  bytes |-> Record.data]
  BY DEF SendData
<1>2. /\ Record.data = d /\ d \in Seq(Byte) /\ RecordAddr = a /\ a \in Nat
      /\ line + 1 \in Loaded(file)
  <2>1. Record = file[line + 1]
    BY DEF Record
  <2>2. /\ Record.data \in Seq(Byte) /\ RecordAddr \in Nat
        /\ line + 1 \in Loaded(file) /\ RecordAddr = AddrAt(file, line + 1)
    BY <1>1, ReadFacts
  <2> QED BY <2>1, <2>2
<1>3. sent' = DataMessage(a, d)
  BY <1>1, <1>2 DEF DataMessage
<1>4. Gap = IF next_expect_addr < a THEN a - next_expect_addr ELSE 0
  BY <1>2 DEF Gap
<1>5. next_expect_addr \in Nat /\ fw_size \in Nat /\ fw_hash \in Seq(Byte)
      /\ Len(fw_hash) = fw_size /\ Len(d) \in Nat
  BY <1>2 DEF TransferTypeOK
<1>6. Gap \in Nat
  BY <1>2, <1>4, <1>5
<1>7. /\ fw_size' = fw_size + Len(d) + Gap
      /\ fw_hash' = fw_hash \o Fill \o d
      /\ next_expect_addr' = a + Len(d)
  BY <1>1, <1>2 DEF HashRecord
<1>8. Fill = [k \in 1 .. Gap |-> ERASED]
  BY DEF Fill
<1> DEFINE h == fw_hash
           fill == Fill
           g == Gap
           n == fw_size
           i == fw_hash'
<1>9. /\ i \in Seq(Byte) /\ Len(i) = n + Len(d) + g
      /\ \A k \in 1 .. n : i[k] = h[k]
      /\ Continues(i, n, n + g, d)
  <2>1. h \in Seq(Byte) /\ n = Len(h) /\ g \in Nat /\ fill = [k \in 1 .. g |-> ERASED]
        /\ i = h \o fill \o d
    BY <1>5, <1>6, <1>7, <1>8
  <2>0. d \in Seq(Byte)
    BY <1>2
  <2> HIDE DEF h, fill, g, n, i
  <2>2. Grows(h \o fill \o d, h, n, g, d)
    BY <2>0, <2>1, HashGrows
  <2> QED BY <2>1, <2>2 DEF Grows
<1>10. fw_size' \in Nat
  BY <1>5, <1>6, <1>7
<1> QED BY <1>2, <1>3, <1>4, <1>5, <1>6, <1>7, <1>9, <1>10

-----------------------------------------------------------------------------
(* The types, and the segment.                                             *)

\* Each step keeps the types and the segment of the tool.
LEMMA TypeStep ==
  ASSUME TransferTypeOK, Segment, [TransferNext]_transferVars
  PROVE  TransferTypeOK' /\ Segment'
<1>1. ASSUME NEW type, ReadLine(type)
      PROVE  /\ file' = file /\ line' = line + 1 /\ line' \in Nat /\ line' <= Len(file')
             /\ UpperAt(file, line' + 1)
                  = IF type = 4 THEN Record.upper ELSE UpperAt(file, line + 1)
  <2>1. line + 1 \in 1 .. Len(file) /\ file[line + 1].type = type /\ Len(file) \in Nat
    BY <1>1, ReadFacts, FileFacts DEF TransferTypeOK
  <2>2. file' = file /\ line' = line + 1
    BY <1>1 DEF ReadLine
  <2>3. UpperAt(file, (line + 1) + 1)
          = IF file[line + 1].type = 4 THEN file[line + 1].upper ELSE UpperAt(file, line + 1)
    <3>1. line + 1 \in Nat \ {0}
      BY <2>1
    <3> QED BY <3>1, UpperNext
  <2> QED BY <2>1, <2>2, <2>3 DEF Record
<1>2. CASE SendData
  <2>1. /\ fw_size' \in Nat /\ fw_hash' \in Seq(Byte) /\ Len(fw_hash') = fw_size'
        /\ next_expect_addr' \in Nat
    BY <1>2, SendFacts
  <2>2. ReadLine(0) /\ hpc' = "reply" /\ UNCHANGED segmentVars
    BY <1>2 DEF SendData
  <2> QED BY <1>1, <2>1, <2>2 DEF segmentVars, TransferTypeOK, Segment
<1>3. CASE ReadExtended
  <2>1. ReadLine(4) /\ UNCHANGED <<hpc, hashVars, sent>>
    BY <1>3 DEF ReadExtended
  <2>2. Record.upper \in Nat /\ Record.upper < 256
    BY <2>1, ReadFacts, FileFacts DEF TransferTypeOK, Record
  <2>3. Upper = Record.upper
    <3>1. \A u \in Nat : u < 256 => u % 256 = u
      OBVIOUS
    <3> QED BY <2>2, <3>1 DEF Upper
  <2>4. LAST_UPPER \in Nat
    BY FilesAssumption
  <2>5. IF Record.upper > LAST_UPPER
          THEN ignore_next_data_rec' = TRUE /\ addr_upper' = addr_upper
          ELSE ignore_next_data_rec' = FALSE /\ addr_upper' = Record.upper
    BY <1>3, <2>3 DEF ReadExtended
  <2>6. /\ file' = file /\ line' \in Nat /\ line' <= Len(file')
        /\ UpperAt(file, line' + 1) = Record.upper
    BY <1>1, <2>1
  <2>7. addr_upper' \in Nat /\ addr_upper' <= LAST_UPPER
    <3>1. CASE Record.upper > LAST_UPPER
      BY <2>5, <3>1 DEF TransferTypeOK
    <3>2. CASE ~(Record.upper > LAST_UPPER)
      <4>1. addr_upper' = Record.upper
        BY <2>5, <3>2
      <4>2. Record.upper <= LAST_UPPER
        BY <2>2, <2>4, <3>2
      <4> QED BY <2>2, <4>1, <4>2
    <3> QED BY <3>1, <3>2
  <2>10. ignore_next_data_rec' \in BOOLEAN
    BY <2>5
  <2>9. TransferTypeOK'
    BY <2>1, <2>6, <2>7, <2>10 DEF hashVars, TransferTypeOK
  <2>8. Segment'
    BY <2>2, <2>4, <2>5, <2>6 DEF Segment
  <2> QED BY <2>8, <2>9
<1>4. CASE IgnoreData
  <2>1. ReadLine(0) /\ UNCHANGED <<hpc, segmentVars, hashVars>>
    BY <1>4 DEF IgnoreData
  <2> QED BY <1>1, <2>1 DEF segmentVars, hashVars, TransferTypeOK, Segment
<1>5. CASE IgnoreOther
  <2>1. PICK type : type # 4 /\ ReadLine(type) /\ UNCHANGED <<hpc, segmentVars, hashVars>>
    BY <1>5 DEF IgnoreOther
  <2>2. type # 4
    BY <2>1
  <2> QED BY <1>1, <2>1, <2>2 DEF segmentVars, hashVars, TransferTypeOK, Segment
<1>6. CASE SendSize
  <2>1. ReadLine(1) /\ hpc' = "size" /\ UNCHANGED <<segmentVars, hashVars>>
    BY <1>6 DEF SendSize
  <2> QED BY <1>1, <2>1 DEF segmentVars, hashVars, TransferTypeOK, Segment
<1>10. CASE UnexpectedLine
  <2>1. ReadLine(NoRecord) /\ hpc' = "ended" /\ UNCHANGED <<segmentVars, hashVars>>
    BY <1>10 DEF UnexpectedLine
  <2> QED BY <1>1, <2>1 DEF NoRecord, segmentVars, hashVars, TransferTypeOK, Segment
<1>7. CASE EndOfFile \/ NextRecord \/ SendSignat \/ SendStop \/ Refused
  BY <1>7 DEF EndOfFile, NextRecord, SendSignat, SendStop, Refused, Answered, mcuVars,
     segmentVars, hashVars, TransferTypeOK, Segment
<1>8. CASE McuHandle
  BY <1>8 DEF McuHandle, segmentVars, hashVars, TransferTypeOK, Segment
<1>9. CASE Reset \/ ReadImage \/ UNCHANGED transferVars
  BY <1>9 DEF Reset, ReadImage, segmentVars, hashVars, transferVars, TransferTypeOK, Segment
<1> QED BY <1>2, <1>3, <1>4, <1>5, <1>6, <1>7, <1>8, <1>9, <1>10 DEF TransferNext

-----------------------------------------------------------------------------
(* The messages, and what becomes of them.                                 *)

\* What the MCU makes of the message under way.
LEMMA HandleFacts ==
  ASSUME TransferTypeOK, ValidTypeOK, InFlight, McuHandle,
         NEW a, a = AddrAt(file, line), NEW d, d = file[line].data
  PROVE  /\ hpc \in {"reply", "size", "signat", "done"}
         /\ hpc = "reply" =>
              /\ line \in Loaded(file)
              /\ \/ status' # "STATUS_NO_ERR" /\ Misfit(line)
                 \/ /\ status' = "STATUS_NO_ERR"
                    /\ EndAt(file, line) < SIGNAT_OFFSET
                    /\ a # 0 => flash' = WriteBytes(flash, a, d)
                    /\ a = 0 /\ Len(d) >= 4 => flash' = Start(flash, d)
         /\ hpc = "size" =>
              /\ status' = "STATUS_NO_ERR"
              /\ flash' = WriteBytes(flash, CODE_SIZE_OFFSET, SizeBytes(fw_size))
         /\ hpc = "signat" =>
              /\ status' = "STATUS_NO_ERR"
              /\ flash' = WriteBytes(flash, SIGNAT_OFFSET, Signature)
         /\ hpc = "done" => flash' = flash
<1>1. sent # None /\ Handle(sent)
  BY DEF McuHandle
<1>2. CASE hpc = "reply" /\ line \in Loaded(file) /\ sent = DataMessage(a, d)
  <2>1. /\ a \in Nat /\ d \in Seq(Byte) /\ a + Len(d) < ADDR_MOD
        /\ EndAt(file, line) = a + Len(d)
    BY <1>2, LoadedFacts DEF TransferTypeOK
  <2>2. Handle(DataMessage(a, d))
    BY <1>1, <1>2
  <2>3. \/ /\ status' # "STATUS_NO_ERR"
           /\ d = << >> \/ a + Len(d) >= SIGNAT_OFFSET
        \/ /\ status' = "STATUS_NO_ERR"
           /\ a + Len(d) < SIGNAT_OFFSET
           /\ a # 0 => flash' = WriteBytes(flash, a, d)
           /\ a = 0 /\ Len(d) >= 4 => flash' = Start(flash, d)
    BY <2>1, <2>2, HandleData DEF ValidTypeOK
  <2> QED BY <1>2, <2>1, <2>3 DEF Misfit
<1>3. CASE hpc = "size" /\ sent = [op |-> "M", bytes |-> SizeBytes(fw_size)]
  <2>1. Len(SizeBytes(fw_size)) = CODE_SIZE_BYTES
    BY SizeBytesType DEF TransferTypeOK, CODE_SIZE_BYTES
  <2> QED BY <1>1, <1>3, <2>1, HandleMeta
<1>4. CASE hpc = "signat" /\ sent = [op |-> "N", bytes |-> Signature]
  BY <1>1, <1>4, SignatureAssumption, HandleMeta
<1>5. CASE hpc = "done" /\ sent = [op |-> "X", bytes |-> << >>]
  BY <1>1, <1>5, HandleMeta
<1> QED BY <1>1, <1>2, <1>3, <1>4, <1>5 DEF InFlight

\* A message is not None.
LEMMA MessageThere ==
  /\ \A b \in Seq(Byte), op \in {"M", "N", "X"} : [op |-> op, bytes |-> b] # None
  /\ \A a \in Nat, d \in Seq(Byte) : DataMessage(a, d) # None
<1>1. ASSUME NEW b \in Seq(Byte), NEW op \in {"M", "N", "X"}
      PROVE  [op |-> op, bytes |-> b] # None
  <2>1. [op |-> op, bytes |-> b] \in [op : {"M", "N", "X"}, bytes : Seq(Byte)]
    OBVIOUS
  <2> QED BY <2>1, NoneAssumption
<1>2. ASSUME NEW a \in Nat, NEW d \in Seq(Byte)
      PROVE  DataMessage(a, d) # None
  <2>1. DataMessage(a, d) \in [op : {"D"}, count : Nat, addr : Nat, bytes : Seq(Byte)]
    BY DEF DataMessage
  <2> QED BY <2>1, NoneAssumption
<1> QED BY <1>1, <1>2

\* Each step keeps what is in flight, and its answer.
LEMMA MessageStep ==
  ASSUME TransferTypeOK, ValidTypeOK, Segment, InFlight, Answers,
         [TransferNext]_transferVars
  PROVE  InFlight' /\ Answers'
<1>1. CASE SendData
  <2> DEFINE a == AddrAt(file, line + 1)
             d == file[line + 1].data
  <2>1. /\ line + 1 \in Loaded(file) /\ sent' = DataMessage(a, d)
    <3> HIDE DEF a, d
    <3> QED BY <1>1, SendFacts DEF a, d
  <2>2. /\ hpc = "line" /\ line' = line + 1 /\ file' = file /\ hpc' = "reply"
        /\ status' = status /\ step' = step
    BY <1>1 DEF SendData, ReadLine, mcuVars, verifyVars
  <2>3. status = "STATUS_NO_ERR"
    BY <2>2 DEF Answers
  <2>4. InFlight'
    BY <2>1, <2>2, <2>3 DEF InFlight
  <2>5. line + 1 \in 1 .. Len(file) /\ sent' # None
    <3>1. a \in Nat /\ d \in Seq(Byte)
      BY <2>1, LoadedFacts DEF TransferTypeOK
    <3> HIDE DEF a, d
    <3> QED BY <2>1, <3>1, MessageThere DEF Loaded
  <2>6. Answers'
    BY <2>2, <2>3, <2>5 DEF Answers
  <2> QED BY <2>4, <2>6
<1>2. CASE SendSize
  <2>1. /\ hpc = "line" /\ file' = file /\ hpc' = "size" /\ fw_size' = fw_size
        /\ status' = status /\ step' = step
        /\ sent' = [op |-> "M", bytes |-> SizeBytes(fw_size)]
    BY <1>2 DEF SendSize, ReadLine, mcuVars, verifyVars, hashVars
  <2>2. status = "STATUS_NO_ERR"
    BY <2>1 DEF Answers
  <2>3. sent' # None
    BY <2>1, MessageThere, SizeBytesType DEF TransferTypeOK
  <2> QED BY <2>1, <2>2, <2>3 DEF InFlight, Answers
<1>3. CASE SendSignat \/ SendStop
  <2>1. /\ status = "STATUS_NO_ERR" /\ status' = status /\ step' = step /\ file' = file
        /\ \/ hpc' = "signat" /\ sent' = [op |-> "N", bytes |-> Signature]
           \/ hpc' = "done" /\ sent' = [op |-> "X", bytes |-> << >>]
    BY <1>3 DEF SendSignat, SendStop, Answered, mcuVars, verifyVars
  <2>2. sent' # None
    <3>1. << >> \in Seq(Byte)
      OBVIOUS
    <3> QED BY <2>1, <3>1, MessageThere, SignatureAssumption
  <2> QED BY <2>1, <2>2 DEF InFlight, Answers
<1>4. CASE IgnoreData \/ ReadExtended \/ IgnoreOther
  <2>1. /\ hpc = "line" /\ hpc' = hpc /\ sent' = sent /\ status' = status /\ step' = step
        /\ file' = file
    BY <1>4 DEF IgnoreData, ReadExtended, IgnoreOther, ReadLine, mcuVars, verifyVars
  <2> QED BY <2>1 DEF InFlight, Answers
<1>5. CASE EndOfFile \/ UnexpectedLine
  <2>1. /\ hpc = "line" /\ hpc' = "ended" /\ sent' = sent /\ status' = status /\ step' = step
        /\ file' = file
    BY <1>5 DEF EndOfFile, UnexpectedLine, ReadLine, mcuVars, verifyVars
  <2> QED BY <2>1 DEF InFlight, Answers
<1>6. CASE NextRecord
  BY <1>6 DEF NextRecord, Answered, mcuVars, verifyVars, InFlight, Answers
<1>7. CASE Refused
  <2>1. /\ hpc \in {"reply", "size", "signat"} /\ sent = None /\ status # "STATUS_NO_ERR"
        /\ hpc' = "refused" /\ sent' = sent /\ status' = status /\ step' = step /\ file' = file
    BY <1>7 DEF Refused, mcuVars, verifyVars
  <2>2. line \in Loaded(file) /\ Misfit(line)
    BY <2>1 DEF Answers
  <2>3. \E n \in Loaded(file') : Misfit(n)'
    BY <2>1, <2>2 DEF Misfit
  <2> QED BY <2>1, <2>3 DEF InFlight, Answers
<1>8. CASE McuHandle
  <2>1. /\ sent # None /\ status = "STATUS_NO_ERR" /\ sent' = None /\ step' = step
        /\ file' = file /\ hpc' = hpc /\ line' = line
    BY <1>8 DEF McuHandle, verifyVars
  <2>2. /\ hpc \in {"reply", "size", "signat", "done"}
        /\ hpc = "reply" =>
             line \in Loaded(file) /\ (status' # "STATUS_NO_ERR" => Misfit(line))
        /\ hpc \in {"size", "signat"} => status' = "STATUS_NO_ERR"
    BY <1>8, HandleFacts
  <2>3. step = "off"
    BY <2>1 DEF Answers
  <2> QED BY <2>1, <2>2, <2>3 DEF InFlight, Answers, Misfit
<1>9. CASE Reset
  BY <1>9 DEF Reset, segmentVars, hashVars, InFlight, Answers, Misfit
<1>10. CASE ReadImage
  <2>1. step # "off"
    BY <1>10 DEF ReadImage, VerifyNext, ReadSize, HashFirst, HashChunk, HashRest
  <2> QED BY <1>10, <2>1 DEF ReadImage, segmentVars, hashVars, InFlight, Answers, Misfit
<1>11. CASE UNCHANGED transferVars
  BY <1>11 DEF transferVars, mcuVars, verifyVars, hashVars, InFlight, Answers, Misfit
<1> QED BY <1>1, <1>2, <1>3, <1>4, <1>5, <1>6, <1>7, <1>8, <1>9, <1>10, <1>11
        DEF TransferNext

-----------------------------------------------------------------------------
(* What the MCU hashes, what the tool hashes.                              *)

\* The verification goes on only when the program memory is left alone.
LEMMA VerifyStep ==
  ASSUME ValidInv, Answers, [TransferNext]_transferVars
  PROVE  ValidInv'
<1>1. CASE McuHandle
  <2>1. flash' \in [Addr -> Byte]
    BY <1>1, HandleKeepsBytes DEF McuHandle, ValidInv, ValidTypeOK
  <2>2. step = "off" /\ UNCHANGED verifyVars
    BY <1>1 DEF McuHandle, Answers
  <2> QED BY <2>1, <2>2 DEF verifyVars, ValidInv, ValidTypeOK, HashedSoFar
<1>2. CASE Reset
  BY <1>2 DEF Reset, ValidInv, ValidTypeOK, HashedSoFar
<1>3. CASE ReadImage
  BY <1>3, ValidStep DEF ReadImage
<1>4. ASSUME UNCHANGED mcuVars
      PROVE  ValidInv'
  <2>1. UNCHANGED validVars
    BY <1>4 DEF mcuVars, validVars, verifyVars
  <2> QED BY <2>1, ValidStep
<1>5. CASE \/ IgnoreData \/ SendData \/ ReadExtended \/ SendSize \/ IgnoreOther
           \/ UnexpectedLine \/ EndOfFile \/ NextRecord \/ SendSignat \/ SendStop \/ Refused
  <2>1. UNCHANGED mcuVars
    BY <1>5 DEF IgnoreData, SendData, ReadExtended, SendSize, IgnoreOther, UnexpectedLine,
       EndOfFile, NextRecord, SendSignat, SendStop, Refused, ReadLine, Answered
  <2> QED BY <1>4, <2>1
<1>6. CASE UNCHANGED transferVars
  <2>1. UNCHANGED mcuVars
    BY <1>6 DEF transferVars
  <2> QED BY <1>4, <2>1
<1> QED BY <1>1, <1>2, <1>3, <1>5, <1>6 DEF TransferNext

\* In a file in order, the gap ends where the record begins.
LEMMA GapEnds ==
  ASSUME TransferTypeOK, Segment, WellFormed(file), HashOrdered, SendData
  PROVE  fw_size + Gap = AddrAt(file, line + 1) /\ Gap \in Nat
<1> DEFINE a == AddrAt(file, line + 1)
           d == file[line + 1].data
<1>1. /\ line + 1 \in Loaded(file) /\ a \in Nat
      /\ next_expect_addr < a => Gap = a - next_expect_addr
      /\ ~(next_expect_addr < a) => Gap = 0
  <2> HIDE DEF a, d
  <2> QED BY SendFacts DEF a, d
<1>2. next_expect_addr = fw_size /\ fw_size \in Nat /\ line \in Nat
  BY DEF HashOrdered, TransferTypeOK
<1>3. fw_size <= a
  <2>1. CASE fw_size = 0
    BY <1>1, <2>1
  <2>2. CASE fw_size # 0
    <3>1. PICK m \in Loaded(file) : m <= line /\ fw_size = EndAt(file, m)
      BY <2>2 DEF HashOrdered
    <3>2. m < line + 1
      BY <1>2, <3>1, FileFacts DEF Loaded, TransferTypeOK
    <3> QED BY <1>1, <3>1, <3>2 DEF WellFormed
  <2> QED BY <2>1, <2>2
<1> HIDE DEF a
<1>4. fw_size + Gap = a /\ Gap \in Nat
  BY <1>1, <1>2, <1>3
<1> QED BY <1>4 DEF a

\* One record more has been read, or none; what it is has been hashed.
LEMMA HashStep ==
  ASSUME TransferTypeOK, Segment, WellFormed(file), HashOrdered,
         [TransferNext]_transferVars
  PROVE  HashOrdered'
<1>1. CASE SendData
  <2> DEFINE a == AddrAt(file, line + 1)
             d == file[line + 1].data
  <2>0. fw_size + Gap = a
    BY <1>1, GapEnds
  <2>1. /\ line + 1 \in Loaded(file) /\ a \in Nat /\ d \in Seq(Byte) /\ Len(d) \in Nat
        /\ fw_size' = fw_size + Len(d) + Gap
        /\ next_expect_addr' = a + Len(d) /\ Gap \in Nat
        /\ \A k \in 1 .. fw_size : fw_hash'[k] = fw_hash[k]
        /\ Continues(fw_hash', fw_size, fw_size + Gap, d)
    <3> HIDE DEF a, d
    <3> QED BY <1>1, SendFacts DEF a, d
  <2>2. file' = file /\ line' = line + 1
    BY <1>1 DEF SendData, ReadLine
  <2>3. fw_size \in Nat /\ line \in Nat /\ file \in Files
    BY DEF TransferTypeOK
  <2>4. EndAt(file, line + 1) = a + Len(d)
    BY DEF EndAt
  <2>5. \A k \in 1 .. Len(d) : fw_hash'[a + k] = d[k]
    BY <2>0, <2>1 DEF Continues
  <2>6. ASSUME NEW n \in Loaded(file), n <= line
        PROVE  HashedRecord(n)'
    <3>1. /\ EndAt(file, n) <= fw_size
          /\ \A k \in 1 .. Len(file[n].data) :
               fw_hash[AddrAt(file, n) + k] = file[n].data[k]
      BY <2>6 DEF HashOrdered, HashedRecord
    <3>2. /\ AddrAt(file, n) \in Nat /\ EndAt(file, n) \in Nat /\ Len(file[n].data) \in Nat
          /\ EndAt(file, n) = AddrAt(file, n) + Len(file[n].data)
      BY <2>3, LoadedFacts
    <3>3. \A k \in 1 .. Len(file[n].data) : AddrAt(file, n) + k \in 1 .. fw_size
      BY <2>3, <3>1, <3>2
    <3>4. EndAt(file, n) <= fw_size'
      <4> HIDE DEF a, d
      <4> QED BY SMTT(30), <2>1, <2>3, <3>1, <3>2
    <3> QED BY <2>1, <2>2, <3>1, <3>3, <3>4 DEF HashedRecord
  <2> HIDE DEF a
  <2>7. fw_size' = EndAt(file, line + 1) /\ next_expect_addr' = fw_size'
    <3> HIDE DEF d
    <3> QED BY <2>0, <2>1, <2>3, <2>4
  <2>8. ASSUME NEW n \in Loaded(file), n = line + 1
        PROVE  HashedRecord(n)'
    <3>1. EndAt(file, n) <= fw_size'
      <4>1. EndAt(file, n) \in Nat
        BY <2>3, LoadedFacts
      <4> QED BY <2>7, <2>8, <4>1
    <3>2. \A k \in 1 .. Len(file[n].data) : fw_hash'[AddrAt(file, n) + k] = file[n].data[k]
      BY <2>5, <2>8 DEF a
    <3> QED BY <2>2, <3>1, <3>2 DEF HashedRecord
  <2>9. \A n \in Loaded(file) : n <= line + 1 => n <= line \/ n = line + 1
    BY <2>3, FileFacts DEF Loaded
  <2>10. \A n \in Loaded(file') : n <= line' => HashedRecord(n)'
    BY <2>2, <2>6, <2>8, <2>9
  <2>11. \E n \in Loaded(file') : n <= line' /\ fw_size' = EndAt(file', n)
    BY <2>1, <2>2, <2>3, <2>7
  <2> QED BY <2>7, <2>10, <2>11 DEF HashOrdered
<1>2. ASSUME NEW type, ReadLine(type), UNCHANGED hashVars, line + 1 \notin Loaded(file)
      PROVE  HashOrdered'
  <2>1. file' = file /\ line' = line + 1 /\ line \in Nat
    BY <1>2 DEF ReadLine, TransferTypeOK
  <2>2. \A n \in Loaded(file) : n <= line + 1 <=> n <= line
    BY <1>2, <2>1, FileFacts DEF Loaded, TransferTypeOK
  <2>3. \A n : HashedRecord(n)' <=> HashedRecord(n)
    BY <1>2, <2>1 DEF hashVars, HashedRecord
  <2> QED BY <1>2, <2>1, <2>2, <2>3 DEF hashVars, HashOrdered
<1>3. CASE IgnoreData
  BY <1>2, <1>3, ReadFacts DEF IgnoreData
<1>4. CASE ReadExtended \/ SendSize \/ IgnoreOther \/ UnexpectedLine
  <2>1. PICK type : type # 0 /\ ReadLine(type) /\ UNCHANGED hashVars
    BY <1>4 DEF ReadExtended, SendSize, IgnoreOther, UnexpectedLine, NoRecord
  <2>2. line + 1 \notin Loaded(file)
    BY <2>1, ReadFacts
  <2> QED BY <1>2, <2>1, <2>2
<1>5. ASSUME UNCHANGED <<file, line, hashVars>>
      PROVE  HashOrdered'
  BY <1>5 DEF hashVars, HashOrdered, HashedRecord
<1>6. CASE \/ EndOfFile \/ McuHandle \/ NextRecord \/ SendSignat \/ SendStop \/ Refused
           \/ Reset \/ ReadImage \/ UNCHANGED transferVars
  <2>1. UNCHANGED <<file, line, hashVars>>
    BY <1>6 DEF EndOfFile, McuHandle, NextRecord, SendSignat, SendStop, Refused, Reset,
       ReadImage, transferVars, Answered
  <2> QED BY <1>5, <2>1
<1> QED BY <1>1, <1>3, <1>4, <1>6 DEF TransferNext

\* What no record has a byte for is fill.
LEMMA FillStep ==
  ASSUME TransferTypeOK, Segment, WellFormed(file), HashOrdered, FillHashed,
         [TransferNext]_transferVars
  PROVE  FillHashed'
<1>1. CASE SendData
  <2> DEFINE a == AddrAt(file, line + 1)
             d == file[line + 1].data
  <2>1. /\ line + 1 \in Loaded(file) /\ a \in Nat /\ Len(d) \in Nat
        /\ fw_size' = fw_size + Len(d) + Gap
        /\ \A k \in 1 .. fw_size : fw_hash'[k] = fw_hash[k]
        /\ Continues(fw_hash', fw_size, fw_size + Gap, d)
    <3> HIDE DEF a, d
    <3> QED BY <1>1, SendFacts DEF a, d
  <2>2. fw_size + Gap = a /\ Gap \in Nat
    BY <1>1, GapEnds
  <2>3. file' = file /\ line' = line + 1
    BY <1>1 DEF SendData, ReadLine
  <2>4. fw_size \in Nat /\ line \in Nat
    BY DEF TransferTypeOK
  <2>5. EndAt(file, line + 1) = a + Len(d)
    BY DEF EndAt
  <2>6. \A k \in fw_size + 1 .. a : fw_hash'[k] = ERASED
    BY <2>1, <2>2 DEF Continues
  <2>7. ASSUME NEW x \in Nat, x < fw_size',
               \A n \in Loaded(file) :
                 n <= line + 1 => ~ (AddrAt(file, n) <= x /\ x < EndAt(file, n))
        PROVE  fw_hash'[x + 1] = ERASED
    <3>1. ~ (a <= x /\ x < a + Len(d))
      BY <2>1, <2>4, <2>5, <2>7
    <3>2. \A n \in Loaded(file) :
            n <= line => ~ (AddrAt(file, n) <= x /\ x < EndAt(file, n))
      BY <2>4, <2>7, FileFacts DEF Loaded, TransferTypeOK
    <3> HIDE DEF a, d
    <3>3. x < a
      BY <2>1, <2>2, <2>4, <2>7, <3>1
    <3>4. CASE x < fw_size
      <4>1. x + 1 \in 1 .. fw_size
        BY <2>4, <3>4
      <4>2. fw_hash[x + 1] = ERASED
        BY <3>2, <3>4 DEF FillHashed
      <4> QED BY <2>1, <4>1, <4>2
    <3>5. CASE ~ (x < fw_size)
      <4>1. x + 1 \in fw_size + 1 .. a
        BY <2>1, <2>4, <3>3, <3>5
      <4> QED BY <2>6, <4>1
    <3> QED BY <3>4, <3>5
  <2> QED BY <2>3, <2>7 DEF FillHashed
<1>2. ASSUME NEW type, ReadLine(type), UNCHANGED hashVars, line + 1 \notin Loaded(file)
      PROVE  FillHashed'
  <2>1. file' = file /\ line' = line + 1 /\ line \in Nat
    BY <1>2 DEF ReadLine, TransferTypeOK
  <2>2. \A n \in Loaded(file) : n <= line + 1 <=> n <= line
    BY <1>2, <2>1, FileFacts DEF Loaded, TransferTypeOK
  <2> QED BY <1>2, <2>1, <2>2 DEF hashVars, FillHashed
<1>3. CASE IgnoreData
  BY <1>2, <1>3, ReadFacts DEF IgnoreData
<1>4. CASE ReadExtended \/ SendSize \/ IgnoreOther \/ UnexpectedLine
  <2>1. PICK type : type # 0 /\ ReadLine(type) /\ UNCHANGED hashVars
    BY <1>4 DEF ReadExtended, SendSize, IgnoreOther, UnexpectedLine, NoRecord
  <2>2. line + 1 \notin Loaded(file)
    BY <2>1, ReadFacts
  <2> QED BY <1>2, <2>1, <2>2
<1>5. CASE \/ EndOfFile \/ McuHandle \/ NextRecord \/ SendSignat \/ SendStop \/ Refused
           \/ Reset \/ ReadImage \/ UNCHANGED transferVars
  <2>1. UNCHANGED <<file, line, hashVars>>
    BY <1>5 DEF EndOfFile, McuHandle, NextRecord, SendSignat, SendStop, Refused, Reset,
       ReadImage, transferVars, Answered
  <2> QED BY <2>1 DEF hashVars, FillHashed
<1> QED BY <1>1, <1>3, <1>4, <1>5 DEF TransferNext

-----------------------------------------------------------------------------
(* What has been hashed is what has been programmed.                       *)

\* What a file in order promises of a record that is to be sent.
LEMMA WellFormedFacts ==
  ASSUME NEW f, WellFormed(f), NEW n \in Loaded(f)
  PROVE  /\ AddrAt(f, n) \notin 1 .. 3
         /\ AddrAt(f, n) = 0 => Len(f[n].data) >= 4
         /\ LeavesGap(AddrAt(f, n), f[n].data)
BY DEF WellFormed, LeavesGap

\* A record that is accepted is programmed where it was hashed.
LEMMA RecordInstalled ==
  ASSUME TransferTypeOK, ValidTypeOK, InFlight, WellFormed(file), Installed, McuHandle,
         hpc = "reply", status' = "STATUS_NO_ERR"
  PROVE  /\ Mirrors(flash', fw_hash, fw_size) /\ fw_size < SIGNAT_OFFSET
         /\ \A x \in SIGNAT_OFFSET .. BTLD_OFFSET - 1 : flash'[x] = ERASED
<1> DEFINE a == AddrAt(file, line)
           d == file[line].data
<1>1. line \in Loaded(file) /\ sent # None /\ status = "STATUS_NO_ERR"
  BY DEF McuHandle, InFlight
<1>2. /\ EndAt(file, line) < SIGNAT_OFFSET
      /\ a # 0 => flash' = WriteBytes(flash, a, d)
      /\ a = 0 /\ Len(d) >= 4 => flash' = Start(flash, d)
  <2> HIDE DEF a, d
  <2> QED BY HandleFacts DEF a, d
<1>3. /\ a \in Nat /\ d \in Seq(Byte) /\ Len(d) \in Nat /\ EndAt(file, line) = a + Len(d)
      /\ file \in Files /\ flash \in [Addr -> Byte]
  BY <1>1, LoadedFacts DEF TransferTypeOK, ValidTypeOK
<1>4. a \notin 1 .. 3 /\ (a = 0 => Len(d) >= 4) /\ LeavesGap(a, d)
  BY <1>1, WellFormedFacts
<1>5. PICK n \in Nat :
        /\ n <= a /\ n < SIGNAT_OFFSET /\ Mirrors(flash, fw_hash, n)
        /\ Continues(fw_hash, n, a, d)
        /\ fw_size = EndAt(file, line)
  BY <1>1 DEF Installed, CodeInstalled, Pending
<1>6. \A x \in SIGNAT_OFFSET .. BTLD_OFFSET - 1 : flash[x] = ERASED
  BY <1>1 DEF Installed, SizeInstalled, Sized
<1> HIDE DEF a, d
<1>7. fw_size = a + Len(d) /\ a + Len(d) < SIGNAT_OFFSET /\ SIGNAT_OFFSET \in Nat
  BY <1>2, <1>3, <1>5, LowAddr
<1>8. CASE a = 0
  <2>1. n = 0 /\ Len(d) >= 4 /\ fw_size = Len(d) /\ Len(d) < SIGNAT_OFFSET
    BY <1>3, <1>4, <1>5, <1>7, <1>8
  <2>2. flash' = Start(flash, d)
    BY <1>2, <1>8, <2>1
  <2>3. Mirrors(flash, fw_hash, 0) /\ Continues(fw_hash, 0, 0, d) /\ LeavesGap(0, d)
    BY <1>4, <1>5, <1>8, <2>1
  <2>4. Mirrors(Start(flash, d), fw_hash, Len(d))
    BY <1>3, <2>1, <2>3, MirrorStart
  <2>5. \A x \in SIGNAT_OFFSET .. BTLD_OFFSET - 1 : Start(flash, d)[x] = flash[x]
    BY <1>3, <2>1, StartBelow
  <2> QED BY <1>6, <1>7, <2>1, <2>2, <2>4, <2>5
<1>9. CASE a # 0
  <2>1. a >= 4
    BY <1>3, <1>4, <1>9
  <2>2. flash' = WriteBytes(flash, a, d)
    BY <1>2, <1>9
  <2>3. Mirrors(WriteBytes(flash, a, d), fw_hash, a + Len(d))
    BY <1>3, <1>4, <1>5, <1>7, <2>1, MirrorRecord
  <2>4. \A x \in SIGNAT_OFFSET .. BTLD_OFFSET - 1 : WriteBytes(flash, a, d)[x] = flash[x]
    BY SMTT(30), <1>3, <1>7, WriteBelow
  <2> QED BY <1>6, <1>7, <2>2, <2>3, <2>4
<1> QED BY <1>8, <1>9

\* As long as nothing is refused, the MCU has what the tool has hashed.
LEMMA InstallStep ==
  ASSUME TransferTypeOK, ValidTypeOK, Segment, InFlight, Answers, WellFormed(file),
         HashOrdered, Installed, [TransferNext]_transferVars
  PROVE  Installed'
<1>1. CASE SendData
  <2> DEFINE a == AddrAt(file, line + 1)
             d == file[line + 1].data
  <2>0. fw_size + Gap = a /\ Gap \in Nat
    BY <1>1, GapEnds
  <2>1. /\ line + 1 \in Loaded(file) /\ a \in Nat /\ Len(d) \in Nat /\ d \in Seq(Byte)
        /\ sent' = DataMessage(a, d)
        /\ fw_size' = fw_size + Len(d) + Gap
        /\ \A k \in 1 .. fw_size : fw_hash'[k] = fw_hash[k]
        /\ Continues(fw_hash', fw_size, fw_size + Gap, d)
    <3> HIDE DEF a, d
    <3> QED BY <1>1, SendFacts DEF a, d
  <2>2. /\ file' = file /\ line' = line + 1 /\ flash' = flash /\ status' = status
        /\ hpc = "line" /\ hpc' = "reply"
    BY <1>1 DEF SendData, ReadLine, mcuVars
  <2>3. sent = None /\ status = "STATUS_NO_ERR"
    BY <2>2 DEF Answers
  <2>4. sent' # None
    <3> HIDE DEF a, d
    <3> QED BY <2>1, MessageThere
  <2>5. /\ fw_size < SIGNAT_OFFSET /\ Mirrors(flash, fw_hash, fw_size)
        /\ \A x \in SIGNAT_OFFSET .. BTLD_OFFSET - 1 : flash[x] = ERASED
    BY <2>2, <2>3 DEF Installed, CodeInstalled, SizeInstalled, Pending, Sized
  <2>6. fw_size \in Nat
    BY DEF TransferTypeOK
  <2>7. Mirrors(flash, fw_hash', fw_size)
    BY <2>1, <2>5, <2>6, MirrorsLonger
  <2>8. Continues(fw_hash', fw_size, a, d)
    BY <2>0, <2>1
  <2>9. fw_size <= a /\ fw_size' = a + Len(d)
    <3> HIDE DEF a, d
    <3> QED BY <2>0, <2>1, <2>6
  <2>10. CodeInstalled'
    <3>1. Pending'
      BY <2>2, <2>4 DEF Pending
    <3>2. a = AddrAt(file', line') /\ d = file'[line'].data
      BY <2>2
    <3>3. fw_size' = EndAt(file', line')
      BY <2>2, <2>9 DEF EndAt
    <3>4. \E n \in Nat :
            /\ n <= AddrAt(file', line') /\ n < SIGNAT_OFFSET
            /\ Mirrors(flash', fw_hash', n)
            /\ Continues(fw_hash', n, AddrAt(file', line'), file'[line'].data)
            /\ fw_size' = EndAt(file', line')
      <4> HIDE DEF a, d
      <4>1. /\ fw_size <= a /\ Mirrors(flash', fw_hash', fw_size)
            /\ Continues(fw_hash', fw_size, a, d)
        BY <2>2, <2>7, <2>8, <2>9
      <4> QED BY <2>5, <2>6, <3>2, <3>3, <4>1
    <3> QED BY <3>1, <3>4 DEF CodeInstalled
  <2>11. SizeInstalled'
    BY <2>2, <2>5 DEF SizeInstalled, Sized
  <2> QED BY <2>10, <2>11 DEF Installed
<1>2. CASE SendSize
  <2>1. /\ file' = file /\ flash' = flash /\ status' = status /\ UNCHANGED hashVars
        /\ hpc = "line" /\ hpc' = "size"
        /\ sent' = [op |-> "M", bytes |-> SizeBytes(fw_size)]
    BY <1>2 DEF SendSize, ReadLine, mcuVars
  <2>2. sent = None /\ status = "STATUS_NO_ERR"
    BY <2>1 DEF Answers
  <2>3. sent' # None
    BY <2>1, MessageThere, SizeBytesType DEF TransferTypeOK
  <2> QED BY <2>1, <2>2, <2>3
          DEF hashVars, Installed, CodeInstalled, SizeInstalled, Pending, Sized
<1>3. CASE SendSignat \/ SendStop
  <2>1. /\ file' = file /\ flash' = flash /\ status' = status /\ UNCHANGED hashVars
        /\ sent = None /\ status = "STATUS_NO_ERR"
        /\ \/ hpc = "size" /\ hpc' = "signat"
           \/ hpc = "signat" /\ hpc' = "done"
    BY <1>3 DEF SendSignat, SendStop, Answered, mcuVars
  <2> QED BY <2>1 DEF hashVars, Installed, CodeInstalled, SizeInstalled, Pending, Sized
<1>4. CASE IgnoreData \/ ReadExtended \/ IgnoreOther
  <2>1. /\ file' = file /\ flash' = flash /\ status' = status /\ UNCHANGED hashVars
        /\ hpc = "line" /\ hpc' = hpc
    BY <1>4 DEF IgnoreData, ReadExtended, IgnoreOther, ReadLine, mcuVars
  <2> QED BY <2>1 DEF hashVars, Installed, CodeInstalled, SizeInstalled, Pending, Sized
<1>5. CASE EndOfFile \/ UnexpectedLine
  <2>1. /\ flash' = flash /\ status' = status /\ UNCHANGED hashVars
        /\ hpc = "line" /\ hpc' = "ended"
    BY <1>5 DEF EndOfFile, UnexpectedLine, ReadLine, mcuVars
  <2> QED BY <2>1 DEF hashVars, Installed, CodeInstalled, SizeInstalled, Pending, Sized
<1>6. CASE NextRecord
  <2>1. /\ flash' = flash /\ status' = status /\ UNCHANGED hashVars
        /\ sent = None /\ hpc = "reply" /\ hpc' = "line"
    BY <1>6 DEF NextRecord, Answered, mcuVars
  <2> QED BY <2>1 DEF hashVars, Installed, CodeInstalled, SizeInstalled, Pending, Sized
<1>7. CASE Refused
  BY <1>7 DEF Refused, mcuVars, Installed
<1>8. CASE McuHandle
  <2>1. /\ sent # None /\ sent' = None /\ status = "STATUS_NO_ERR" /\ hpc' = hpc
        /\ UNCHANGED hashVars
        /\ flash \in [Addr -> Byte] /\ fw_size \in Nat
    BY <1>8 DEF McuHandle, ValidTypeOK, TransferTypeOK
  <2>2. /\ hpc \in {"reply", "size", "signat", "done"}
        /\ hpc = "size" => flash' = WriteBytes(flash, CODE_SIZE_OFFSET, SizeBytes(fw_size))
        /\ hpc = "signat" => flash' = WriteBytes(flash, SIGNAT_OFFSET, Signature)
        /\ hpc = "done" => flash' = flash
    BY <1>8, HandleFacts
  <2>3. ~Pending'
    BY <2>1 DEF Pending
  <2>4. CASE hpc = "reply"
    <3>1. ASSUME status' = "STATUS_NO_ERR"
          PROVE  CodeInstalled' /\ SizeInstalled'
      <4>1. /\ Mirrors(flash', fw_hash, fw_size) /\ fw_size < SIGNAT_OFFSET
            /\ \A x \in SIGNAT_OFFSET .. BTLD_OFFSET - 1 : flash'[x] = ERASED
        BY <1>8, <2>4, <3>1, RecordInstalled
      <4> QED BY <2>1, <2>3, <2>4, <4>1 DEF hashVars, CodeInstalled, SizeInstalled, Sized
    <3> QED BY <2>1, <2>4, <3>1 DEF Installed
  <2>5. ASSUME hpc # "reply"
        PROVE  fw_size < SIGNAT_OFFSET /\ Mirrors(flash, fw_hash, fw_size) /\ SizeInstalled
    BY <2>1, <2>5 DEF Installed, CodeInstalled, Pending
  <2>6. CASE hpc = "size"
    <3>1. \A x \in SIGNAT_OFFSET .. BTLD_OFFSET - 1 : flash[x] = ERASED
      BY <2>1, <2>5, <2>6 DEF SizeInstalled, Sized
    <3>0. /\ StoredSize(flash') = fw_size
          /\ \A x \in 0 .. CODE_SIZE_OFFSET - 1 : flash'[x] = flash[x]
      BY <2>1, <2>2, <2>5, <2>6, <3>1, SizeWritten
    <3>2. /\ StoredSize(flash') = fw_size
          /\ \A x \in 0 .. SIGNAT_OFFSET - 1 : flash'[x] = flash[x]
      BY <3>0, Layout
    <3>3. Mirrors(flash', fw_hash, fw_size)
      BY <2>5, <2>6, <3>2, MirrorsKept
    <3> QED BY <2>1, <2>3, <2>5, <2>6, <3>2, <3>3
            DEF hashVars, Installed, CodeInstalled, SizeInstalled, Sized
  <2>7. CASE hpc = "signat"
    <3>1. StoredSize(flash) = fw_size
      BY <2>5, <2>7 DEF SizeInstalled, Sized
    <3>2. /\ StoredSize(flash') = fw_size
          /\ \A x \in 0 .. SIGNAT_OFFSET - 1 : flash'[x] = flash[x]
      BY <2>1, <2>2, <2>7, <3>1, SignatureWritten
    <3>3. Mirrors(flash', fw_hash, fw_size)
      BY <2>5, <2>7, <3>2, MirrorsKept
    <3> QED BY <2>1, <2>3, <2>5, <2>7, <3>2, <3>3
            DEF hashVars, Installed, CodeInstalled, SizeInstalled, Sized
  <2>8. CASE hpc = "done"
    <3>1. flash' = flash /\ StoredSize(flash) = fw_size
      BY <2>2, <2>5, <2>8 DEF SizeInstalled, Sized
    <3> QED BY <2>1, <2>3, <2>5, <2>8, <3>1
            DEF hashVars, Installed, CodeInstalled, SizeInstalled, Sized
  <2> QED BY <2>2, <2>4, <2>6, <2>7, <2>8
<1>9. ASSUME UNCHANGED <<flash, status, file, hpc, line, hashVars, sent>>
      PROVE  Installed'
  BY <1>9 DEF hashVars, Installed, CodeInstalled, SizeInstalled, Pending, Sized
<1>10. CASE Reset \/ ReadImage \/ UNCHANGED transferVars
  <2>1. UNCHANGED <<flash, status, file, hpc, line, hashVars, sent>>
    BY <1>10 DEF Reset, ReadImage, VerifyNext, ReadSize, HashFirst, HashChunk, HashRest,
       transferVars, mcuVars
  <2> QED BY <1>9, <2>1
<1> QED BY <1>1, <1>2, <1>3, <1>4, <1>5, <1>6, <1>7, <1>8, <1>10 DEF TransferNext

\* The signature is programmed where nothing was, and stays.
LEMMA SignatStep ==
  ASSUME TransferTypeOK, ValidTypeOK, Segment, InFlight, Answers, WellFormed(file),
         Installed, SignatInstalled, [TransferNext]_transferVars
  PROVE  SignatInstalled'
<1>1. ASSUME flash' = flash,
             status' = "STATUS_NO_ERR" \/ hpc' = "done" =>
               status = "STATUS_NO_ERR" \/ hpc = "done",
             Signed' <=> Signed
      PROVE  SignatInstalled'
  BY <1>1 DEF SignatInstalled
<1>2. CASE \/ IgnoreData \/ SendData \/ ReadExtended \/ SendSize \/ IgnoreOther
           \/ UnexpectedLine \/ EndOfFile
  <2>1. flash' = flash /\ status' = status /\ hpc = "line"
        /\ hpc' \in {"line", "reply", "size", "ended"}
    BY <1>2 DEF IgnoreData, SendData, ReadExtended, SendSize, IgnoreOther, UnexpectedLine,
       EndOfFile, ReadLine, mcuVars
  <2> QED BY <1>1, <2>1 DEF Signed
<1>3. CASE NextRecord \/ SendSignat \/ SendStop
  <2>1. /\ flash' = flash /\ status' = status /\ status = "STATUS_NO_ERR" /\ sent = None
        /\ \/ hpc = "reply" /\ hpc' = "line"
           \/ hpc = "size" /\ hpc' = "signat" /\ sent' = [op |-> "N", bytes |-> Signature]
           \/ hpc = "signat" /\ hpc' = "done"
    BY <1>3 DEF NextRecord, SendSignat, SendStop, Answered, mcuVars
  <2>2. [op |-> "N", bytes |-> Signature] # None
    BY MessageThere, SignatureAssumption
  <2> QED BY <1>1, <2>1, <2>2 DEF Signed
<1>4. CASE Refused
  BY <1>4 DEF Refused, mcuVars, SignatInstalled
<1>5. CASE Reset \/ ReadImage \/ UNCHANGED transferVars
  <2>1. UNCHANGED <<flash, status, hpc, sent>>
    BY <1>5 DEF Reset, ReadImage, VerifyNext, ReadSize, HashFirst, HashChunk, HashRest,
       transferVars, mcuVars
  <2> QED BY <1>1, <2>1 DEF Signed
<1>6. CASE McuHandle
  <2>1. /\ sent # None /\ sent' = None /\ status = "STATUS_NO_ERR" /\ hpc' = hpc
        /\ flash \in [Addr -> Byte] /\ fw_size \in Nat
    BY <1>6 DEF McuHandle, ValidTypeOK, TransferTypeOK
  <2>2. /\ hpc \in {"reply", "size", "signat", "done"}
        /\ hpc = "size" => flash' = WriteBytes(flash, CODE_SIZE_OFFSET, SizeBytes(fw_size))
        /\ hpc = "signat" => flash' = WriteBytes(flash, SIGNAT_OFFSET, Signature)
        /\ hpc = "done" => flash' = flash
    BY <1>6, HandleFacts
  <2>3. \A k \in 1 .. SIGNAT_SIZE :
          flash[SIGNAT_OFFSET + k - 1] = IF hpc = "done" THEN Signature[k] ELSE ERASED
    BY <2>1 DEF SignatInstalled, Signed
  <2>4. CASE hpc = "reply"
    <3>1. ASSUME status' = "STATUS_NO_ERR", NEW k \in 1 .. SIGNAT_SIZE
          PROVE  flash'[SIGNAT_OFFSET + k - 1] = ERASED
      <4>1. \A x \in SIGNAT_OFFSET .. BTLD_OFFSET - 1 : flash'[x] = ERASED
        BY <1>6, <2>4, <3>1, RecordInstalled
      <4> QED BY <4>1, Layout
    <3> QED BY <2>1, <2>4, <3>1 DEF SignatInstalled, Signed
  <2>5. CASE hpc = "size"
    <3>1. /\ fw_size < SIGNAT_OFFSET
          /\ \A x \in SIGNAT_OFFSET .. BTLD_OFFSET - 1 : flash[x] = ERASED
      BY <2>1, <2>5 DEF Installed, CodeInstalled, SizeInstalled, Pending, Sized
    <3>2. \A x \in 0 .. CODE_SIZE_OFFSET - 1 : flash'[x] = flash[x]
      BY <2>1, <2>2, <2>5, <3>1, SizeWritten
    <3>3. \A k \in 1 .. SIGNAT_SIZE : SIGNAT_OFFSET + k - 1 \in 0 .. CODE_SIZE_OFFSET - 1
      BY Layout
    <3> QED BY <2>1, <2>3, <2>5, <3>2, <3>3 DEF SignatInstalled, Signed
  <2>6. CASE hpc = "signat"
    <3>1. \A k \in 1 .. SIGNAT_SIZE :
            WriteBytes(flash, SIGNAT_OFFSET, Signature)[SIGNAT_OFFSET + k - 1] = Signature[k]
      BY <2>1, <2>3, <2>6, SignatureWritten
    <3> QED BY <2>1, <2>2, <2>6, <3>1 DEF SignatInstalled, Signed
  <2>7. CASE hpc = "done"
    BY <1>1, <2>1, <2>2, <2>7 DEF Signed
  <2> QED BY <2>2, <2>4, <2>5, <2>6, <2>7
<1> QED BY <1>2, <1>3, <1>4, <1>5, <1>6 DEF TransferNext

\* The record that ends a file is its last.
LEMMA FileStep ==
  ASSUME TransferTypeOK, Segment, WellFormed(file), FileDone, [TransferNext]_transferVars
  PROVE  FileDone'
<1>1. CASE SendSize
  <2>1. ReadLine(1) /\ file' = file /\ line' = line + 1
    BY <1>1 DEF SendSize, ReadLine
  <2>2. line + 1 \in 1 .. Len(file) /\ file[line + 1].type = 1
    BY <2>1, ReadFacts
  <2>3. line + 1 = Len(file)
    BY <2>2 DEF WellFormed
  <2> QED BY <2>1, <2>3 DEF FileDone
<1>2. CASE IgnoreData \/ SendData \/ ReadExtended \/ IgnoreOther \/ UnexpectedLine
  <2>1. hpc' \in {"line", "reply", "ended"}
    BY <1>2 DEF IgnoreData, SendData, ReadExtended, IgnoreOther, UnexpectedLine, ReadLine
  <2> QED BY <2>1 DEF FileDone
<1>3. CASE \/ EndOfFile \/ McuHandle \/ NextRecord \/ SendSignat \/ SendStop \/ Refused
           \/ Reset \/ ReadImage \/ UNCHANGED transferVars
  <2>1. UNCHANGED <<file, line>>
    BY <1>3 DEF EndOfFile, McuHandle, NextRecord, SendSignat, SendStop, Refused, Reset,
       ReadImage, transferVars, Answered
  <2>2. hpc' \in {"size", "signat", "done"} => hpc \in {"size", "signat", "done"}
    BY <1>3 DEF EndOfFile, McuHandle, NextRecord, SendSignat, SendStop, Refused, Reset,
       ReadImage, transferVars, Answered
  <2> QED BY <2>1, <2>2 DEF FileDone
<1> QED BY <1>1, <1>2, <1>3 DEF TransferNext

-----------------------------------------------------------------------------

\* TransferInv holds initially.
LEMMA InitiallyTransfer == TransferInit => TransferInv
<1> SUFFICES ASSUME TransferInit PROVE TransferInv
  OBVIOUS
<1> USE DEF TransferInit
<1>1. flash = Blank /\ flash \in [Addr -> Byte] /\ status = "STATUS_NO_ERR"
  BY BlankType DEF HandleInit
<1>2. Len(file) \in Nat /\ 0 <= Len(file) /\ LAST_UPPER \in Nat
  BY FileFacts, FilesAssumption
<1>3. TransferTypeOK
  <2>1. fw_hash \in Seq(Byte) /\ Len(fw_hash) = 0 /\ fw_size = 0
    OBVIOUS
  <2>2. ignore_next_data_rec \in BOOLEAN
    OBVIOUS
  <2>3. /\ file \in Files /\ line = 0 /\ hpc = "line" /\ addr_upper = 0
        /\ next_expect_addr = 0
    OBVIOUS
  <2> QED BY <1>2, <2>1, <2>2, <2>3 DEF TransferTypeOK
<1>4. ValidInv
  BY <1>1, ChunkAssumption DEF ValidInv, ValidTypeOK, HashedSoFar
<1>5. Segment
  <2>1. {k \in 1 .. (0 + 1) - 1 : file[k].type = 4} = {}
    OBVIOUS
  <2>2. UpperAt(file, 0 + 1) = 0
    BY <2>1 DEF UpperAt
  <2> QED BY <1>2, <2>2 DEF Segment
<1>6. InFlight /\ Answers /\ FileDone
  BY <1>1 DEF InFlight, Answers, FileDone
<1>7. HashOrdered
  <2>1. \A n \in Loaded(file) : ~(n <= 0)
    BY <1>2 DEF Loaded
  <2> QED BY <2>1 DEF HashOrdered
<1>9. FillHashed
  BY DEF FillHashed
<1>8. Installed /\ SignatInstalled
  <2>1. \A x \in Addr : x >= 4 => flash[x] = ERASED
    BY <1>1 DEF Blank, Addr
  <2>2. \A x \in 0 .. 3 : x + 4 \in Addr /\ x + 4 >= 4 /\ ~(x < 0)
    BY LowAddr
  <2>3. \A x \in 8 .. SIGNAT_OFFSET - 1 : x \in Addr /\ x >= 4 /\ ~(x < 0)
    BY LowAddr
  <2>4. \A x \in 4 .. 7 : ~(x < 0)
    OBVIOUS
  <2>5. Mirrors(flash, fw_hash, 0)
    BY <2>1, <2>2, <2>3, <2>4 DEF Mirrors
  <2>6. \A x \in SIGNAT_OFFSET .. BTLD_OFFSET - 1 : x \in Addr /\ x >= 4
    BY Layout DEF Addr
  <2>7. SizeInstalled
    BY <2>1, <2>6 DEF SizeInstalled, Sized
  <2>8. CodeInstalled
    BY <2>5, LowAddr DEF CodeInstalled, Pending
  <2>9. \A k \in 1 .. SIGNAT_SIZE :
          SIGNAT_OFFSET + k - 1 \in SIGNAT_OFFSET .. BTLD_OFFSET - 1
    BY Layout
  <2>10. SignatInstalled
    BY <2>1, <2>6, <2>9 DEF SignatInstalled, Signed
  <2> QED BY <2>7, <2>8, <2>10 DEF Installed
<1> QED BY <1>3, <1>4, <1>5, <1>6, <1>7, <1>8, <1>9 DEF TransferInv

\* Each step keeps TransferInv.
LEMMA TransferStep == TransferInv /\ [TransferNext]_transferVars => TransferInv'
<1> SUFFICES ASSUME TransferInv, [TransferNext]_transferVars PROVE TransferInv'
  OBVIOUS
<1>1. TransferTypeOK /\ ValidInv /\ ValidTypeOK /\ Segment /\ InFlight /\ Answers
  BY DEF TransferInv, ValidInv
<1>2. TransferTypeOK' /\ Segment'
  BY <1>1, TypeStep
<1>3. InFlight' /\ Answers'
  BY <1>1, MessageStep
<1>4. ValidInv'
  BY <1>1, VerifyStep
<1>5. file' = file
  BY DEF TransferNext, IgnoreData, SendData, ReadExtended, SendSize, IgnoreOther,
     UnexpectedLine, ReadLine, EndOfFile, McuHandle, NextRecord, SendSignat, SendStop, Refused, Answered, Reset,
     ReadImage, transferVars
<1>6. ASSUME WellFormed(file)
      PROVE  HashOrdered' /\ FillHashed' /\ Installed' /\ SignatInstalled' /\ FileDone'
  <2>1. HashOrdered /\ FillHashed /\ Installed /\ SignatInstalled /\ FileDone
    BY <1>6 DEF TransferInv
  <2>2. HashOrdered'
    BY <1>1, <1>6, <2>1, HashStep
  <2>3. Installed'
    BY <1>1, <1>6, <2>1, InstallStep
  <2>4. FileDone'
    BY <1>1, <1>6, <2>1, FileStep
  <2>5. FillHashed'
    BY <1>1, <1>6, <2>1, FillStep
  <2>6. SignatInstalled'
    BY <1>1, <1>6, <2>1, SignatStep
  <2> QED BY <2>2, <2>3, <2>4, <2>5, <2>6
<1>7. WellFormed(file)' => WellFormed(file)
  BY <1>5
<1> QED BY <1>2, <1>3, <1>4, <1>6, <1>7 DEF TransferInv

\* TransferInv is an invariant.
LEMMA TransferInvariance == TransferSpec => []TransferInv
BY InitiallyTransfer, TransferStep, PTL DEF TransferSpec

(***************************************************************************)
(* Whatever the file and the layout of the memory: the tool gives up only  *)
(* for an empty record, or one whose end is the beginning of the metadata  *)
(* or lies behind it (btld.py:210-213, main.c:102).                        *)
(***************************************************************************)
THEOREM RefusalTheorem ==
  TransferSpec => [](hpc = "refused" => \E n \in Loaded(file) : Misfit(n))
<1>1. TransferInv => (hpc = "refused" => \E n \in Loaded(file) : Misfit(n))
  BY DEF TransferInv, Answers
<1> QED BY <1>1, TransferInvariance, PTL

\* When the tool is done, all of the file has been hashed and programmed.
LEMMA DoneFacts ==
  ASSUME TransferInv, hpc = "done", WellFormed(file)
  PROVE  /\ fw_size \in Nat /\ fw_size < SIGNAT_OFFSET /\ Mirrors(flash, fw_hash, fw_size)
         /\ StoredSize(flash) = fw_size
         /\ \A n \in Loaded(file) : HashedRecord(n)
         /\ \E n \in Loaded(file) : fw_size = EndAt(file, n)
         /\ \A x \in Nat : x < fw_size /\ ~Covered(file, x) => fw_hash[x + 1] = ERASED
         /\ \A k \in 1 .. SIGNAT_SIZE : flash[SIGNAT_OFFSET + k - 1] = Signature[k]
<1>1. /\ HashOrdered /\ FillHashed /\ Installed /\ SignatInstalled /\ FileDone
      /\ TransferTypeOK
  BY DEF TransferInv
<1>2. /\ fw_size < SIGNAT_OFFSET /\ Mirrors(flash, fw_hash, fw_size)
      /\ StoredSize(flash) = fw_size
  BY <1>1 DEF Installed, CodeInstalled, SizeInstalled, Pending, Sized
<1>3. \A n \in Loaded(file) : n <= line
  BY <1>1, FileFacts DEF FileDone, Loaded, TransferTypeOK
<1>4. \A n \in Loaded(file) : HashedRecord(n)
  BY <1>1, <1>3 DEF HashOrdered
<1>5. \E n \in Loaded(file) : fw_size = EndAt(file, n)
  <2>1. PICK m \in Loaded(file) : EndAt(file, m) >= CHUNK
    BY DEF WellFormed
  <2>2. EndAt(file, m) <= fw_size /\ EndAt(file, m) \in Nat /\ CHUNK \in Nat /\ CHUNK >= 8
    BY <1>1, <1>4, LoadedFacts, ChunkAssumption DEF HashedRecord, TransferTypeOK
  <2>3. fw_size # 0
    BY <1>1, <2>1, <2>2 DEF TransferTypeOK
  <2> QED BY <1>1, <2>3 DEF HashOrdered
<1>6. \A x \in Nat : x < fw_size /\ ~Covered(file, x) => fw_hash[x + 1] = ERASED
  BY <1>1 DEF FillHashed, Covered
<1>7. \A k \in 1 .. SIGNAT_SIZE : flash[SIGNAT_OFFSET + k - 1] = Signature[k]
  BY <1>1 DEF SignatInstalled, Signed
<1> QED BY <1>1, <1>2, <1>4, <1>5, <1>6, <1>7 DEF TransferTypeOK

(***************************************************************************)
(* Whatever the file, if it is in order: when the tool is done, every byte *)
(* of the file is where it belongs, all other user code is blank, the size *)
(* is where the last record ends and the signature where the boot looks    *)
(* for it (btld.py:206-215, main.c:71-118).                                *)
(***************************************************************************)
THEOREM InstallTheorem == TransferSpec => []InstallsTheFile
<1>1. ASSUME TransferInv, hpc = "done", WellFormed(file),
             NEW n \in Loaded(file), NEW k \in 1 .. Len(file[n].data),
             AddrAt(file, n) + k - 1 \notin 4 .. 7
      PROVE  flash[Moved(AddrAt(file, n) + k - 1)] = file[n].data[k]
  <2> DEFINE a == AddrAt(file, n)
             x == a + k - 1
  <2>1. /\ fw_size \in Nat /\ fw_size < SIGNAT_OFFSET /\ Mirrors(flash, fw_hash, fw_size)
        /\ HashedRecord(n)
    BY <1>1, DoneFacts
  <2>2. /\ a \in Nat /\ Len(file[n].data) \in Nat
        /\ EndAt(file, n) = a + Len(file[n].data)
    BY <1>1, LoadedFacts DEF TransferInv, TransferTypeOK
  <2>3. EndAt(file, n) <= fw_size /\ fw_hash[a + k] = file[n].data[k]
    BY <1>1, <2>1 DEF HashedRecord
  <2>4. x \notin 4 .. 7
    BY <1>1
  <2> HIDE DEF a
  <2>5. x \in Nat /\ x < fw_size /\ x + 1 = a + k
    BY <1>1, <2>1, <2>2, <2>3
  <2> HIDE DEF x
  <2>6. CASE x < 4
    <3>1. x \in 0 .. 3
      BY <2>5, <2>6
    <3>2. flash[x + 4] = fw_hash[x + 1]
      BY <2>1, <2>5, <3>1 DEF Mirrors
    <3> QED BY <2>3, <2>5, <2>6, <3>2 DEF x, a, Moved
  <2>7. CASE ~(x < 4)
    <3>1. x \in 8 .. SIGNAT_OFFSET - 1
      BY <2>1, <2>4, <2>5, <2>7, LowAddr
    <3>2. flash[x] = fw_hash[x + 1]
      BY <2>1, <2>5, <3>1 DEF Mirrors
    <3> QED BY <2>3, <2>5, <2>7, <3>2 DEF x, a, Moved
  <2> QED BY <2>6, <2>7
<1>2. ASSUME TransferInv, hpc = "done", WellFormed(file),
             NEW x \in 0 .. SIGNAT_OFFSET - 1, x \notin 4 .. 7, ~Covered(file, x)
      PROVE  flash[Moved(x)] = ERASED
  <2>1. /\ fw_size \in Nat /\ Mirrors(flash, fw_hash, fw_size)
        /\ x < fw_size => fw_hash[x + 1] = ERASED
    BY <1>2, DoneFacts
  <2>2. CASE x < 4
    <3>1. x \in 0 .. 3
      BY <2>2
    <3>2. flash[x + 4] = IF x < fw_size THEN fw_hash[x + 1] ELSE ERASED
      BY <2>1, <3>1 DEF Mirrors
    <3> QED BY <2>1, <2>2, <3>2 DEF Moved
  <2>3. CASE ~(x < 4)
    <3>1. x \in 8 .. SIGNAT_OFFSET - 1
      BY <1>2, <2>3, LowAddr
    <3>2. flash[x] = IF x < fw_size THEN fw_hash[x + 1] ELSE ERASED
      BY <2>1, <3>1 DEF Mirrors
    <3> QED BY <2>1, <2>3, <3>2 DEF Moved
  <2> QED BY <2>2, <2>3
<1>3. ASSUME TransferInv, hpc = "done", WellFormed(file)
      PROVE  /\ \E n \in Loaded(file) :
                  /\ StoredSize(flash) = EndAt(file, n)
                  /\ \A m \in Loaded(file) : EndAt(file, m) <= EndAt(file, n)
             /\ \A k \in 1 .. SIGNAT_SIZE : flash[SIGNAT_OFFSET + k - 1] = Signature[k]
  BY <1>3, DoneFacts DEF HashedRecord
<1>4. TransferInv => InstallsTheFile
  BY <1>1, <1>2, <1>3 DEF InstallsTheFile
<1> QED BY <1>4, TransferInvariance, PTL

\* What mirrors h is the image of h.
LEMMA MirrorsImage ==
  ASSUME NEW h \in Seq(Byte), NEW n, n = Len(h), n < SIGNAT_OFFSET, Mirrors(flash, h, n),
         flash \in [Addr -> Byte]
  PROVE  ImageOf(flash, n) = h
<1>1. n \in Nat /\ DOMAIN flash = Addr
  OBVIOUS
<1>2. ASSUME NEW k \in 1 .. n
      PROVE  ImageByte(flash, k - 1) = h[k]
  <2> DEFINE x == k - 1
  <2>1. x \in Nat /\ x < n /\ x + 1 = k /\ x < SIGNAT_OFFSET
    BY <1>1, LowAddr
  <2> HIDE DEF x
  <2>2. CASE x < 4
    <3>1. x \in 0 .. 3
      BY <2>1, <2>2
    <3> QED BY <2>1, <2>2, <3>1 DEF Mirrors, ImageByte, x
  <2>3. CASE x >= 4 /\ x < 8
    <3>1. x \in 4 .. 7 /\ ~(x < 4)
      BY <2>1, <2>3
    <3> QED BY <2>1, <2>3, <3>1 DEF Mirrors, ImageByte, x
  <2>4. CASE x >= 8
    <3>1. x \in 8 .. SIGNAT_OFFSET - 1 /\ x \in Addr /\ ~(x < 4) /\ ~(x < 8)
      BY <2>1, <2>4, LowAddr
    <3> QED BY <1>1, <2>1, <2>4, <3>1 DEF Mirrors, ImageByte, x
  <2> QED BY <2>1, <2>2, <2>3, <2>4
<1>3. ImageOf(flash, n) = [k \in 1 .. n |-> h[k]]
  BY <1>2 DEF ImageOf
<1>4. h = [k \in 1 .. n |-> h[k]]
  OBVIOUS
<1> QED BY <1>3, <1>4

(***************************************************************************)
(* Whatever the file, if it is in order, and whatever the layout: what the *)
(* MCU hashes after the reset is what the tool has hashed (btld.py:146-179,*)
(* main.c:106-118, 197-239).                                               *)
(***************************************************************************)
THEOREM AgreeTheorem == TransferSpec => []HashesAgree
<1>1. ASSUME TransferInv, hpc = "done", step = "verify", WellFormed(file)
      PROVE  hashed = fw_hash
  <2>1. /\ fw_size \in Nat /\ fw_size < SIGNAT_OFFSET /\ Mirrors(flash, fw_hash, fw_size)
        /\ StoredSize(flash) = fw_size
        /\ \A n \in Loaded(file) : HashedRecord(n)
    BY <1>1, DoneFacts
  <2>2. /\ fw_hash \in Seq(Byte) /\ fw_size = Len(fw_hash) /\ flash \in [Addr -> Byte]
        /\ HashedSoFar /\ file \in Files
    BY <1>1 DEF TransferInv, TransferTypeOK, ValidInv, ValidTypeOK
  <2>3. fw_size >= CHUNK
    <3>1. PICK n \in Loaded(file) : EndAt(file, n) >= CHUNK
      BY <1>1 DEF WellFormed
    <3>2. EndAt(file, n) <= fw_size
      BY <2>1 DEF HashedRecord
    <3>3. EndAt(file, n) \in Nat /\ CHUNK \in Nat
      BY <2>2, LoadedFacts, ChunkAssumption
    <3> QED BY <2>1, <3>1, <3>2, <3>3
  <2>4. Size = fw_size
    <3>1. SIZE_MOD \in Nat /\ fw_size \in 0 .. SIZE_MOD - 1
      BY <2>1, Layout, SizeAssumption, ChunkAssumption
    <3> QED BY <2>1, <3>1, SmallModulo DEF Size
  <2>5. hashed = ImageOf(flash, fw_size)
    BY <1>1, <2>2, <2>3, <2>4 DEF HashedSoFar
  <2>6. ImageOf(flash, fw_size) = fw_hash
    BY <2>1, <2>2, MirrorsImage
  <2> QED BY <2>5, <2>6
<1>2. TransferInv => HashesAgree
  BY <1>1 DEF HashesAgree
<1> QED BY <1>2, TransferInvariance, PTL

=============================================================================
