--------------------------- MODULE Device_proofs ---------------------------
(***************************************************************************)
(* The MCU and its program memory, for every layout of it: where           *)
(* message_handle() lets a message reach, whatever is sent; what           *)
(* signature_valid() reads, for every content, every chunk and every code  *)
(* size of at least a chunk; and what SHA-256 is fed and makes of it, for  *)
(* every size of block and length field: the bytes, the blocks they fill,  *)
(* the padding at their end.                                               *)
(***************************************************************************)
EXTENDS Device, SequenceTheorems, WellFoundedInduction, TLAPS

-----------------------------------------------------------------------------
(* Natural numbers.                                                        *)

\* A set of numbers that is not empty has a smallest.
LEMMA Smallest ==
  ASSUME NEW T \in SUBSET Nat, T # {}
  PROVE  \E x \in T : \A y \in T : x <= y
<1> DEFINE R == OpToRel(<, Nat)
<1>1. \E x \in T : \A y \in T : ~ (<<y, x>> \in R)
  <2>1. IsWellFoundedOn(R, Nat)
    BY NatLessThanWellFounded
  <2>2. T \subseteq Nat
    OBVIOUS
  <2> HIDE DEF R
  <2> QED BY <2>1, <2>2, WFMin, Zenon
<1>2. PICK x \in T : \A y \in T : ~ (<<y, x>> \in R)
  BY <1>1
<1>3. \A y \in T : y < x => <<y, x>> \in R
  BY DEF OpToRel
<1>4. \A y \in T : ~ (y < x)
  BY <1>2, <1>3
<1> QED BY <1>4

\* Induction, as a statement about a set.
LEMMA Induction ==
  ASSUME NEW S \in SUBSET Nat, 0 \in S, \A k \in Nat : k \in S => k + 1 \in S
  PROVE  S = Nat
<1> SUFFICES ASSUME Nat \ S # {} PROVE FALSE
  OBVIOUS
<1>1. PICK x \in Nat \ S : \A y \in Nat \ S : x <= y
  BY Smallest
<1>2. x # 0 /\ x - 1 \in Nat
  BY <1>1
<1>3. x - 1 \in S
  BY <1>1, <1>2
<1>4. (x - 1) + 1 \in S
  BY <1>2, <1>3
<1> QED BY <1>1, <1>2, <1>4

\* Quotient and remainder are determined by the range of the remainder.
LEMMA DivideUnique ==
  ASSUME NEW x \in Int, NEW n \in Nat, n > 0, NEW q \in Int,
         NEW rest \in 0 .. n - 1, x = q * n + rest
  PROVE  x \div n = q /\ x % n = rest
<1>1. /\ x \div n \in Int /\ x % n \in 0 .. n - 1
      /\ x = n * (x \div n) + (x % n)
  OBVIOUS
<1>2. (q - (x \div n)) * n = (x % n) - rest
  BY <1>1
<1>3. q - (x \div n) = 0
  BY <1>1, <1>2
<1> QED BY <1>1, <1>2, <1>3

-----------------------------------------------------------------------------
(* message_handle()                                                        *)

\* The signature lies right below the code size, which ends where the bootloader begins.
LEMMA Layout ==
  /\ CODE_SIZE_OFFSET \in Nat /\ SIGNAT_OFFSET \in Nat /\ BTLD_OFFSET \in Nat
  /\ BTLD_OFFSET <= TOP /\ TOP \in Nat
  /\ SIGNAT_OFFSET > 8
  /\ SIGNAT_OFFSET + SIGNAT_SIZE = CODE_SIZE_OFFSET
  /\ CODE_SIZE_OFFSET + CODE_SIZE_BYTES = BTLD_OFFSET
  /\ SIGNAT_SIZE \in Nat /\ CODE_SIZE_BYTES \in Nat
BY TopAssumption, LayoutAssumption DEF SIGNAT_OFFSET, CODE_SIZE_OFFSET, CODE_SIZE_BYTES

\* Programming a memory gives a memory.
LEMMA WriteType ==
  ASSUME NEW f \in [Addr -> Byte], NEW a \in Nat, NEW s \in Seq(Byte)
  PROVE  WriteBytes(f, a, s) \in [Addr -> Byte]
<1>1. ASSUME NEW x \in Addr
      PROVE  WriteBytes(f, a, s)[x] \in Byte
  BY DEF WriteBytes, Byte
<1> QED BY <1>1 DEF WriteBytes

\* Programming leaves everything alone that is not in its place.
LEMMA WriteOutside ==
  ASSUME NEW f \in [Addr -> Byte], NEW a \in Nat, NEW s \in Seq(Byte)
  PROVE  \A x \in Addr : WriteBytes(f, a, s)[x] # f[x] => x \in a .. a + Len(s) - 1
BY DEF WriteBytes, Addr

\* A number below the modulus is its own remainder.
LEMMA SmallModulo ==
  ASSUME NEW m \in Nat, NEW n \in 0 .. m - 1
  PROVE  n % m = n
OBVIOUS

\* What lies behind data[4] are bytes, as many as are asked for.
LEMMA BehindType ==
  ASSUME NEW r \in Requests, NEW n \in Nat, NEW data \in Behind(r, n)
  PROVE  data \in Seq(Byte) /\ Len(data) \in Nat /\ Len(data) >= n
<1> DEFINE lacking == IF Len(r.bytes) < n THEN n - Len(r.bytes) ELSE 0
<1>1. r.bytes \in Seq(Byte) /\ Len(r.bytes) \in Nat
  BY RequestAssumption
<1>2. lacking \in Nat /\ Len(r.bytes) + lacking >= n
  <2>1. \A k \in Nat : LET l == IF k < n THEN n - k ELSE 0 IN l \in Nat /\ k + l >= n
    OBVIOUS
  <2> QED BY <1>1, <2>1
<1>3. PICK junk \in [1 .. lacking -> JunkByte] : data = r.bytes \o junk
  BY DEF Behind
<1> HIDE DEF lacking
<1>4. junk \in Seq(Byte) /\ Len(junk) = lacking
  <2>1. junk \in [1 .. lacking -> Byte]
    BY RequestAssumption
  <2>2. ASSUME NEW S, NEW k \in Nat, NEW t \in [1 .. k -> S]
        PROVE  t \in Seq(S) /\ Len(t) = k
    OBVIOUS
  <2> QED BY <1>2, <2>1, <2>2
<1> QED BY <1>1, <1>2, <1>3, <1>4, ConcatProperties

\* A slice of some bytes, and its length.
LEMMA SliceType ==
  ASSUME NEW data \in Seq(Byte), NEW m \in Nat \ {0}, NEW n \in Nat, n <= Len(data)
  PROVE  /\ SubSeq(data, m, n) \in Seq(Byte)
         /\ Len(SubSeq(data, m, n)) = IF m <= n THEN n - m + 1 ELSE 0
OBVIOUS

\* Programming leaves bytes, whatever is programmed and where.
LEMMA WriteKeepsBytes ==
  ASSUME NEW f \in [Addr -> Byte], NEW a, NEW s
  PROVE  WriteBytes(f, a, s) \in [Addr -> Byte]
<1>1. ASSUME NEW x \in Addr
      PROVE  (IF x \in a .. a + Len(s) - 1 THEN f[x] \cap s[x - a + 1] ELSE f[x]) \in Byte
  <2> DEFINE b == s[x - a + 1]
  <2>1. f[x] \in Byte
    OBVIOUS
  <2> HIDE DEF b
  <2>2. f[x] \cap b \in Byte
    BY <2>1 DEF Byte
  <2> QED BY <2>1, <2>2 DEF b
<1> QED BY <1>1 DEF WriteBytes

\* And so if the pointer goes round.
LEMMA RoundKeepsBytes ==
  ASSUME NEW f \in [Addr -> Byte], NEW a, NEW s
  PROVE  WriteRound(f, a, s) \in [Addr -> Byte]
<1>1. ASSUME NEW x \in Addr
      PROVE  WriteRound(f, a, s)[x] \in Byte
  <2> DEFINE k == IF x < a THEN x - a + ADDR_MOD ELSE x - a
             b == s[k + 1]
  <2>1. f[x] \in Byte
    OBVIOUS
  <2>2. WriteRound(f, a, s)[x] = IF k < Len(s) THEN f[x] \cap b ELSE f[x]
    BY DEF WriteRound
  <2> HIDE DEF b, k
  <2> QED BY <2>1, <2>2 DEF Byte
<1> QED BY <1>1 DEF WriteRound

\* What is reached then: the bytes from a on, or those from 0 on.
LEMMA RoundOutside ==
  ASSUME NEW f \in [Addr -> Byte], NEW a \in Nat, NEW s \in Seq(Byte), NEW x \in Addr,
         WriteRound(f, a, s)[x] # f[x]
  PROVE  \/ x \in a .. a + Len(s) - 1
         \/ x < a /\ x \in 0 .. a + Len(s) - ADDR_MOD - 1
<1> DEFINE n == Len(s)
           k == IF x < a THEN x - a + ADDR_MOD ELSE x - a
<1>1. n \in Nat /\ x \in Nat /\ ADDR_MOD \in Nat
  BY Layout, RequestAssumption DEF Addr
<1>2. k < n
  BY DEF WriteRound
<1> HIDE DEF n
<1>3. CASE x < a
  <2>1. x - a + ADDR_MOD < n
    BY <1>2, <1>3
  <2> QED BY <1>1, <1>3, <2>1 DEF n
<1>4. CASE ~ (x < a)
  BY <1>1, <1>2, <1>4 DEF n
<1> QED BY <1>3, <1>4

\* So does every message.
LEMMA HandleKeepsBytes ==
  ASSUME flash \in [Addr -> Byte], NEW r, Handle(r)
  PROVE  flash' \in [Addr -> Byte]
<1>1. CASE HandleStart(r)
  <2>1. PICK goto, rest : flash' = WriteBytes(WriteBytes(flash, 4, goto), 8, rest)
    BY <1>1 DEF HandleStart
  <2> QED BY <2>1, WriteKeepsBytes
<1>2. CASE HandleRecord(r)
  <2>1. PICK data : flash' = WriteRound(flash, r.addr, data)
    BY <1>2 DEF HandleRecord
  <2> QED BY <2>1, RoundKeepsBytes
<1>3. CASE HandleSize(r)
  <2>1. flash' = flash \/ flash' = WriteBytes(flash, CODE_SIZE_OFFSET, r.bytes)
    BY <1>3 DEF HandleSize
  <2> QED BY <2>1, WriteKeepsBytes
<1>4. CASE HandleSignat(r)
  <2>1. flash' = flash \/ flash' = WriteBytes(flash, SIGNAT_OFFSET, r.bytes)
    BY <1>4 DEF HandleSignat
  <2> QED BY <2>1, WriteKeepsBytes
<1>5. CASE RefuseEmpty(r) \/ RefuseAddress(r) \/ HandleStop(r) \/ HandleUnknown(r)
  BY <1>5 DEF RefuseEmpty, RefuseAddress, HandleStop, HandleUnknown
<1> QED BY <1>1, <1>2, <1>3, <1>4, <1>5 DEF Handle

-----------------------------------------------------------------------------

\* What passes the check ends below the signature, or wraps.
LEMMA CheckPassed ==
  ASSUME NEW r \in Requests, r.op = "D", ~Denied(r)
  PROVE  /\ r.addr \in Nat /\ r.count \in Nat
         /\ \/ r.addr + r.count < SIGNAT_OFFSET
            \/ /\ r.addr >= TOP /\ r.addr + r.count >= ADDR_MOD
               /\ r.addr + r.count - ADDR_MOD < SIGNAT_OFFSET
<1>1. /\ ADDR_MOD \in Nat /\ ADDR_MOD > 0 /\ TOP \in Nat /\ TOP > 0
      /\ r.addr \in 0 .. ADDR_MOD - 1 /\ r.count \in Nat /\ TOP + r.count <= ADDR_MOD
  BY RequestAssumption, Layout
<1> DEFINE e == r.addr + r.count
<1>2. e \in Nat /\ e < 2 * ADDR_MOD
  BY <1>1
<1>3. e % ADDR_MOD < SIGNAT_OFFSET
  <2>1. e % ADDR_MOD \in Nat
    BY <1>1, <1>2
  <2> HIDE DEF e
  <2>2. ~ (e % ADDR_MOD >= SIGNAT_OFFSET)
    BY DEF Denied, e
  <2> QED BY <2>1, <2>2, Layout
<1>4. CASE e < ADDR_MOD
  <2>1. e \in 0 .. ADDR_MOD - 1
    BY <1>1, <1>2, <1>4
  <2>2. e % ADDR_MOD = e
    BY <1>1, <2>1, SmallModulo
  <2> QED BY <1>1, <1>3, <2>2
<1>5. CASE ~ (e < ADDR_MOD)
  <2>1. e - ADDR_MOD \in 0 .. ADDR_MOD - 1 /\ e = 1 * ADDR_MOD + (e - ADDR_MOD)
    BY <1>1, <1>2, <1>5
  <2>2. e % ADDR_MOD = e - ADDR_MOD
    <3> HIDE DEF e
    <3> QED BY <1>1, <1>2, <2>1, DivideUnique
  <2> QED BY <1>1, <1>3, <1>5, <2>2
<1> QED BY <1>4, <1>5

\* A message changes nothing outside its place.
LEMMA HandlePlace ==
  ASSUME HandleTypeOK, NEW r \in Requests, Handle(r)
  PROVE  /\ flash' \in [Addr -> Byte]
         /\ \A x \in Addr : flash'[x] # flash[x] => x \in Place(r)
         /\ request' = r
         /\ status' \in {"STATUS_NO_ERR", "STATUS_FLASHING_DONE",
                         "STATUS_ERR_INVALID_PAYLOAD", "STATUS_ERR_DENIED_ADDR"}
<1>1. flash \in [Addr -> Byte] /\ r.bytes \in Seq(Byte) /\ Len(r.bytes) \in Nat
  BY RequestAssumption DEF HandleTypeOK
<1>2. CASE HandleSize(r)
  <2>1. CASE flash' = flash
    BY <1>1, <1>2, <2>1 DEF HandleSize, Return
  <2>2. CASE /\ flash' = WriteBytes(flash, CODE_SIZE_OFFSET, r.bytes)
             /\ CODE_SIZE_OFFSET + Len(r.bytes) = BTLD_OFFSET
    <3>1. flash' \in [Addr -> Byte]
      BY <1>1, <2>2, Layout, WriteType
    <3>2. \A x \in Addr : flash'[x] # flash[x] => x \in CODE_SIZE_OFFSET .. BTLD_OFFSET - 1
      BY <1>1, <2>2, Layout, WriteOutside
    <3> QED BY <1>2, <3>1, <3>2 DEF HandleSize, Return, Place
  <2> QED BY <1>2, <2>1, <2>2, Layout DEF HandleSize
<1>3. CASE HandleSignat(r)
  <2>1. CASE flash' = flash
    BY <1>1, <1>3, <2>1 DEF HandleSignat, Return
  <2>2. CASE /\ flash' = WriteBytes(flash, SIGNAT_OFFSET, r.bytes)
             /\ SIGNAT_OFFSET + Len(r.bytes) = CODE_SIZE_OFFSET
    <3>1. flash' \in [Addr -> Byte]
      BY <1>1, <2>2, Layout, WriteType
    <3>2. \A x \in Addr : flash'[x] # flash[x] => x \in SIGNAT_OFFSET .. CODE_SIZE_OFFSET - 1
      BY <1>1, <2>2, Layout, WriteOutside
    <3> QED BY <1>3, <3>1, <3>2 DEF HandleSignat, Return, Place
  <2> QED BY <1>3, <2>1, <2>2, Layout DEF HandleSignat
<1>4. CASE RefuseEmpty(r) \/ RefuseAddress(r) \/ HandleStop(r) \/ HandleUnknown(r)
  BY <1>1, <1>4 DEF RefuseEmpty, RefuseAddress, HandleStop, HandleUnknown, Return
<1>6. CASE HandleStart(r)
  <2>c. r.count \in Nat /\ r.count < SIGNAT_OFFSET
    <3>1. r.op = "D" /\ ~Denied(r) /\ r.addr = 0
      BY <1>6 DEF HandleStart
    <3> QED BY <3>1, CheckPassed, Layout
  <2> DEFINE n == IF r.count < 4 THEN 4 ELSE r.count
  <2>1. PICK data \in Behind(r, n) :
          flash' = WriteBytes(WriteBytes(flash, 4, SubSeq(data, 1, 4)), 8,
                              SubSeq(data, 9, r.count))
    BY <1>6 DEF HandleStart
  <2>d. data \in Seq(Byte) /\ Len(data) \in Nat /\ 4 <= Len(data) /\ r.count <= Len(data)
    <3>1. n \in Nat /\ n >= 4 /\ n >= r.count
      BY <2>c
    <3> HIDE DEF n
    <3>2. Len(data) >= n /\ Len(data) \in Nat /\ data \in Seq(Byte)
      BY <3>1, BehindType
    <3> QED BY <2>c, <3>1, <3>2
  <2> DEFINE goto == SubSeq(data, 1, 4)
             rest == SubSeq(data, 9, r.count)
             f == WriteBytes(flash, 4, goto)
  <2>2. goto \in Seq(Byte) /\ Len(goto) = 4
    BY <2>d, SliceType
  <2>3. rest \in Seq(Byte) /\ 8 + Len(rest) <= SIGNAT_OFFSET
    <3>1. rest \in Seq(Byte) /\ Len(rest) = IF 9 <= r.count THEN r.count - 9 + 1 ELSE 0
      BY <2>c, <2>d, SliceType
    <3> QED BY <2>c, <3>1, Layout
  <2> HIDE DEF goto, rest
  <2>4. f \in [Addr -> Byte] /\ \A x \in Addr : f[x] # flash[x] => x \in 4 .. 7
    <3>1. 4 + Len(goto) <= 8
      BY <2>2
    <3>2. \A x \in Addr : f[x] # flash[x] => x \in 4 .. 4 + Len(goto) - 1
      BY <1>1, <2>2, WriteOutside
    <3> QED BY <1>1, <2>2, <3>1, <3>2, WriteType
  <2> HIDE DEF f
  <2>5. flash' = WriteBytes(f, 8, rest)
    BY <2>1 DEF f, goto, rest
  <2>6. flash' \in [Addr -> Byte]
    BY <2>3, <2>4, <2>5, WriteType
  <2>7. \A x \in Addr : flash'[x] # f[x] => x \in 4 .. SIGNAT_OFFSET - 1
    <3>1. \A x \in Addr : flash'[x] # f[x] => x \in 8 .. 8 + Len(rest) - 1
      BY <2>3, <2>4, <2>5, WriteOutside
    <3>2. Len(rest) \in Nat /\ 8 + Len(rest) <= SIGNAT_OFFSET /\ SIGNAT_OFFSET \in Nat
      BY <2>3, Layout
    <3> QED BY <3>1, <3>2
  <2>8. \A x \in Addr : flash'[x] # flash[x] => x \in 4 .. SIGNAT_OFFSET - 1
    BY <2>4, <2>7, Layout
  <2> QED BY <1>6, <2>6, <2>8 DEF HandleStart, Return, Place
<1>7. CASE HandleRecord(r)
  <2>1. /\ r.op = "D" /\ r.addr # 0 /\ r.addr \in Nat /\ r.count \in Nat
        /\ \/ r.addr + r.count < SIGNAT_OFFSET
           \/ /\ r.addr >= TOP /\ r.addr + r.count >= ADDR_MOD
              /\ r.addr + r.count - ADDR_MOD < SIGNAT_OFFSET
    <3>1. r.op = "D" /\ ~Denied(r) /\ r.addr # 0
      BY <1>7 DEF HandleRecord
    <3> QED BY <3>1, CheckPassed
  <2>2. PICK data \in Behind(r, r.count) :
          flash' = WriteRound(flash, r.addr, SubSeq(data, 1, r.count))
    BY <1>7 DEF HandleRecord
  <2> DEFINE written == SubSeq(data, 1, r.count)
  <2>3. written \in Seq(Byte) /\ Len(written) = r.count
    <3>1. data \in Seq(Byte) /\ r.count <= Len(data)
      BY <2>1, BehindType
    <3>2. written \in Seq(Byte) /\ Len(written) = IF 1 <= r.count THEN r.count - 1 + 1 ELSE 0
      BY <2>1, <3>1, SliceType
    <3> QED BY <2>1, <3>2
  <2>4. flash' = WriteRound(flash, r.addr, written)
    BY <2>2
  <2> HIDE DEF written
  <2>5. flash' \in [Addr -> Byte]
    BY <1>1, <2>4, RoundKeepsBytes
  <2>6. ASSUME NEW x \in Addr, flash'[x] # flash[x]
        PROVE  x \in Place(r)
    <3>1. \/ x \in r.addr .. r.addr + r.count - 1
          \/ x < r.addr /\ x \in 0 .. r.addr + r.count - ADDR_MOD - 1
      BY <1>1, <2>1, <2>3, <2>4, <2>6, RoundOutside
    <3>2. x \in Nat /\ x < TOP /\ ADDR_MOD \in Nat /\ ADDR_MOD >= TOP
      BY Layout, RequestAssumption DEF Addr
    <3>3. CASE r.addr + r.count < SIGNAT_OFFSET
      <4>1. x >= r.addr /\ x < SIGNAT_OFFSET
        BY <2>1, <3>1, <3>2, <3>3, Layout
      <4>2. \/ x \in 4 .. SIGNAT_OFFSET - 1
            \/ r.addr \in 1 .. 3 /\ x \in r.addr .. 3
        BY <2>1, <3>2, <4>1, Layout
      <4> QED BY <2>1, <4>2 DEF Place
    <3>4. CASE r.addr >= TOP
      <4>1. x \in 0 .. r.addr + r.count - ADDR_MOD - 1
        <5>1. ~ (x \in r.addr .. r.addr + r.count - 1)
          BY <2>1, <3>2, <3>4, Layout
        <5> QED BY <3>1, <5>1
      <4>2. x \in 0 .. SIGNAT_OFFSET - 1 /\ x < r.addr + r.count - ADDR_MOD
        BY <2>1, <3>2, <3>4, <4>1, Layout
      <4> QED BY <2>1, <4>1, <4>2 DEF Place
    <3> QED BY <2>1, <3>3, <3>4
  <2> QED BY <1>7, <2>5, <2>6 DEF HandleRecord, Return
<1> QED BY <1>2, <1>3, <1>4, <1>6, <1>7 DEF Handle

-----------------------------------------------------------------------------

\* The erased memory with the vector is a memory with the vector.
LEMMA BlankType == Blank \in [Addr -> Byte] /\ \A x \in 0 .. 3 : Blank[x] = Vector[x + 1]
<1>1. \A x \in 0 .. 3 : x \in Addr /\ Vector[x + 1] \in Byte
  <2>1. \A k \in 1 .. 4 : Vector[k] \in Byte
    BY SMTT(30), VectorAssumption
  <2> QED BY <2>1, Layout DEF Addr
<1>2. ASSUME NEW x \in Addr
      PROVE  (IF x < 4 THEN Vector[x + 1] ELSE ERASED) \in Byte
  <2>1. x \in Nat
    BY Layout DEF Addr
  <2>2. ERASED \in Byte
    BY DEF ERASED, Byte
  <2> QED BY <1>1, <2>1, <2>2
<1> QED BY <1>1, <1>2 DEF Blank

\* What erase_flash() leaves is a memory.
LEMMA SessionKeepsBytes ==
  ASSUME flash \in [Addr -> Byte]
  PROVE  [x \in Addr |-> IF x < 4 THEN flash[x] ELSE ERASED] \in [Addr -> Byte]
<1>1. ERASED \in Byte
  BY DEF ERASED, Byte
<1> QED BY <1>1

\* Each step keeps the types.
LEMMA HandleStep ==
  ASSUME None \notin Requests, HandleTypeOK, [HandleNext]_handleVars
  PROVE  HandleTypeOK'
<1>1. CASE HandleRequest
  <2>1. PICK r \in Requests : Handle(r)
    BY <1>1 DEF HandleRequest
  <2>2. /\ flash' \in [Addr -> Byte]
        /\ request' = r
        /\ status' \in {"STATUS_NO_ERR", "STATUS_FLASHING_DONE",
                        "STATUS_ERR_INVALID_PAYLOAD", "STATUS_ERR_DENIED_ADDR"}
    BY <2>1, HandlePlace
  <2> QED BY <2>2 DEF HandleTypeOK
<1>2. CASE NewSession
  <2>1. flash' \in [Addr -> Byte] /\ \A x \in Addr : x >= 4 => flash'[x] = ERASED
    BY <1>2, SessionKeepsBytes, Layout DEF NewSession, HandleTypeOK, Addr
  <2> QED BY <1>2, <2>1 DEF NewSession, HandleTypeOK
<1>3. CASE UNCHANGED handleVars
  BY <1>3 DEF handleVars, HandleTypeOK
<1> QED BY <1>1, <1>2, <1>3 DEF HandleNext

(***************************************************************************)
(* The types, and that every session begins with a memory that is blank    *)
(* behind the vector (main.c:63-129, 293-299).                             *)
(***************************************************************************)
THEOREM HandleTypeCorrect ==
  ASSUME None \notin Requests
  PROVE  HandleSpec => []HandleTypeOK
<1>1. HandleInit => HandleTypeOK
  <2> SUFFICES ASSUME HandleInit
               PROVE  HandleTypeOK
    OBVIOUS
  <2>1. flash \in [Addr -> Byte] /\ \A x \in Addr : x >= 4 => flash[x] = ERASED
    BY BlankType, Layout DEF HandleInit, Blank, Addr
  <2> QED BY <2>1 DEF HandleInit, HandleTypeOK
<1>2. HandleTypeOK /\ [HandleNext]_handleVars => HandleTypeOK'
  BY HandleStep
<1> QED BY <1>1, <1>2, PTL DEF HandleSpec

(***************************************************************************)
(* Every message changes only the part of the memory it is meant for, but  *)
(* for a record that begins inside the vector or wraps round at the last   *)
(* address (main.c:71, 91, 102).                                           *)
(***************************************************************************)
THEOREM PlaceTheorem ==
  ASSUME None \notin Requests
  PROVE  HandleSpec => EachToItsPlace
<1>1. ASSUME HandleTypeOK, [HandleNext]_handleVars
      PROVE  [status = "STATUS_NO_ERR" =>
                \A x \in Addr : flash'[x] # flash[x] => x \in Place(request')]_handleVars
  <2>1. ASSUME HandleNext, status = "STATUS_NO_ERR"
        PROVE  \A x \in Addr : flash'[x] # flash[x] => x \in Place(request')
    <3>1. PICK r \in Requests : Handle(r)
      BY <2>1 DEF HandleNext, HandleRequest, NewSession
    <3>2. request' = r /\ \A x \in Addr : flash'[x] # flash[x] => x \in Place(r)
      BY <1>1, <3>1, HandlePlace
    <3> QED BY <3>2
  <2> QED BY <1>1, <2>1 DEF handleVars
<1> QED BY <1>1, HandleTypeCorrect, PTL DEF HandleSpec, EachToItsPlace

-----------------------------------------------------------------------------
(* signature_valid(): siz and addr add up to the size, and what has been   *)
(* hashed is the image below addr.                                         *)

Size == StoredSize(flash) % SIZE_MOD

HashedSoFar ==
  Size >= CHUNK =>
    /\ step = "first" => siz = Size
    /\ step = "loop" => /\ siz + addr = Size
                       /\ addr >= CHUNK
                       /\ hashed = ImageOf(flash, addr)
    /\ step = "verify" => hashed = ImageOf(flash, Size)

ValidInv == ValidTypeOK /\ HashedSoFar

-----------------------------------------------------------------------------

\* The code size in any memory is a number.
LEMMA StoredSizeType ==
  ASSUME flash \in [Addr -> Byte]
  PROVE  StoredSize(flash) \in Nat
<1>1. ASSUME NEW a \in Nat, NEW k \in 1 .. 3
      PROVE  NumOf(ReadBytes(flash, a, 3)[k]) \in Nat
  <2>1. ReadBytes(flash, a, 3)[k] \in Byte
    BY DEF ReadBytes, Byte
  <2> QED BY <2>1, ByteAssumption
<1>2. CODE_SIZE_OFFSET \in Nat
  BY LayoutAssumption, TopAssumption DEF SIGNAT_OFFSET, CODE_SIZE_OFFSET, CODE_SIZE_BYTES
<1>3. \A x, y, z \in Nat : x * RADIX * RADIX + y * RADIX + z \in Nat
  BY ByteAssumption
<1> DEFINE d == ReadBytes(flash, CODE_SIZE_OFFSET, 3)
<1>4. NumOf(d[1]) \in Nat /\ NumOf(d[2]) \in Nat /\ NumOf(d[3]) \in Nat
  BY <1>1, <1>2
<1>5. StoredSize(flash) = NumOf(d[1]) * RADIX * RADIX + NumOf(d[2]) * RADIX + NumOf(d[3])
  BY DEF StoredSize, SizeFrom, CODE_SIZE_BYTES
<1> HIDE DEF d
<1> QED
  BY <1>3, <1>4, <1>5

\* The code size that signature_valid() starts with has 24 bits.
LEMMA SizeType ==
  ASSUME flash \in [Addr -> Byte]
  PROVE  Size \in 0 .. SIZE_MOD - 1
BY StoredSizeType, ChunkAssumption DEF Size

\* Reading n bytes gives n bytes.
LEMMA ReadType ==
  ASSUME flash \in [Addr -> Byte], NEW a \in Nat, NEW n \in Nat
  PROVE  /\ ReadBytes(flash, a, n) \in Seq(Byte)
         /\ Len(ReadBytes(flash, a, n)) = n
BY DEF ReadBytes, Byte

\* The first chunk, relocated, is the image up to there.
LEMMA FirstChunk ==
  ASSUME flash \in [Addr -> Byte]
  PROVE  /\ Relocated(ReadBytes(flash, 0, CHUNK)) = ImageOf(flash, CHUNK)
         /\ Relocated(ReadBytes(flash, 0, CHUNK)) \in Seq(Byte)
<1> USE ChunkAssumption
<1>1. \A k \in 1 .. CHUNK :
        ReadBytes(flash, 0, CHUNK)[k] = IF k - 1 \in DOMAIN flash THEN flash[k - 1] ELSE {}
  BY DEF ReadBytes
<1>2. DOMAIN flash = Addr /\ \A a \in 0 .. 7 : a \in Addr
  BY LayoutAssumption, TopAssumption DEF Addr, SIGNAT_OFFSET, CODE_SIZE_OFFSET, CODE_SIZE_BYTES
<1>3. ASSUME NEW k \in 1 .. CHUNK
      PROVE  Relocated(ReadBytes(flash, 0, CHUNK))[k] = ImageByte(flash, k - 1)
  BY <1>1, <1>2 DEF Relocated, ImageByte
<1>4. Relocated(ReadBytes(flash, 0, CHUNK)) = ImageOf(flash, CHUNK)
  BY <1>3 DEF Relocated, ImageOf
<1>5. \A k \in 1 .. CHUNK : ImageByte(flash, k - 1) \in Byte
  BY <1>2 DEF ImageByte, Byte, ERASED
<1> QED BY <1>4, <1>5 DEF ImageOf

\* Any other chunk goes on where the image so far ends.
LEMMA NextChunk ==
  ASSUME flash \in [Addr -> Byte], NEW a \in Nat, a >= 8, NEW n \in Nat
  PROVE  ImageOf(flash, a) \o ReadBytes(flash, a, n) = ImageOf(flash, a + n)
<1> DEFINE s == ImageOf(flash, a)
           t == ReadBytes(flash, a, n)
           u == ImageOf(flash, a + n)
<1>1. \A k \in Nat \ {0} : ImageByte(flash, k - 1) \in Byte
  BY LayoutAssumption, TopAssumption DEF ImageByte, Byte, ERASED, Addr, SIGNAT_OFFSET,
     CODE_SIZE_OFFSET, CODE_SIZE_BYTES
<1>2. s \in Seq(Byte) /\ Len(s) = a /\ t \in Seq(Byte) /\ Len(t) = n
      /\ u \in Seq(Byte) /\ Len(u) = a + n
  BY <1>1, ReadType DEF ImageOf
<1>3. \A k \in 1 .. a : s[k] = u[k]
  BY DEF ImageOf
<1>4. \A k \in 1 .. n : t[k] = u[a + k]
  BY DEF ImageOf, ReadBytes, ImageByte
<1> HIDE DEF s, t, u
<1>5. /\ s \o t \in Seq(Byte)
      /\ Len(s \o t) = a + n
      /\ \A k \in 1 .. a + n : (s \o t)[k] = IF k <= a THEN s[k] ELSE t[k - a]
  BY <1>2, ConcatProperties
<1>6. \A k \in 1 .. a + n : (s \o t)[k] = u[k]
  <2>1. \A k \in 1 .. a + n : k <= a => k \in 1 .. a
    OBVIOUS
  <2>2. \A k \in 1 .. a + n : ~(k <= a) => k - a \in 1 .. n /\ a + (k - a) = k
    OBVIOUS
  <2>3. ASSUME NEW k \in 1 .. a + n, k <= a
        PROVE  (s \o t)[k] = u[k]
    BY <1>3, <1>5, <2>1, <2>3
  <2>4. ASSUME NEW k \in 1 .. a + n, ~(k <= a)
        PROVE  (s \o t)[k] = u[k]
    <3>1. (s \o t)[k] = t[k - a]
      BY <1>5, <2>4
    <3>2. t[k - a] = u[a + (k - a)]
      BY <1>4, <2>2, <2>4
    <3> QED BY <2>2, <2>4, <3>1, <3>2
  <2> QED BY <2>3, <2>4
<1>7. s \o t = u
  <2> DEFINE v == s \o t
  <2>1. v \in Seq(Byte) /\ u \in Seq(Byte) /\ Len(v) = Len(u)
        /\ \A k \in 1 .. Len(v) : v[k] = u[k]
    BY <1>2, <1>5, <1>6
  <2> HIDE DEF v
  <2>2. v = u
    BY <2>1, SeqEqual
  <2> QED BY <2>2 DEF v
<1> QED BY <1>7 DEF s, t, u

-----------------------------------------------------------------------------

\* Each step of signature_valid() keeps ValidInv.
LEMMA ValidStep ==
  ASSUME ValidInv, [VerifyNext]_validVars
  PROVE  ValidInv'
<1> USE ChunkAssumption DEF ValidInv, ValidTypeOK, HashedSoFar
<1>1. flash' = flash
  BY DEF VerifyNext, ReadSize, HashFirst, HashChunk, HashRest, validVars
<1>2. Size' = Size /\ Size \in 0 .. SIZE_MOD - 1
  BY <1>1, SizeType DEF Size
<1> HIDE DEF ValidInv, ValidTypeOK, HashedSoFar
<1>3. CASE ReadSize
  BY <1>1, <1>2, <1>3 DEF ReadSize, Size, ValidInv, ValidTypeOK, HashedSoFar
<1>4. CASE HashFirst
  <2>1. siz \in Int /\ (siz - CHUNK) % SIZE_MOD \in 0 .. SIZE_MOD - 1
    BY DEF ValidInv, ValidTypeOK
  <2>2. siz \in CHUNK .. SIZE_MOD - 1 => (siz - CHUNK) % SIZE_MOD = siz - CHUNK
    OBVIOUS
  <2>3. ValidTypeOK'
    BY <1>1, <1>4, <2>1, FirstChunk DEF HashFirst, ValidInv, ValidTypeOK
  <2>4. HashedSoFar'
    BY <1>1, <1>2, <1>4, <2>2, FirstChunk
    DEF HashFirst, ValidInv, ValidTypeOK, HashedSoFar
  <2> QED BY <2>3, <2>4 DEF ValidInv
<1>5. CASE HashChunk
  <2>1. ValidTypeOK'
    BY <1>1, <1>5, ReadType DEF HashChunk, ValidInv, ValidTypeOK
  <2>2. ASSUME Size >= CHUNK
        PROVE  /\ siz' + addr' = Size /\ addr' >= CHUNK
               /\ hashed' = ImageOf(flash, addr') /\ step' = "loop"
    <3>1. /\ flash \in [Addr -> Byte] /\ addr \in Nat /\ siz \in Nat
          /\ siz + addr = Size /\ addr >= CHUNK /\ hashed = ImageOf(flash, addr)
      BY <1>5, <2>2 DEF HashChunk, ValidInv, ValidTypeOK, HashedSoFar
    <3>2. ImageOf(flash, addr) \o ReadBytes(flash, addr, CHUNK)
            = ImageOf(flash, addr + CHUNK)
      <4>1. addr >= 8 /\ CHUNK \in Nat
        BY <3>1
      <4> QED BY <3>1, <4>1, NextChunk
    <3>3. siz' + addr' = siz + addr /\ addr' >= CHUNK
      BY <1>5, <3>1 DEF HashChunk
    <3> QED BY <1>5, <3>1, <3>2, <3>3 DEF HashChunk
  <2>3. HashedSoFar'
    <3>1. (ImageOf(flash, addr))' = ImageOf(flash, addr')
      BY <1>1 DEF ImageOf, ImageByte
    <3> QED BY <1>2, <2>2, <3>1 DEF HashedSoFar
  <2> QED BY <2>1, <2>3 DEF ValidInv
<1>6. CASE HashRest
  <2>1. ValidTypeOK'
    BY <1>1, <1>6, ReadType DEF HashRest, ValidInv, ValidTypeOK
  <2>2. ASSUME Size >= CHUNK
        PROVE  hashed' = ImageOf(flash, Size) /\ step' = "verify"
    <3>1. /\ flash \in [Addr -> Byte] /\ addr \in Nat /\ siz \in Nat
          /\ siz + addr = Size /\ addr >= CHUNK /\ hashed = ImageOf(flash, addr)
      BY <1>6, <2>2 DEF HashRest, ValidInv, ValidTypeOK, HashedSoFar
    <3>2. ImageOf(flash, addr) \o ReadBytes(flash, addr, siz) = ImageOf(flash, addr + siz)
      <4>1. addr >= 8
        BY <3>1
      <4> QED BY <3>1, <4>1, NextChunk
    <3>3. addr + siz = Size /\ (siz = 0 => addr = Size)
      BY <3>1
    <3> QED BY <1>6, <3>1, <3>2, <3>3 DEF HashRest
  <2>3. HashedSoFar'
    <3>1. (ImageOf(flash, Size))' = ImageOf(flash, Size)
      BY <1>1, <1>2 DEF ImageOf, ImageByte
    <3> QED BY <1>2, <2>2, <3>1 DEF HashedSoFar
  <2> QED BY <2>1, <2>3 DEF ValidInv
<1>7. CASE UNCHANGED validVars
  BY <1>2, <1>7 DEF validVars, verifyVars, ValidInv, ValidTypeOK, HashedSoFar
<1> QED BY <1>3, <1>4, <1>5, <1>6, <1>7 DEF VerifyNext

\* ValidInv is an invariant.
LEMMA ValidInvariance == ValidSpec => []ValidInv
<1>1. ValidInit => ValidInv
  BY ChunkAssumption DEF ValidInit, VerifyInit, ValidInv, ValidTypeOK, HashedSoFar
<1> QED BY <1>1, ValidStep, PTL DEF ValidSpec

(***************************************************************************)
(* The remaining size never leaves uint24_t, also when it wraps            *)
(* (main.c:209).                                                           *)
(***************************************************************************)
THEOREM ValidTypeCorrect == ValidSpec => []ValidTypeOK
BY ValidInvariance, PTL DEF ValidInv

(***************************************************************************)
(* The user code, all of it and nothing else is hashed, for every code     *)
(* size of at least a chunk (main.c:208-239).                              *)
(***************************************************************************)
THEOREM HashTheorem == ValidSpec => []HashesTheImage
<1>1. ValidInv => HashesTheImage
  BY DEF ValidInv, HashedSoFar, HashesTheImage, Size
<1> QED BY <1>1, ValidInvariance, PTL

-----------------------------------------------------------------------------
(* Blocks of bytes, counted.                                               *)

\* The sizes of a block are numbers, and the length leaves room in it.
LEMMA BlockFacts ==
  /\ BLOCK \in Nat /\ BLOCK > 0 /\ LENGTH_BYTES \in Nat /\ LENGTH_BYTES < BLOCK
  /\ BYTE_BITS \in Nat
BY BlockAssumption

\* How many blocks are full, and how much of the next one.
LEMMA Divide ==
  ASSUME NEW n \in Nat
  PROVE  /\ n \div BLOCK \in Nat /\ n % BLOCK \in 0 .. BLOCK - 1
         /\ n = (n \div BLOCK) * BLOCK + (n % BLOCK)
         /\ (n \div BLOCK) * BLOCK \in Nat /\ (n \div BLOCK) * BLOCK <= n
BY BlockFacts

\* One byte more.
LEMMA DivideNext ==
  ASSUME NEW n \in Nat
  PROVE  /\ (n % BLOCK) + 1 < BLOCK =>
              (n + 1) \div BLOCK = n \div BLOCK /\ (n + 1) % BLOCK = (n % BLOCK) + 1
         /\ (n % BLOCK) + 1 = BLOCK =>
              (n + 1) \div BLOCK = (n \div BLOCK) + 1 /\ (n + 1) % BLOCK = 0
<1> DEFINE q == n \div BLOCK
           r == n % BLOCK
<1>1. q \in Nat /\ r \in 0 .. BLOCK - 1 /\ n = q * BLOCK + r /\ BLOCK \in Nat /\ BLOCK > 0
  BY Divide, BlockFacts
<1> HIDE DEF q, r
<1>2. ASSUME r + 1 < BLOCK
      PROVE  (n + 1) \div BLOCK = q /\ (n + 1) % BLOCK = r + 1
  <2>1. n + 1 = q * BLOCK + (r + 1) /\ r + 1 \in 0 .. BLOCK - 1 /\ n + 1 \in Int
    BY <1>1, <1>2
  <2> QED BY <1>1, <2>1, DivideUnique
<1>3. ASSUME r + 1 = BLOCK
      PROVE  (n + 1) \div BLOCK = q + 1 /\ (n + 1) % BLOCK = 0
  <2>1. (q + 1) * BLOCK = q * BLOCK + BLOCK
    BY <1>1
  <2>2. n + 1 = (q + 1) * BLOCK + 0 /\ 0 \in 0 .. BLOCK - 1 /\ n + 1 \in Int /\ q + 1 \in Int
    BY <1>1, <1>3, <2>1
  <2> QED BY <1>1, <2>2, DivideUnique
<1> QED BY <1>2, <1>3 DEF q, r

\* A block that is full ends where the full blocks end, or before.
LEMMA BlockEnds ==
  ASSUME NEW n \in Nat, NEW j \in 1 .. n \div BLOCK
  PROVE  /\ (j - 1) * BLOCK \in Nat /\ j * BLOCK \in Nat
         /\ j * BLOCK = (j - 1) * BLOCK + BLOCK
         /\ j * BLOCK <= (n \div BLOCK) * BLOCK
<1> DEFINE q == n \div BLOCK
<1>1. q \in Nat /\ BLOCK \in Nat /\ BLOCK > 0
  BY Divide, BlockFacts
<1> HIDE DEF q
<1>2. j \in 1 .. q /\ j \in Nat /\ j - 1 \in Nat /\ q - j \in Nat
  BY <1>1 DEF q
<1>3. /\ (j - 1) * BLOCK \in Nat /\ j * BLOCK \in Nat /\ (q - j) * BLOCK \in Nat
      /\ j * BLOCK = (j - 1) * BLOCK + BLOCK /\ q * BLOCK = j * BLOCK + (q - j) * BLOCK
      /\ q * BLOCK \in Nat
  BY <1>1, <1>2
<1> QED BY <1>3 DEF q

-----------------------------------------------------------------------------
(* The blocks of a message.                                                *)

\* A block of a message, byte by byte.
LEMMA BlockSlice ==
  ASSUME NEW V, NEW s \in Seq(V), NEW j \in 1 .. Len(s) \div BLOCK
  PROVE  SubSeq(s, (j - 1) * BLOCK + 1, j * BLOCK)
           = [k \in 1 .. BLOCK |-> s[(j - 1) * BLOCK + k]]
<1> DEFINE low == (j - 1) * BLOCK
           high == j * BLOCK
           slice == SubSeq(s, low + 1, high)
<1>0. Len(s) \in Nat /\ (Len(s) \div BLOCK) * BLOCK <= Len(s)
      /\ (Len(s) \div BLOCK) * BLOCK \in Nat /\ BLOCK \in Nat /\ BLOCK > 0
  BY Divide, BlockFacts
<1>1. low \in Nat /\ high \in Nat /\ high = low + BLOCK /\ high <= Len(s)
  BY <1>0, BlockEnds
<1> HIDE DEF low, high
<1>2. \A k \in low + 1 .. high : s[k] \in V
  BY <1>0, <1>1, ElementOfSeq
<1>3. /\ slice \in Seq(V) /\ Len(slice) = BLOCK
      /\ \A k \in 1 .. BLOCK : slice[k] = s[low + k]
  <2>1. /\ slice \in Seq(V)
        /\ Len(slice) = IF low + 1 <= high THEN high - (low + 1) + 1 ELSE 0
        /\ \A k \in 1 .. high - (low + 1) + 1 : slice[k] = s[low + 1 + k - 1]
    BY <1>1, <1>2, SubSeqProperties
  <2>2. Len(slice) = BLOCK
    BY <1>0, <1>1, <2>1
  <2>3. /\ high - (low + 1) + 1 = BLOCK
        /\ \A k \in 1 .. BLOCK : low + 1 + k - 1 = low + k
    BY <1>0, <1>1
  <2>4. \A k \in 1 .. BLOCK : slice[k] = s[low + k]
    <3> HIDE DEF slice
    <3> QED BY <2>1, <2>3
  <2> QED BY <2>1, <2>2, <2>4
<1> HIDE DEF slice
<1>4. slice = [k \in 1 .. BLOCK |-> slice[k]]
  BY <1>3, LenProperties
<1>5. slice = [k \in 1 .. BLOCK |-> s[low + k]]
  BY <1>3, <1>4
<1> QED BY <1>5 DEF low, high, slice

\* The blocks of a message are as many as are full, each as it lies in it.
LEMMA BlocksType ==
  ASSUME NEW V, NEW s \in Seq(V)
  PROVE  /\ BlocksOf(s) \in Seq(Seq(V)) /\ Len(BlocksOf(s)) = Len(s) \div BLOCK
         /\ \A j \in 1 .. Len(s) \div BLOCK :
              BlocksOf(s)[j] = [k \in 1 .. BLOCK |-> s[(j - 1) * BLOCK + k]]
<1> DEFINE q == Len(s) \div BLOCK
           Slice(j) == SubSeq(s, (j - 1) * BLOCK + 1, j * BLOCK)
<1>0. Len(s) \in Nat /\ q \in Nat /\ q * BLOCK \in Nat /\ q * BLOCK <= Len(s)
  BY Divide
<1>1. ASSUME NEW j \in 1 .. q
      PROVE  Slice(j) \in Seq(V)
  <2> DEFINE low == (j - 1) * BLOCK
             high == j * BLOCK
  <2>1. low \in Nat /\ high \in Nat /\ high <= Len(s)
    BY <1>0, BlockEnds
  <2> HIDE DEF low, high
  <2>2. \A k \in low + 1 .. high : s[k] \in V
    BY <1>0, <2>1, ElementOfSeq
  <2>3. SubSeq(s, low + 1, high) \in Seq(V)
    BY <2>1, <2>2, SubSeqProperties
  <2> QED BY <2>3 DEF low, high
<1>2. BlocksOf(s) = [j \in 1 .. q |-> Slice(j)]
  BY DEF BlocksOf
<1>3. \A j \in 1 .. q : Slice(j) = [k \in 1 .. BLOCK |-> s[(j - 1) * BLOCK + k]]
  BY BlockSlice
<1> HIDE DEF q, Slice
<1>4. BlocksOf(s) \in Seq(Seq(V)) /\ Len(BlocksOf(s)) = q
  BY <1>0, <1>1, <1>2
<1>5. \A j \in 1 .. q : BlocksOf(s)[j] = [k \in 1 .. BLOCK |-> s[(j - 1) * BLOCK + k]]
  BY <1>2, <1>3
<1> QED BY <1>4, <1>5 DEF q

\* The full blocks of a message are blocks of every longer one.
LEMMA BlocksPrefix ==
  ASSUME NEW V, NEW s \in Seq(V), NEW t \in Seq(V), Len(s) <= Len(t),
         \A k \in 1 .. Len(s) : t[k] = s[k],
         Len(s) \div BLOCK <= Len(t) \div BLOCK,
         NEW j \in 1 .. Len(s) \div BLOCK
  PROVE  BlocksOf(t)[j] = BlocksOf(s)[j]
<1> DEFINE low == (j - 1) * BLOCK
<1>0. Len(s) \in Nat /\ Len(t) \in Nat /\ Len(t) \div BLOCK \in Nat
      /\ Len(s) \div BLOCK \in Nat /\ BLOCK \in Nat
  BY Divide, BlockFacts
<1>1. j \in 1 .. Len(t) \div BLOCK
  BY <1>0
<1>2. /\ BlocksOf(s)[j] = [k \in 1 .. BLOCK |-> s[low + k]]
      /\ BlocksOf(t)[j] = [k \in 1 .. BLOCK |-> t[low + k]]
  BY <1>1, BlocksType
<1>3. low \in Nat /\ low + BLOCK <= Len(s)
  <2>1. /\ low \in Nat /\ j * BLOCK = low + BLOCK /\ j * BLOCK <= (Len(s) \div BLOCK) * BLOCK
        /\ j * BLOCK \in Nat
    BY <1>0, BlockEnds
  <2>2. (Len(s) \div BLOCK) * BLOCK <= Len(s) /\ (Len(s) \div BLOCK) * BLOCK \in Nat
    BY <1>0, Divide
  <2> HIDE DEF low
  <2> QED BY <1>0, <2>1, <2>2
<1> HIDE DEF low
<1>4. \A k \in 1 .. BLOCK : t[low + k] = s[low + k]
  BY <1>0, <1>3
<1> QED BY <1>2, <1>4

\* A longer message with no more full blocks has the same blocks.
LEMMA BlocksSame ==
  ASSUME NEW V, NEW s \in Seq(V), NEW t \in Seq(V), Len(s) <= Len(t),
         \A k \in 1 .. Len(s) : t[k] = s[k],
         Len(s) \div BLOCK = Len(t) \div BLOCK
  PROVE  BlocksOf(t) = BlocksOf(s)
<1>0. Len(s) \div BLOCK \in Nat
  BY Divide
<1>1. /\ BlocksOf(s) \in Seq(Seq(V)) /\ Len(BlocksOf(s)) = Len(s) \div BLOCK
      /\ BlocksOf(t) \in Seq(Seq(V)) /\ Len(BlocksOf(t)) = Len(s) \div BLOCK
  BY BlocksType
<1>2. \A j \in 1 .. Len(s) \div BLOCK : BlocksOf(t)[j] = BlocksOf(s)[j]
  BY <1>0, BlocksPrefix
<1> QED BY <1>1, <1>2, SeqEqual

\* One block more.
LEMMA BlocksMore ==
  ASSUME NEW V, NEW s \in Seq(V), NEW t \in Seq(V), Len(s) <= Len(t),
         \A k \in 1 .. Len(s) : t[k] = s[k],
         Len(t) \div BLOCK = (Len(s) \div BLOCK) + 1,
         NEW d \in [1 .. BLOCK -> V],
         \A k \in 1 .. BLOCK : t[(Len(s) \div BLOCK) * BLOCK + k] = d[k]
  PROVE  BlocksOf(t) = Append(BlocksOf(s), d)
<1> DEFINE q == Len(s) \div BLOCK
           b == BlocksOf(s)
           e == BlocksOf(t)
<1>0. q \in Nat /\ BLOCK \in Nat /\ q <= q + 1
  BY Divide, BlockFacts
<1>1. /\ b \in Seq(Seq(V)) /\ Len(b) = q /\ e \in Seq(Seq(V)) /\ Len(e) = q + 1
      /\ \A j \in 1 .. q + 1 : e[j] = [k \in 1 .. BLOCK |-> t[(j - 1) * BLOCK + k]]
  BY BlocksType
<1>2. \A j \in 1 .. q : e[j] = b[j]
  BY <1>0, BlocksPrefix
<1>3. e[q + 1] = d
  <2>1. q + 1 \in 1 .. q + 1 /\ (q + 1) - 1 = q
    BY <1>0
  <2>2. e[q + 1] = [k \in 1 .. BLOCK |-> t[q * BLOCK + k]]
    BY <1>1, <2>1
  <2>3. d = [k \in 1 .. BLOCK |-> d[k]]
    OBVIOUS
  <2> QED BY <2>2, <2>3
<1>4. d \in Seq(V)
  BY <1>0
<1> HIDE DEF q, b, e
<1>5. /\ Append(b, d) \in Seq(Seq(V)) /\ Len(Append(b, d)) = q + 1
      /\ \A j \in 1 .. q : Append(b, d)[j] = b[j]
      /\ Append(b, d)[q + 1] = d
  BY <1>1, <1>4, AppendProperties
<1>6. \A j \in 1 .. q + 1 : e[j] = Append(b, d)[j]
  <2>1. \A j \in 1 .. q + 1 : j \in 1 .. q \/ j = q + 1
    BY <1>0
  <2> QED BY <1>2, <1>3, <1>5, <2>1
<1>7. e = Append(b, d)
  BY <1>1, <1>5, <1>6, SeqEqual
<1> QED BY <1>7 DEF b, e

\* s goes on in t, with d in its next block.
Prefix(s, t) == Len(s) <= Len(t) /\ \A k \in 1 .. Len(s) : t[k] = s[k]

BlockAt(t, start, d) == \A k \in 1 .. BLOCK : t[start + k] = d[k]

\* One block more, said with Prefix and BlockAt.
LEMMA BlockAppended ==
  ASSUME NEW V, NEW s \in Seq(V), NEW t \in Seq(V), Prefix(s, t),
         Len(t) \div BLOCK = (Len(s) \div BLOCK) + 1,
         NEW d \in [1 .. BLOCK -> V], BlockAt(t, (Len(s) \div BLOCK) * BLOCK, d)
  PROVE  BlocksOf(t) = Append(BlocksOf(s), d)
BY BlocksMore DEF Prefix, BlockAt

-----------------------------------------------------------------------------
(* The fields of the context.                                              *)

Fielded(d, l, b, t) == [data |-> d, datalen |-> l, bitlen |-> b, transformed |-> t]

\* A context has the fields it was put together from.
LEMMA Fields ==
  ASSUME NEW d, NEW l, NEW b, NEW t, NEW c, c = Fielded(d, l, b, t)
  PROVE  c.data = d /\ c.datalen = l /\ c.bitlen = b /\ c.transformed = t
BY DEF Fielded

\* An update of data changes nothing else ...
LEMMA SetData ==
  ASSUME NEW d, NEW l, NEW b, NEW t, NEW v, NEW c, c = Fielded(d, l, b, t)
  PROVE  [c EXCEPT !.data = v] = Fielded(v, l, b, t)
<1> DEFINE S == {d, l, b, t, v}
<1>1. c \in [data : S, datalen : S, bitlen : S, transformed : S]
  BY DEF Fielded
<1>2. [c EXCEPT !.data = v] = Fielded(v, c.datalen, c.bitlen, c.transformed)
  BY <1>1 DEF Fielded
<1> QED BY <1>2, Fields

\* ... nor does one of datalen ...
LEMMA SetDatalen ==
  ASSUME NEW d, NEW l, NEW b, NEW t, NEW v, NEW c, c = Fielded(d, l, b, t)
  PROVE  [c EXCEPT !.datalen = v] = Fielded(d, v, b, t)
<1> DEFINE S == {d, l, b, t, v}
<1>1. c \in [data : S, datalen : S, bitlen : S, transformed : S]
  BY DEF Fielded
<1>2. [c EXCEPT !.datalen = v] = Fielded(c.data, v, c.bitlen, c.transformed)
  BY <1>1 DEF Fielded
<1> QED BY <1>2, Fields

\* ... nor one of bitlen ...
LEMMA SetBitlen ==
  ASSUME NEW d, NEW l, NEW b, NEW t, NEW v, NEW c, c = Fielded(d, l, b, t)
  PROVE  [c EXCEPT !.bitlen = v] = Fielded(d, l, v, t)
<1> DEFINE S == {d, l, b, t, v}
<1>1. c \in [data : S, datalen : S, bitlen : S, transformed : S]
  BY DEF Fielded
<1>2. [c EXCEPT !.bitlen = v] = Fielded(c.data, c.datalen, v, c.transformed)
  BY <1>1 DEF Fielded
<1> QED BY <1>2, Fields

\* ... and sha256_transform() adds data to what has been transformed.
LEMMA TransformIs ==
  ASSUME NEW d, NEW l, NEW b, NEW t, NEW c, c = Fielded(d, l, b, t)
  PROVE  Transform(c) = Fielded(d, l, b, Append(t, d))
<1> DEFINE v == Append(t, d)
           S == {d, l, b, t, v}
<1>1. c \in [data : S, datalen : S, bitlen : S, transformed : S]
  BY DEF Fielded
<1>2. [c EXCEPT !.transformed = v] = Fielded(c.data, c.datalen, c.bitlen, v)
  BY SMTT(30), <1>1 DEF Fielded
<1>3. Transform(c) = [c EXCEPT !.transformed = v]
  BY Fields DEF Transform
<1> QED BY <1>2, <1>3, Fields

\* One turn of the loop of sha256_update(), field by field.
LEMMA UpdateByteIs ==
  ASSUME NEW d, NEW l, NEW b, NEW t, NEW c, c = Fielded(d, l, b, t), NEW byte
  PROVE  UpdateByte(c, byte)
           = IF l + 1 = BLOCK
               THEN Fielded([d EXCEPT ![l + 1] = byte], 0, b + BLOCK * BYTE_BITS,
                           Append(t, [d EXCEPT ![l + 1] = byte]))
               ELSE Fielded([d EXCEPT ![l + 1] = byte], l + 1, b, t)
<1> DEFINE v == [d EXCEPT ![l + 1] = byte]
           e == [c EXCEPT !.data = v]
           f == [e EXCEPT !.datalen = l + 1]
           g == Transform(f)
           h == [g EXCEPT !.bitlen = b + BLOCK * BYTE_BITS]
           i == [h EXCEPT !.datalen = 0]
<1>1. c.data = d /\ c.datalen = l
  BY Fields
<1>2. UpdateByte(c, byte)
        = LET m == [c EXCEPT !.data = v, !.datalen = l + 1]
          IN  IF m.datalen = BLOCK
                THEN [Transform(m) EXCEPT !.bitlen = Transform(m).bitlen + BLOCK * BYTE_BITS,
                                          !.datalen = 0]
                ELSE m
  BY <1>1 DEF UpdateByte
<1> HIDE DEF v
<1>3. [c EXCEPT !.data = v, !.datalen = l + 1] = f
  BY Zenon
<1>4. e = Fielded(v, l, b, t)
  BY SetData
<1> HIDE DEF e
<1>5. f = Fielded(v, l + 1, b, t)
  BY <1>4, SetDatalen
<1> HIDE DEF f
<1>6. g = Fielded(v, l + 1, b, Append(t, v))
  BY <1>5, TransformIs
<1>7. UpdateByte(c, byte)
        = IF f.datalen = BLOCK
            THEN [g EXCEPT !.bitlen = g.bitlen + BLOCK * BYTE_BITS, !.datalen = 0]
            ELSE f
  BY <1>2, <1>3, Zenon
<1>8. f.datalen = l + 1
  BY <1>5, Fields
<1> HIDE DEF g
<1>9. g.bitlen = b
  BY <1>6, Fields
<1>10. [g EXCEPT !.bitlen = b + BLOCK * BYTE_BITS, !.datalen = 0] = i
  BY Zenon
<1>11. h = Fielded(v, l + 1, b + BLOCK * BYTE_BITS, Append(t, v))
  BY <1>6, SetBitlen
<1> HIDE DEF h
<1>12. i = Fielded(v, 0, b + BLOCK * BYTE_BITS, Append(t, v))
  BY <1>11, SetDatalen
<1>13. UpdateByte(c, byte)
         = IF l + 1 = BLOCK THEN i ELSE f
  BY <1>7, <1>8, <1>9, <1>10
<1> QED BY <1>5, <1>12, <1>13 DEF v

LIMIT == BLOCK - LENGTH_BYTES

\* What the end of sha256_final() makes of data: the mark and zeros up to last,
\* zeros up to the length, the length.
Marked(d, l, last) ==
  [k \in 1 .. BLOCK |->
     IF k = l + 1 THEN MARK ELSE IF k \in l + 2 .. last THEN ZERO ELSE d[k]]

Cleared(d) == [k \in 1 .. BLOCK |-> IF k <= LIMIT THEN ZERO ELSE d[k]]

Closed(d, bits) ==
  [k \in 1 .. BLOCK |-> IF k <= LIMIT THEN d[k] ELSE LengthBytes(bits)[k - LIMIT]]

\* The padding of sha256_final(), field by field.
LEMMA PaddedIs ==
  ASSUME NEW d, NEW l, NEW b, NEW t, NEW c, c = Fielded(d, l, b, t)
  PROVE  Padded(c) = IF l < LIMIT
                       THEN Fielded(Marked(d, l, LIMIT), l, b, t)
                       ELSE Fielded(Cleared(Marked(d, l, BLOCK)), l, b,
                                   Append(t, Marked(d, l, BLOCK)))
<1> DEFINE e == [c EXCEPT !.data = Marked(d, l, BLOCK)]
           f == Transform(e)
<1>1. c.data = d /\ c.datalen = l
  BY Fields
<1>2. Padded(c)
        = LET Mark(last) ==
                [k \in 1 .. BLOCK |->
                   IF k = l + 1 THEN MARK ELSE IF k \in l + 2 .. last THEN ZERO ELSE d[k]]
          IN  IF l < LIMIT
                THEN [c EXCEPT !.data = Mark(LIMIT)]
                ELSE LET m == Transform([c EXCEPT !.data = Mark(BLOCK)])
                     IN  [m EXCEPT !.data =
                            [k \in 1 .. BLOCK |-> IF k <= LIMIT THEN ZERO ELSE m.data[k]]]
  BY <1>1 DEF Padded, LIMIT
<1>3. Padded(c) = IF l < LIMIT
                    THEN [c EXCEPT !.data = Marked(d, l, LIMIT)]
                    ELSE [f EXCEPT !.data = Cleared(f.data)]
  BY <1>2, Zenon DEF Marked, Cleared
<1>4. [c EXCEPT !.data = Marked(d, l, LIMIT)] = Fielded(Marked(d, l, LIMIT), l, b, t)
  BY SetData
<1>5. e = Fielded(Marked(d, l, BLOCK), l, b, t)
  BY SetData
<1> HIDE DEF e
<1>6. f = Fielded(Marked(d, l, BLOCK), l, b, Append(t, Marked(d, l, BLOCK)))
  BY <1>5, TransformIs
<1> HIDE DEF f
<1>7. f.data = Marked(d, l, BLOCK)
  BY <1>6, Fields
<1>8. [f EXCEPT !.data = Cleared(f.data)]
        = Fielded(Cleared(f.data), l, b, Append(t, Marked(d, l, BLOCK)))
  BY <1>6, SetData
<1> QED BY <1>3, <1>4, <1>7, <1>8

\* What sha256_final() has transformed at its end.
LEMMA FinalIs ==
  ASSUME NEW d, NEW l, NEW b, NEW t, NEW c, c = Fielded(d, l, b, t)
  PROVE  LET bits == b + l * BYTE_BITS
         IN  sha256_final(c).transformed
               = IF l < LIMIT
                   THEN Append(t, Closed(Marked(d, l, LIMIT), bits))
                   ELSE Append(Append(t, Marked(d, l, BLOCK)),
                               Closed(Cleared(Marked(d, l, BLOCK)), bits))
<1> DEFINE bits == b + l * BYTE_BITS
           p == Padded(c)
           e == [p EXCEPT !.bitlen = bits]
           f == [e EXCEPT !.data = Closed(p.data, bits)]
<1>1. sha256_final(c)
        = Transform([p EXCEPT
            !.bitlen = bits,
            !.data = [k \in 1 .. BLOCK |->
                        IF k <= LIMIT THEN p.data[k] ELSE LengthBytes(bits)[k - LIMIT]]])
  <2>1. c.bitlen = b /\ c.datalen = l
    BY Fields
  <2> QED BY <2>1, Zenon DEF sha256_final, LIMIT
<1> HIDE DEF bits
<1>2. sha256_final(c) = Transform([p EXCEPT !.bitlen = bits, !.data = Closed(p.data, bits)])
  BY <1>1, Zenon DEF Closed
<1>3. [p EXCEPT !.bitlen = bits, !.data = Closed(p.data, bits)] = f
  BY Zenon
<1>4. ASSUME NEW v, NEW u, p = Fielded(v, l, b, u)
      PROVE  sha256_final(c).transformed = Append(u, Closed(v, bits))
  <2>1. p.data = v
    BY <1>4, Fields
  <2>2. e = Fielded(v, l, bits, u)
    BY <1>4, SetBitlen
  <2> HIDE DEF e, p
  <2>3. f = Fielded(Closed(v, bits), l, bits, u)
    BY <2>1, <2>2, SetData
  <2> HIDE DEF f
  <2>4. Transform(f) = Fielded(Closed(v, bits), l, bits, Append(u, Closed(v, bits)))
    BY <2>3, TransformIs
  <2>5. sha256_final(c) = Transform(f)
    BY <1>2, <1>3
  <2>6. Transform(f).transformed = Append(u, Closed(v, bits))
    BY <2>4 DEF Fielded
  <2> QED BY <2>5, <2>6
<1>5. CASE l < LIMIT
  <2>1. p = Fielded(Marked(d, l, LIMIT), l, b, t)
    BY <1>5, PaddedIs
  <2>2. sha256_final(c).transformed = Append(t, Closed(Marked(d, l, LIMIT), bits))
    BY <1>4, <2>1
  <2> QED BY <1>5, <2>2 DEF bits
<1>6. CASE ~ (l < LIMIT)
  <2>1. p = Fielded(Cleared(Marked(d, l, BLOCK)), l, b, Append(t, Marked(d, l, BLOCK)))
    BY <1>6, PaddedIs
  <2>2. sha256_final(c).transformed
          = Append(Append(t, Marked(d, l, BLOCK)), Closed(Cleared(Marked(d, l, BLOCK)), bits))
    BY <1>4, <2>1
  <2> QED BY <1>6, <2>2 DEF bits
<1> QED BY <1>5, <1>6

-----------------------------------------------------------------------------
(* sha256_update() and sha256_final().                                     *)

\* Everything that is hashed, or padded with.
Value ==
  Byte \cup {MARK, ZERO}
    \cup UNION {{LengthBytes(bits)[k] : k \in 1 .. LENGTH_BYTES} : bits \in Nat}

Context ==
  [data : [1 .. BLOCK -> Value], datalen : 0 .. BLOCK - 1, bitlen : Nat,
   transformed : Seq(Seq(Value))]

\* What the context is when s has been fed to it: all full blocks have been
\* transformed and counted, the rest is at the beginning of data.
Feeds(ctxt, s) ==
  /\ ctxt \in Context
  /\ ctxt.datalen = Len(s) % BLOCK
  /\ ctxt.bitlen = (Len(s) \div BLOCK) * BLOCK * BYTE_BITS
  /\ ctxt.transformed = BlocksOf(s)
  /\ \A k \in 1 .. ctxt.datalen : ctxt.data[k] = s[(Len(s) \div BLOCK) * BLOCK + k]

\* One byte more.
LEMMA UpdateByteFeeds ==
  ASSUME NEW c, NEW s \in Seq(Value), NEW byte \in Value, Feeds(c, s)
  PROVE  Feeds(UpdateByte(c, byte), Append(s, byte))
<1> DEFINE n == Len(s)
           q == n \div BLOCK
           r == n % BLOCK
           t == Append(s, byte)
           filled == [c.data EXCEPT ![r + 1] = byte]
           after == UpdateByte(c, byte)
<1>1. /\ n \in Nat /\ q \in Nat /\ r \in 0 .. BLOCK - 1 /\ n = q * BLOCK + r
      /\ q * BLOCK \in Nat /\ BLOCK \in Nat /\ BLOCK > 0 /\ BYTE_BITS \in Nat
  BY Divide, BlockFacts
<1>2. /\ t \in Seq(Value) /\ Len(t) = n + 1 /\ \A k \in 1 .. n : t[k] = s[k]
      /\ t[n + 1] = byte
  BY AppendProperties
<1>3. /\ c \in Context /\ c.datalen = r /\ c.bitlen = q * BLOCK * BYTE_BITS
      /\ c.transformed = BlocksOf(s) /\ \A k \in 1 .. r : c.data[k] = s[q * BLOCK + k]
  BY DEF Feeds
<1>4. c.data \in [1 .. BLOCK -> Value] /\ c.transformed \in Seq(Seq(Value)) /\ c.bitlen \in Nat
      /\ c = Fielded(c.data, c.datalen, c.bitlen, c.transformed)
  BY <1>3 DEF Context, Fielded
<1>5. filled \in [1 .. BLOCK -> Value]
  BY <1>4
<1>6. \A k \in 1 .. r + 1 : t[q * BLOCK + k] = filled[k]
  <2> HIDE DEF n, q, r, t
  <2> DEFINE start == q * BLOCK
  <2>1. start \in Nat /\ n = start + r /\ r \in Nat /\ r < BLOCK
    BY <1>1
  <2>2. \A k \in 1 .. r : c.data[k] = s[start + k]
    BY <1>3
  <2> HIDE DEF start
  <2>3. \A k \in 1 .. r : start + k \in 1 .. n
    BY <2>1
  <2>4. ASSUME NEW k \in 1 .. r
        PROVE  t[start + k] = filled[k]
    <3>1. k # r + 1 /\ k \in 1 .. BLOCK
      BY <1>1, <2>1
    <3>2. filled[k] = c.data[k]
      BY <1>4, <3>1
    <3>3. t[start + k] = s[start + k]
      BY <1>2, <2>3
    <3> QED BY <2>2, <3>2, <3>3
  <2>5. t[start + (r + 1)] = filled[r + 1]
    <3>1. r + 1 \in 1 .. BLOCK /\ start + (r + 1) = n + 1
      BY <1>1, <2>1
    <3>2. filled[r + 1] = byte
      BY <1>4, <3>1
    <3> QED BY <1>2, <3>1, <3>2
  <2>6. \A k \in 1 .. r + 1 : k \in 1 .. r \/ k = r + 1
    BY <2>1
  <2>7. \A k \in 1 .. r + 1 : t[start + k] = filled[k]
    BY <2>4, <2>5, <2>6
  <2> QED BY <2>7 DEF start
<1>7. after = IF r + 1 = BLOCK
        THEN Fielded(filled, 0, c.bitlen + BLOCK * BYTE_BITS, Append(c.transformed, filled))
        ELSE Fielded(filled, r + 1, c.bitlen, c.transformed)
  <2> DEFINE full == [c.data EXCEPT ![c.datalen + 1] = byte]
  <2>1. UpdateByte(c, byte)
          = IF c.datalen + 1 = BLOCK
              THEN Fielded(full, 0, c.bitlen + BLOCK * BYTE_BITS, Append(c.transformed, full))
              ELSE Fielded(full, c.datalen + 1, c.bitlen, c.transformed)
    <3> DEFINE d == c.data
               l == c.datalen
               b == c.bitlen
               u == c.transformed
    <3>1. c = Fielded(d, l, b, u)
      BY <1>4
    <3> HIDE DEF d, l, b, u
    <3>2. UpdateByte(c, byte)
            = IF l + 1 = BLOCK
                THEN Fielded([d EXCEPT ![l + 1] = byte], 0, b + BLOCK * BYTE_BITS,
                            Append(u, [d EXCEPT ![l + 1] = byte]))
                ELSE Fielded([d EXCEPT ![l + 1] = byte], l + 1, b, u)
      BY <3>1, UpdateByteIs
    <3> QED BY <3>2 DEF d, l, b, u
  <2>2. full = filled
    BY <1>3
  <2> HIDE DEF r, full, filled
  <2> QED BY <1>3, <2>1, <2>2
<1>8. n <= n + 1
  BY <1>1
<1>9. CASE r + 1 = BLOCK
  <2>1. (n + 1) \div BLOCK = q + 1 /\ (n + 1) % BLOCK = 0
    BY <1>1, <1>9, DivideNext
  <2>2. BlocksOf(t) = Append(BlocksOf(s), filled)
    <3> HIDE DEF t, filled
    <3>1. \A k \in 1 .. BLOCK : t[q * BLOCK + k] = filled[k]
      BY <1>6, <1>9
    <3>2. Len(s) <= Len(t) /\ Len(t) \div BLOCK = q + 1
      BY <1>2, <1>8, <2>1
    <3> QED BY ZenonT(30), <1>2, <1>5, <3>1, <3>2, BlocksMore
  <2>3. /\ after.data = filled /\ after.datalen = 0
        /\ after.bitlen = c.bitlen + BLOCK * BYTE_BITS
        /\ after.transformed = Append(c.transformed, filled)
        /\ after = [data |-> after.data, datalen |-> after.datalen, bitlen |-> after.bitlen,
                    transformed |-> after.transformed]
    BY <1>7, <1>9 DEF Fielded
  <2>4. after.bitlen = (q + 1) * BLOCK * BYTE_BITS
    <3>1. \A x, b, w \in Nat : x * b * w + b * w = (x + 1) * b * w
      OBVIOUS
    <3> HIDE DEF q
    <3> QED BY SMTT(30), <1>1, <1>3, <2>3, <3>1
  <2>5. after \in Context
    <3>1. filled \in Seq(Value)
      <4> HIDE DEF filled
      <4> QED BY <1>1, <1>5
    <3>2. Append(c.transformed, filled) \in Seq(Seq(Value))
      BY <1>4, <3>1, AppendProperties
    <3>3. after.bitlen \in Nat
      <4>1. \A x, b, w \in Nat : (x + 1) * b * w \in Nat
        OBVIOUS
      <4> HIDE DEF q
      <4> QED BY <1>1, <2>4, <4>1
    <3>4. 0 \in 0 .. BLOCK - 1
      BY <1>1
    <3> HIDE DEF after, filled
    <3> QED BY <1>5, <2>3, <3>2, <3>3, <3>4 DEF Context
  <2> HIDE DEF after, filled, q, t, n
  <2>6. \A k \in 1 .. after.datalen : FALSE
    BY <2>3
  <2>7. /\ after.datalen = Len(t) % BLOCK
        /\ after.bitlen = (Len(t) \div BLOCK) * BLOCK * BYTE_BITS
        /\ after.transformed = BlocksOf(t)
    BY <1>2, <1>3, <2>1, <2>2, <2>3, <2>4
  <2>8. Feeds(after, t)
    BY <2>5, <2>6, <2>7 DEF Feeds
  <2> QED BY <2>8 DEF after, t
<1>10. CASE r + 1 # BLOCK
  <2>0. r + 1 < BLOCK
    BY <1>1, <1>10
  <2>1. (n + 1) \div BLOCK = q /\ (n + 1) % BLOCK = r + 1
    BY <1>1, <2>0, DivideNext
  <2>2. BlocksOf(t) = BlocksOf(s)
    <3> HIDE DEF t, filled
    <3>1. Len(s) <= Len(t) /\ Len(s) \div BLOCK = Len(t) \div BLOCK
      BY <1>2, <1>8, <2>1
    <3> QED BY <1>2, <3>1, BlocksSame
  <2>3. /\ after.data = filled /\ after.datalen = r + 1
        /\ after.bitlen = c.bitlen /\ after.transformed = c.transformed
        /\ after = [data |-> after.data, datalen |-> after.datalen, bitlen |-> after.bitlen,
                    transformed |-> after.transformed]
    BY <1>7, <1>10 DEF Fielded
  <2>4. after \in Context
    <3>1. r + 1 \in 0 .. BLOCK - 1
      BY <1>1, <2>0
    <3> HIDE DEF after, filled
    <3> QED BY <1>4, <1>5, <2>3, <3>1 DEF Context
  <2> HIDE DEF after, filled, q, t, n, r
  <2>5. \A k \in 1 .. after.datalen : after.data[k] = t[(Len(t) \div BLOCK) * BLOCK + k]
    BY <1>2, <1>6, <2>1, <2>3
  <2>6. /\ after.datalen = Len(t) % BLOCK
        /\ after.bitlen = (Len(t) \div BLOCK) * BLOCK * BYTE_BITS
        /\ after.transformed = BlocksOf(t)
    BY <1>2, <1>3, <2>1, <2>2, <2>3
  <2>7. Feeds(after, t)
    BY <2>4, <2>5, <2>6 DEF Feeds
  <2> QED BY <2>7 DEF after, t
<1> QED BY <1>9, <1>10

\* The values of sha256_update()'s loop: g[k] after k bytes of u.
Fed(c, u, n, g) == g = [k \in 0 .. n |-> IF k = 0 THEN c ELSE UpdateByte(g[k - 1], u[k])]

\* The loop of sha256_update() has a value after any number of bytes.
LEMMA FedExists ==
  ASSUME NEW c, NEW u
  PROVE  \A n \in Nat : \E g : Fed(c, u, n, g)
<1> DEFINE S == {n \in Nat : \E g : Fed(c, u, n, g)}
<1>1. 0 \in S
  <2> DEFINE g == [k \in 0 .. 0 |-> c]
  <2>1. \A k \in 0 .. 0 : k = 0
    OBVIOUS
  <2>2. g = [k \in 0 .. 0 |-> IF k = 0 THEN c ELSE UpdateByte(g[k - 1], u[k])]
    BY <2>1
  <2>3. Fed(c, u, 0, g)
    BY <2>2 DEF Fed
  <2> QED BY <2>3
<1>2. ASSUME NEW n \in Nat, n \in S
      PROVE  n + 1 \in S
  <2>1. PICK g : Fed(c, u, n, g)
    BY <1>2
  <2> DEFINE h == [k \in 0 .. n + 1 |-> IF k <= n THEN g[k] ELSE UpdateByte(g[n], u[n + 1])]
  <2>2. /\ g = [k \in 0 .. n |-> IF k = 0 THEN c ELSE UpdateByte(g[k - 1], u[k])]
    BY <2>1 DEF Fed
  <2>3. ASSUME NEW k \in 0 .. n + 1
        PROVE  h[k] = IF k = 0 THEN c ELSE UpdateByte(h[k - 1], u[k])
    <3>1. CASE k = 0
      BY <2>2, <3>1
    <3>2. CASE k \in 1 .. n
      <4>1. h[k] = g[k] /\ h[k - 1] = g[k - 1]
        BY <3>2
      <4>2. g[k] = UpdateByte(g[k - 1], u[k])
        BY <2>2, <3>2
      <4> QED BY <3>2, <4>1, <4>2
    <3>3. CASE k = n + 1
      <4>1. h[k] = UpdateByte(g[n], u[k]) /\ h[n] = g[n] /\ k - 1 = n /\ k # 0
        BY <3>3
      <4> QED BY <4>1
    <3> QED BY <3>1, <3>2, <3>3
  <2>4. h = [k \in 0 .. n + 1 |-> h[k]]
    OBVIOUS
  <2>5. Fed(c, u, n + 1, h)
    <3> HIDE DEF h
    <3> QED BY <2>3, <2>4 DEF Fed
  <2> QED BY <2>5
<1>3. S = Nat
  <2> HIDE DEF S
  <2>1. S \in SUBSET Nat
    BY DEF S
  <2> QED BY <1>1, <1>2, <2>1, Induction
<1> QED BY <1>3

\* Many bytes more.
LEMMA UpdateFeeds ==
  ASSUME NEW c, NEW s \in Seq(Value), NEW u \in Seq(Value), Feeds(c, s)
  PROVE  Feeds(sha256_update(c, u), s \o u)
<1> DEFINE n == Len(u)
           g == CHOOSE f : Fed(c, u, n, f)
           Upto(k) == s \o SubSeq(u, 1, k)
           S == {k \in Nat : k <= n => Feeds(g[k], Upto(k))}
<1>1. n \in Nat
  OBVIOUS
<1>2. g = [k \in 0 .. n |-> IF k = 0 THEN c ELSE UpdateByte(g[k - 1], u[k])]
  <2>1. Fed(c, u, n, g)
    BY <1>1, FedExists
  <2> QED BY <2>1 DEF Fed
<1>3. sha256_update(c, u) = g[n]
  BY DEF sha256_update, Fed
<1> HIDE DEF g
<1>4. 0 \in S
  <2>1. SubSeq(u, 1, 0) = << >> /\ s \o << >> = s
    OBVIOUS
  <2>2. g[0] = c
    BY <1>1, <1>2
  <2> QED BY <2>1, <2>2
<1>5. ASSUME NEW k \in Nat, k \in S
      PROVE  k + 1 \in S
  <2> SUFFICES ASSUME k + 1 <= n
               PROVE  Feeds(g[k + 1], Upto(k + 1))
    OBVIOUS
  <2>1. k <= n /\ k + 1 \in 0 .. n /\ k + 1 # 0 /\ (k + 1) - 1 = k /\ k + 1 \in 1 .. Len(u)
    BY <1>1
  <2>2. g[k + 1] = UpdateByte(g[k], u[k + 1])
    BY <1>2, <2>1
  <2>3. Feeds(g[k], Upto(k))
    BY <1>5, <2>1
  <2>4. u[k + 1] \in Value
    BY <2>1, ElementOfSeq
  <2>5. /\ Upto(k) \in Seq(Value)
        /\ Upto(k + 1) = Append(Upto(k), u[k + 1])
    <3>1. SubSeq(u, 1, k) \in Seq(Value) /\ Len(SubSeq(u, 1, k)) = k
      BY <1>1, <2>1
    <3>2. SubSeq(u, 1, k + 1) = Append(SubSeq(u, 1, k), u[k + 1])
      BY <1>1, <2>1
    <3>3. s \o Append(SubSeq(u, 1, k), u[k + 1]) = Append(s \o SubSeq(u, 1, k), u[k + 1])
      BY <2>4, <3>1
    <3> QED BY <3>1, <3>2, <3>3
  <2> HIDE DEF Upto
  <2> QED BY <2>2, <2>3, <2>4, <2>5, UpdateByteFeeds
<1>6. n \in S
  <2> HIDE DEF S
  <2>1. S \in SUBSET Nat
    BY DEF S
  <2> QED BY <1>1, <1>4, <1>5, <2>1, Induction
<1>7. SubSeq(u, 1, n) = u
  OBVIOUS
<1>8. Feeds(g[n], Upto(n)) /\ Upto(n) = s \o u
  BY <1>1, <1>6, <1>7
<1> HIDE DEF Upto, n
<1> QED BY <1>3, <1>8

\* A concatenation, element by element.
LEMMA Concat ==
  ASSUME NEW V, NEW s \in Seq(V), NEW t \in Seq(V),
         NEW i, NEW j, Len(s) = i, Len(t) = j
  PROVE  /\ s \o t \in Seq(V) /\ Len(s \o t) = i + j
         /\ \A k \in 1 .. i + j : (s \o t)[k] = IF k <= i THEN s[k] ELSE t[k - i]
BY ConcatProperties

\* The padded message, byte by byte.
LEMMA MessageBytes ==
  ASSUME NEW s \in Seq(Value),
         NEW z \in Nat, z = (BLOCK - 1 - LENGTH_BYTES - Len(s)) % BLOCK
  PROVE  LET m == Sha256Message(s)
             n == Len(s)
             tail == LengthBytes(n * BYTE_BITS)
         IN  /\ m \in Seq(Value) /\ Len(m) = n + 1 + z + LENGTH_BYTES
             /\ \A k \in 1 .. n : m[k] = s[k]
             /\ m[n + 1] = MARK
             /\ \A k \in n + 2 .. n + 1 + z : m[k] = ZERO
             /\ \A k \in n + 2 + z .. n + 1 + z + LENGTH_BYTES : m[k] = tail[k - (n + 1 + z)]
<1> DEFINE n == Len(s)
           tail == LengthBytes(n * BYTE_BITS)
           mark == <<MARK>>
           fill == [k \in 1 .. z |-> ZERO]
           a == s \o mark
           b == a \o fill
           m == b \o tail
<1>0. n \in Nat /\ LENGTH_BYTES \in Nat /\ BYTE_BITS \in Nat
  BY BlockFacts
<1>1. m = Sha256Message(s)
  BY DEF Sha256Message
<1>2. /\ tail \in Seq(Value) /\ Len(tail) = LENGTH_BYTES
  <2>1. n * BYTE_BITS \in Nat
    BY <1>0
  <2> DEFINE bits == n * BYTE_BITS
  <2> HIDE DEF n
  <2> HIDE DEF bits
  <2>2. \A k \in 1 .. LENGTH_BYTES : LengthBytes(bits)[k] \in Value
    BY <2>1 DEF Value, bits
  <2>3. LengthBytes(bits) = [k \in 1 .. LENGTH_BYTES |-> LengthBytes(bits)[k]]
    BY DEF LengthBytes
  <2>4. LengthBytes(bits) \in Seq(Value) /\ Len(LengthBytes(bits)) = LENGTH_BYTES
    BY <1>0, <2>2, <2>3
  <2> QED BY <2>4 DEF bits
<1> HIDE DEF tail
<1>3. mark \in Seq(Value) /\ Len(mark) = 1 /\ mark[1] = MARK
  BY DEF Value
<1> HIDE DEF mark
<1>4. fill \in Seq(Value) /\ Len(fill) = z /\ \A k \in 1 .. z : fill[k] = ZERO
  BY DEF Value
<1> HIDE DEF fill
<1>n. Len(s) = n
  OBVIOUS
<1> HIDE DEF n
<1>5. /\ a \in Seq(Value) /\ Len(a) = n + 1
      /\ \A k \in 1 .. n + 1 : a[k] = IF k <= n THEN s[k] ELSE mark[k - n]
  <2> DEFINE one == 1
  <2>1. mark \in Seq(Value) /\ Len(mark) = one /\ Len(s) = n
    BY <1>3, <1>n
  <2> HIDE DEF one, b, m
  <2>2. /\ s \o mark \in Seq(Value) /\ Len(s \o mark) = n + one
        /\ \A k \in 1 .. n + one : (s \o mark)[k] = IF k <= n THEN s[k] ELSE mark[k - n]
    BY <2>1, Concat
  <2> QED BY <2>2 DEF one
<1> HIDE DEF a
<1>6. /\ b \in Seq(Value) /\ Len(b) = n + 1 + z
      /\ \A k \in 1 .. n + 1 + z : b[k] = IF k <= n + 1 THEN a[k] ELSE fill[k - (n + 1)]
  BY <1>4, <1>5, Concat
<1> HIDE DEF b
<1>7. /\ m \in Seq(Value) /\ Len(m) = n + 1 + z + LENGTH_BYTES
      /\ \A k \in 1 .. n + 1 + z + LENGTH_BYTES :
           m[k] = IF k <= n + 1 + z THEN b[k] ELSE tail[k - (n + 1 + z)]
  BY <1>2, <1>6, Concat
<1> HIDE DEF m
<1>8. \A k \in 1 .. n : m[k] = s[k]
  BY <1>0, <1>5, <1>6, <1>7
<1>9. m[n + 1] = MARK
  <2>1. /\ n + 1 \in 1 .. n + 1 /\ n + 1 \in 1 .. n + 1 + z /\ ~ (n + 1 <= n)
        /\ n + 1 \in 1 .. n + 1 + z + LENGTH_BYTES /\ (n + 1) - n = 1 /\ n + 1 <= n + 1 + z
    BY <1>0
  <2> QED BY <1>3, <1>5, <1>6, <1>7, <2>1
<1>10. \A k \in n + 2 .. n + 1 + z : m[k] = ZERO
  <2> SUFFICES ASSUME NEW k \in n + 2 .. n + 1 + z
               PROVE  m[k] = ZERO
    OBVIOUS
  <2>1. /\ k \in 1 .. n + 1 + z /\ ~ (k <= n + 1) /\ k - (n + 1) \in 1 .. z
        /\ k \in 1 .. n + 1 + z + LENGTH_BYTES /\ k <= n + 1 + z
    BY <1>0
  <2> QED BY <1>4, <1>6, <1>7, <2>1
<1>11. \A k \in n + 2 + z .. n + 1 + z + LENGTH_BYTES : m[k] = tail[k - (n + 1 + z)]
  <2> SUFFICES ASSUME NEW k \in n + 2 + z .. n + 1 + z + LENGTH_BYTES
               PROVE  m[k] = tail[k - (n + 1 + z)]
    OBVIOUS
  <2>1. k \in 1 .. n + 1 + z + LENGTH_BYTES /\ ~ (k <= n + 1 + z)
    BY <1>0
  <2> QED BY <1>7, <2>1
<1> QED BY <1>1, <1>7, <1>8, <1>9, <1>10, <1>11 DEF n, tail

\* How many zeros there are.
LEMMA Zeros ==
  ASSUME NEW n \in Nat, NEW r, r = n % BLOCK
  PROVE  /\ LIMIT \in Nat /\ LIMIT = BLOCK - LENGTH_BYTES /\ LIMIT > 0 /\ LIMIT <= BLOCK
         /\ r < LIMIT => (BLOCK - 1 - LENGTH_BYTES - n) % BLOCK = LIMIT - 1 - r
         /\ r >= LIMIT => (BLOCK - 1 - LENGTH_BYTES - n) % BLOCK = BLOCK + LIMIT - 1 - r
<1> DEFINE q == n \div BLOCK
           x == BLOCK - 1 - LENGTH_BYTES - n
<1>1. /\ q \in Nat /\ r \in 0 .. BLOCK - 1 /\ n = q * BLOCK + r /\ BLOCK \in Nat
      /\ BLOCK > 0 /\ LENGTH_BYTES \in Nat /\ LENGTH_BYTES < BLOCK
  BY Divide, BlockFacts
<1>2. LIMIT \in Nat /\ LIMIT = BLOCK - LENGTH_BYTES /\ LIMIT > 0 /\ LIMIT <= BLOCK
  BY <1>1 DEF LIMIT
<1> HIDE DEF q
<1>3. x \in Int /\ - q \in Int /\ - q - 1 \in Int
  BY <1>1
<1>4. (- q) * BLOCK = - (q * BLOCK) /\ (- q - 1) * BLOCK = - (q * BLOCK) - BLOCK
      /\ q * BLOCK \in Nat
  BY <1>1
<1>5. ASSUME r < LIMIT
      PROVE  x % BLOCK = LIMIT - 1 - r
  <2>1. x = (- q) * BLOCK + (LIMIT - 1 - r) /\ LIMIT - 1 - r \in 0 .. BLOCK - 1
    BY <1>1, <1>2, <1>4, <1>5
  <2> HIDE DEF x
  <2> QED BY <1>1, <1>3, <2>1, DivideUnique
<1>6. ASSUME r >= LIMIT
      PROVE  x % BLOCK = BLOCK + LIMIT - 1 - r
  <2>1. /\ x = (- q - 1) * BLOCK + (BLOCK + LIMIT - 1 - r)
        /\ BLOCK + LIMIT - 1 - r \in 0 .. BLOCK - 1
    BY <1>1, <1>2, <1>4, <1>6
  <2> HIDE DEF x
  <2> QED BY <1>1, <1>3, <2>1, DivideUnique
<1> QED BY <1>2, <1>5, <1>6

\* Whole blocks divide without a rest.
LEMMA Whole ==
  ASSUME NEW q \in Nat
  PROVE  /\ q * BLOCK \in Nat /\ (q * BLOCK) \div BLOCK = q
         /\ (q + 1) * BLOCK = q * BLOCK + BLOCK
         /\ (q + 1 + 1) * BLOCK = q * BLOCK + BLOCK + BLOCK
<1>1. BLOCK \in Nat /\ BLOCK > 0
  BY BlockFacts
<1>2. q * BLOCK \in Nat /\ q * BLOCK = q * BLOCK + 0 /\ 0 \in 0 .. BLOCK - 1
  BY <1>1
<1>3. \A x \in Int : x = q * BLOCK + 0 => x \div BLOCK = q
  BY <1>1, <1>2, DivideUnique
<1>4. (q * BLOCK) \div BLOCK = q
  <2> DEFINE x == q * BLOCK
  <2>1. x \in Int /\ x = q * BLOCK + 0
    BY <1>2
  <2> HIDE DEF x
  <2>2. x \div BLOCK = q
    BY <1>3, <2>1
  <2> QED BY <2>2 DEF x
<1> QED BY <1>1, <1>2, <1>4

\* The parts of a message: start bytes in whole blocks, r in the rest.
Parts(s, q, start, r) ==
  /\ q \in Nat /\ start \in Nat /\ r \in Nat /\ r < BLOCK
  /\ start = q * BLOCK /\ Len(s) = start + r
  /\ q = Len(s) \div BLOCK /\ r = Len(s) % BLOCK

\* r bytes of d are the rest of s.
Holds(d, r, s, start) == \A k \in 1 .. r : d[k] = s[start + k]

\* s, the mark, and zeros up to last.
Begins(m, s, last) ==
  /\ \A k \in 1 .. Len(s) : m[k] = s[k]
  /\ m[Len(s) + 1] = MARK
  /\ \A k \in Len(s) + 2 .. last : m[k] = ZERO

\* The length begins behind the first byte of a block.
LEMMA LimitFacts ==
  /\ LIMIT \in Nat /\ LIMIT = BLOCK - LENGTH_BYTES /\ LIMIT > 0 /\ LIMIT <= BLOCK
  /\ BLOCK \in Nat /\ BLOCK > 0 /\ LENGTH_BYTES \in Nat
BY BlockFacts DEF LIMIT

\* The block with the mark, as far as the mark and zeros go.
LEMMA MarkBlock ==
  ASSUME NEW s \in Seq(Value), NEW q, NEW start, NEW r, Parts(s, q, start, r),
         NEW d, Holds(d, r, s, start),
         NEW last \in Nat, last <= BLOCK, NEW m, Begins(m, s, start + last),
         NEW k \in 1 .. BLOCK, k <= last, r < last
  PROVE  m[start + k] = Marked(d, r, last)[k]
<1> DEFINE n == Len(s)
           e == Marked(d, r, last)
<1>1. /\ start \in Nat /\ r \in Nat /\ n = start + r
  BY DEF Parts
<1>2. k \in Nat /\ k >= 1
  BY LimitFacts
<1>3. /\ k <= r => e[k] = d[k]
      /\ k = r + 1 => e[k] = MARK
      /\ k >= r + 2 /\ k <= last => e[k] = ZERO
  <2>1. e[k] = IF k = r + 1 THEN MARK ELSE IF k \in r + 2 .. last THEN ZERO ELSE d[k]
    BY DEF Marked
  <2> HIDE DEF e
  <2> QED BY <1>1, <1>2, <2>1
<1>4. /\ \A j \in 1 .. n : m[j] = s[j]
      /\ m[n + 1] = MARK
      /\ \A j \in n + 2 .. start + last : m[j] = ZERO
      /\ \A j \in 1 .. r : d[j] = s[start + j]
  BY DEF Holds, Begins
<1> HIDE DEF n, e
<1>5. CASE k <= r
  <2>1. start + k \in 1 .. n /\ k \in 1 .. r
    BY <1>1, <1>2, <1>5
  <2> QED BY <1>3, <1>4, <1>5, <2>1 DEF e
<1>6. CASE k = r + 1
  <2>1. start + k = n + 1
    BY <1>1, <1>6
  <2> QED BY <1>3, <1>4, <1>6, <2>1 DEF e
<1>7. CASE k >= r + 2
  <2>1. start + k \in n + 2 .. start + last
    BY <1>1, <1>2, <1>7
  <2> QED BY <1>3, <1>4, <1>7, <2>1 DEF e
<1> QED BY <1>1, <1>2, <1>5, <1>6, <1>7

\* The length fits behind the mark.
LEMMA ShortEnd ==
  ASSUME NEW s \in Seq(Value), NEW q, NEW start, NEW r, Parts(s, q, start, r), r < LIMIT,
         NEW d, Holds(d, r, s, start)
  PROVE  BlocksOf(Sha256Message(s))
           = Append(BlocksOf(s), Closed(Marked(d, r, LIMIT), Len(s) * BYTE_BITS))
<1> DEFINE n == Len(s)
           m == Sha256Message(s)
           z == LIMIT - 1 - r
           bits == n * BYTE_BITS
           e == Marked(d, r, LIMIT)
           f == Closed(e, bits)
<1>1. /\ n \in Nat /\ q \in Nat /\ r \in Nat /\ start \in Nat /\ n = start + r
      /\ start = q * BLOCK /\ n \div BLOCK = q /\ r = n % BLOCK
  BY DEF Parts
<1>2. (BLOCK - 1 - LENGTH_BYTES - n) % BLOCK = z /\ z \in Nat
  <2> HIDE DEF n
  <2>1. (BLOCK - 1 - LENGTH_BYTES - n) % BLOCK = LIMIT - 1 - r
    BY <1>1, Zeros
  <2> QED BY <1>1, <2>1, LimitFacts
<1>3. /\ m \in Seq(Value) /\ Len(m) = n + 1 + z + LENGTH_BYTES
      /\ \A k \in 1 .. n : m[k] = s[k]
      /\ m[n + 1] = MARK
      /\ \A k \in n + 2 .. n + 1 + z : m[k] = ZERO
      /\ \A k \in n + 2 + z .. n + 1 + z + LENGTH_BYTES :
           m[k] = LengthBytes(bits)[k - (n + 1 + z)]
  <2> HIDE DEF z
  <2> QED BY <1>2, MessageBytes
<1>4. n + 1 + z = start + LIMIT
  <2> HIDE DEF n
  <2> QED BY <1>1, LimitFacts
<1> HIDE DEF m, z
<1>5. Len(m) = start + BLOCK
  <2> HIDE DEF n
  <2>1. n + 1 + z + LENGTH_BYTES = start + LIMIT + LENGTH_BYTES
    BY <1>4
  <2>2. start + LIMIT + LENGTH_BYTES = start + BLOCK
    BY <1>1, LimitFacts
  <2>3. Len(m) = n + 1 + z + LENGTH_BYTES
    BY <1>3
  <2> QED BY <2>1, <2>2, <2>3
<1>6. ASSUME NEW k \in 1 .. BLOCK
      PROVE  m[start + k] = f[k]
  <2>1. f[k] = IF k <= LIMIT THEN e[k] ELSE LengthBytes(bits)[k - LIMIT]
    BY DEF Closed
  <2>2. CASE k <= LIMIT
    <3>1. Begins(m, s, start + LIMIT)
      BY <1>3, <1>4 DEF Begins
    <3>2. m[start + k] = e[k]
      <4> HIDE DEF e, n
      <4>1. m[start + k] = Marked(d, r, LIMIT)[k]
        BY <2>2, <3>1, LimitFacts, MarkBlock
      <4> QED BY <4>1 DEF e
    <3> QED BY <2>1, <2>2, <3>2
  <2>3. CASE k > LIMIT
    <3> HIDE DEF n, f, bits
    <3>1. /\ start + k \in n + 2 + z .. n + 1 + z + LENGTH_BYTES
          /\ (start + k) - (n + 1 + z) = k - LIMIT /\ ~ (k <= LIMIT)
      <4>1. n + 2 + z = start + LIMIT + 1 /\ n + 1 + z + LENGTH_BYTES = start + BLOCK
        BY <1>1, <1>2, <1>4, LimitFacts
      <4>2. /\ start + k \in start + LIMIT + 1 .. start + BLOCK /\ ~ (k <= LIMIT)
            /\ (start + k) - (start + LIMIT) = k - LIMIT
        BY <1>1, <2>3, LimitFacts
      <4> QED BY <1>4, <4>1, <4>2
    <3> QED BY <1>3, <2>1, <3>1
  <2> QED BY <2>2, <2>3, LimitFacts
<1>7. f \in [1 .. BLOCK -> Value]
  <2>1. \A k \in 1 .. BLOCK : start + k \in 1 .. Len(m)
    BY <1>1, <1>5, LimitFacts
  <2>2. \A k \in 1 .. BLOCK : m[start + k] \in Value
    BY <1>3, <2>1, ElementOfSeq
  <2>3. f = [k \in 1 .. BLOCK |-> f[k]]
    BY DEF Closed
  <2> HIDE DEF f
  <2> QED BY <1>6, <2>2, <2>3
<1> HIDE DEF f
<1>8. Len(m) \div BLOCK = q + 1
  <2>1. (q + 1) * BLOCK = start + BLOCK /\ ((q + 1) * BLOCK) \div BLOCK = q + 1
    BY <1>1, Whole
  <2> QED BY <1>5, <2>1
<1>9. /\ Len(s) <= Len(m)
      /\ Len(m) \div BLOCK = (Len(s) \div BLOCK) + 1
      /\ \A k \in 1 .. BLOCK : m[(Len(s) \div BLOCK) * BLOCK + k] = f[k]
  <2>1. n <= Len(m)
    <3> HIDE DEF n
    <3>1. r < BLOCK
      BY DEF Parts
    <3>2. start + r <= start + BLOCK
      BY <1>1, <3>1, LimitFacts
    <3> QED BY <1>1, <1>5, <3>2
  <2> QED BY <1>1, <1>6, <1>8, <2>1
<1>10. BlocksOf(m) = Append(BlocksOf(s), f)
  BY <1>3, <1>7, <1>9, BlocksMore
<1> QED BY <1>10 DEF m, f

\* The length needs a block of its own.
LEMMA LongEnd ==
  ASSUME NEW s \in Seq(Value), NEW q, NEW start, NEW r, Parts(s, q, start, r), r >= LIMIT,
         NEW d, Holds(d, r, s, start)
  PROVE  BlocksOf(Sha256Message(s))
           = Append(Append(BlocksOf(s), Marked(d, r, BLOCK)),
                    Closed(Cleared(Marked(d, r, BLOCK)), Len(s) * BYTE_BITS))
<1> DEFINE n == Len(s)
           m == Sha256Message(s)
           z == BLOCK + LIMIT - 1 - r
           bits == n * BYTE_BITS
           e == Marked(d, r, BLOCK)
           f == Closed(Cleared(e), bits)
           next == start + BLOCK
           t == SubSeq(m, 1, next)
<1>1. /\ n \in Nat /\ q \in Nat /\ r \in Nat /\ start \in Nat /\ n = start + r
      /\ start = q * BLOCK /\ n \div BLOCK = q /\ r = n % BLOCK /\ r < BLOCK
  BY DEF Parts
<1>2. (BLOCK - 1 - LENGTH_BYTES - n) % BLOCK = z /\ z \in Nat
  <2> HIDE DEF n
  <2>1. (BLOCK - 1 - LENGTH_BYTES - n) % BLOCK = BLOCK + LIMIT - 1 - r
    BY <1>1, Zeros
  <2> QED BY <1>1, <2>1, LimitFacts
<1>3. /\ m \in Seq(Value) /\ Len(m) = n + 1 + z + LENGTH_BYTES
      /\ \A k \in 1 .. n : m[k] = s[k]
      /\ m[n + 1] = MARK
      /\ \A k \in n + 2 .. n + 1 + z : m[k] = ZERO
      /\ \A k \in n + 2 + z .. n + 1 + z + LENGTH_BYTES :
           m[k] = LengthBytes(bits)[k - (n + 1 + z)]
  <2> HIDE DEF z
  <2> QED BY <1>2, MessageBytes
<1>4. n + 1 + z = next + LIMIT /\ next \in Nat /\ n <= next /\ n + 1 <= next
  <2> HIDE DEF n
  <2> QED BY <1>1, LimitFacts
<1> HIDE DEF m, z
<1>5. Len(m) = next + BLOCK
  <2> HIDE DEF n
  <2>1. n + 1 + z + LENGTH_BYTES = next + LIMIT + LENGTH_BYTES
    BY <1>4
  <2>2. next + LIMIT + LENGTH_BYTES = next + BLOCK
    BY <1>4, LimitFacts
  <2>3. Len(m) = n + 1 + z + LENGTH_BYTES
    BY <1>3
  <2> QED BY <2>1, <2>2, <2>3
<1>6. ASSUME NEW k \in 1 .. BLOCK
      PROVE  m[start + k] = e[k]
  <2>1. Begins(m, s, next)
    <3> HIDE DEF n, next
    <3>1. \A j \in n + 2 .. next : j \in n + 2 .. n + 1 + z
      BY <1>1, <1>4, LimitFacts
    <3>2. /\ \A j \in 1 .. n : m[j] = s[j]
          /\ m[n + 1] = MARK
          /\ \A j \in n + 2 .. next : m[j] = ZERO
      BY <1>3, <3>1
    <3> QED BY <3>2 DEF Begins, n
  <2>2. k <= BLOCK /\ r < BLOCK
    BY <1>1, LimitFacts
  <2> HIDE DEF e, n
  <2>3. m[start + k] = Marked(d, r, BLOCK)[k]
    BY <2>1, <2>2, LimitFacts, MarkBlock
  <2> QED BY <2>3 DEF e
<1>7. ASSUME NEW k \in 1 .. BLOCK
      PROVE  m[next + k] = f[k]
  <2>1. /\ f[k] = IF k <= LIMIT THEN Cleared(e)[k] ELSE LengthBytes(bits)[k - LIMIT]
        /\ k <= LIMIT => Cleared(e)[k] = ZERO
    BY DEF Closed, Cleared
  <2> HIDE DEF n, f, bits, e, next
  <2>2. CASE k <= LIMIT
    <3>1. next + k \in n + 2 .. n + 1 + z
      BY <1>1, <1>4, <2>2, LimitFacts
    <3> QED BY <1>3, <2>1, <2>2, <3>1
  <2>3. CASE k > LIMIT
    <3>1. n + 2 + z = next + LIMIT + 1 /\ n + 1 + z + LENGTH_BYTES = next + BLOCK
      BY <1>1, <1>2, <1>4, LimitFacts
    <3>2. /\ next + k \in next + LIMIT + 1 .. next + BLOCK /\ ~ (k <= LIMIT)
          /\ (next + k) - (next + LIMIT) = k - LIMIT
      BY <1>4, <2>3, LimitFacts
    <3>3. /\ next + k \in n + 2 + z .. n + 1 + z + LENGTH_BYTES
          /\ (next + k) - (n + 1 + z) = k - LIMIT
      BY <1>4, <3>1, <3>2
    <3> QED BY <1>3, <2>1, <3>2, <3>3
  <2> QED BY <2>2, <2>3, LimitFacts
<1>8. e \in [1 .. BLOCK -> Value] /\ f \in [1 .. BLOCK -> Value]
  <2>1. \A k \in 1 .. BLOCK : start + k \in 1 .. Len(m) /\ next + k \in 1 .. Len(m)
    BY <1>1, <1>5, LimitFacts
  <2>2. \A k \in 1 .. BLOCK : m[start + k] \in Value /\ m[next + k] \in Value
    BY <1>3, <2>1, ElementOfSeq
  <2>3. e = [k \in 1 .. BLOCK |-> e[k]] /\ f = [k \in 1 .. BLOCK |-> f[k]]
    BY DEF Marked, Closed
  <2> HIDE DEF e, f
  <2> QED BY <1>6, <1>7, <2>2, <2>3
<1> HIDE DEF e, f
<1>9. /\ t \in Seq(Value) /\ Len(t) = next
      /\ \A k \in 1 .. next : t[k] = m[k]
  <2>1. next <= Len(m)
    <3> HIDE DEF next
    <3> QED BY <1>4, <1>5, LimitFacts
  <2>2. \A k \in 1 .. next : m[k] \in Value
    <3> HIDE DEF next
    <3>1. \A k \in 1 .. next : k \in 1 .. Len(m)
      BY <1>4, <1>5, LimitFacts
    <3> QED BY <1>3, <3>1, ElementOfSeq
  <2> HIDE DEF next
  <2> QED BY <1>4, <2>1, <2>2, SubSeqProperties
<1> HIDE DEF t
<1>10. /\ next = (q + 1) * BLOCK /\ next + BLOCK = (q + 1 + 1) * BLOCK
       /\ next \div BLOCK = q + 1 /\ (next + BLOCK) \div BLOCK = q + 1 + 1
  <2>1. q + 1 \in Nat /\ q + 1 + 1 \in Nat
    BY <1>1
  <2>2. /\ (q + 1) * BLOCK = next /\ (q + 1 + 1) * BLOCK = next + BLOCK
    BY <1>1, Whole
  <2>3. ((q + 1) * BLOCK) \div BLOCK = q + 1 /\ ((q + 1 + 1) * BLOCK) \div BLOCK = q + 1 + 1
    BY <2>1, Whole
  <2> QED BY <2>2, <2>3
<1>11. BlocksOf(t) = Append(BlocksOf(s), e)
  <2>1. \A k \in 1 .. BLOCK : start + k \in 1 .. next
    BY <1>1, LimitFacts
  <2> HIDE DEF next
  <2>2. /\ Len(s) <= Len(t)
        /\ Len(t) \div BLOCK = (Len(s) \div BLOCK) + 1
    BY <1>1, <1>4, <1>9, <1>10
  <2>3. \A k \in 1 .. Len(s) : t[k] = s[k]
    <3>1. \A k \in 1 .. n : k \in 1 .. next
      <4> HIDE DEF n
      <4> QED BY <1>1, <1>4
    <3> QED BY <1>3, <1>9, <3>1
  <2>4. \A k \in 1 .. BLOCK : t[(Len(s) \div BLOCK) * BLOCK + k] = e[k]
    BY <1>1, <1>6, <1>9, <2>1
  <2>5. Prefix(s, t) /\ BlockAt(t, (Len(s) \div BLOCK) * BLOCK, e)
    BY <2>2, <2>3, <2>4 DEF Prefix, BlockAt
  <2> QED BY <1>8, <1>9, <2>2, <2>5, BlockAppended
<1>12. BlocksOf(m) = Append(BlocksOf(t), f)
  <2> HIDE DEF next
  <2>1. Len(t) <= Len(m)
    BY <1>4, <1>5, <1>9, LimitFacts
  <2>2. Len(m) \div BLOCK = (Len(t) \div BLOCK) + 1
    BY <1>5, <1>9, <1>10
  <2>3. \A k \in 1 .. Len(t) : m[k] = t[k]
    BY <1>9
  <2>4. \A k \in 1 .. BLOCK : m[(Len(t) \div BLOCK) * BLOCK + k] = f[k]
    BY <1>7, <1>9, <1>10
  <2>5. Prefix(t, m) /\ BlockAt(m, (Len(t) \div BLOCK) * BLOCK, f)
    BY <2>1, <2>3, <2>4 DEF Prefix, BlockAt
  <2> QED BY <1>3, <1>8, <1>9, <2>2, <2>5, BlockAppended
<1> QED BY <1>11, <1>12 DEF m, e, f

\* The end of the message.
LEMMA FinalFeeds ==
  ASSUME NEW c, NEW s \in Seq(Value), Feeds(c, s)
  PROVE  sha256_final(c).transformed = BlocksOf(Sha256Message(s))
<1> DEFINE n == Len(s)
           q == n \div BLOCK
           start == q * BLOCK
           d == c.data
           l == c.datalen
           b == c.bitlen
           u == c.transformed
<1>1. /\ n \in Nat /\ q \in Nat /\ l \in 0 .. BLOCK - 1 /\ n = start + l /\ l = n % BLOCK
      /\ start \in Nat /\ BLOCK \in Nat /\ BLOCK > 0 /\ BYTE_BITS \in Nat
  BY Divide, BlockFacts DEF Feeds
<1>2. /\ b = start * BYTE_BITS /\ u = BlocksOf(s) /\ Holds(d, l, s, start)
      /\ c = Fielded(d, l, b, u)
  BY DEF Feeds, Context, Fielded, Holds
<1>3. Parts(s, q, start, l)
  <2>1. l \in Nat /\ l < BLOCK
    <3> HIDE DEF l
    <3> QED BY <1>1
  <2> QED BY <1>1, <2>1 DEF Parts
<1> HIDE DEF q, start, d, l, b, u
<1>4. b + l * BYTE_BITS = Len(s) * BYTE_BITS
  <2>1. \A x, y, w \in Nat : x * w + y * w = (x + y) * w
    OBVIOUS
  <2>2. l \in Nat
    BY <1>1
  <2> QED BY <1>1, <1>2, <2>1, <2>2
<1>5. CASE l < LIMIT
  <2>1. BlocksOf(Sha256Message(s))
          = Append(u, Closed(Marked(d, l, LIMIT), Len(s) * BYTE_BITS))
    BY <1>2, <1>3, <1>5, ShortEnd
  <2>2. sha256_final(c).transformed
          = Append(u, Closed(Marked(d, l, LIMIT), b + l * BYTE_BITS))
    BY <1>2, <1>5, FinalIs
  <2> QED BY <1>4, <2>1, <2>2
<1>6. CASE ~ (l < LIMIT)
  <2>0. l >= LIMIT
    BY <1>1, <1>6, LimitFacts
  <2>1. BlocksOf(Sha256Message(s))
          = Append(Append(u, Marked(d, l, BLOCK)),
                   Closed(Cleared(Marked(d, l, BLOCK)), Len(s) * BYTE_BITS))
    BY <1>2, <1>3, <2>0, LongEnd
  <2>2. sha256_final(c).transformed
          = Append(Append(u, Marked(d, l, BLOCK)),
                   Closed(Cleared(Marked(d, l, BLOCK)), b + l * BYTE_BITS))
    BY <1>2, <1>6, FinalIs
  <2> QED BY <1>4, <2>1, <2>2
<1> QED BY <1>5, <1>6

-----------------------------------------------------------------------------
(* The device.                                                             *)

\* What signature_valid() has read has been fed to SHA-256.
FedSoFar ==
  /\ step \in {"off", "size", "first"} => hashed = << >>
  /\ step # "verify" => Feeds(ctx, hashed)
  /\ HashesAsStandard

DeviceInv == ValidInv /\ FedSoFar

\* sha256_init() is the context of the empty message.
LEMMA InitFeeds == Feeds(sha256_init, << >>)
<1>0. BLOCK \in Nat /\ BLOCK > 0 /\ BYTE_BITS \in Nat
  BY BlockFacts
<1>1. /\ Len(<< >>) = 0 /\ << >> \in Seq(Seq(Value)) /\ << >> \in Seq(Value)
  OBVIOUS
<1>2. 0 \div BLOCK = 0 /\ 0 % BLOCK = 0 /\ 0 \in 0 .. BLOCK - 1
  BY <1>0
<1>3. ERASED \in Value
  BY DEF ERASED, Byte, Value
<1>4. sha256_init = Fielded([k \in 1 .. BLOCK |-> ERASED], 0, 0, << >>)
  BY DEF sha256_init, Fielded
<1>5. /\ sha256_init.datalen = 0 /\ sha256_init.bitlen = 0 /\ sha256_init.transformed = << >>
      /\ sha256_init \in Context
  <2> DEFINE d == [k \in 1 .. BLOCK |-> ERASED]
  <2>1. d \in [1 .. BLOCK -> Value]
    BY <1>3
  <2> HIDE DEF d
  <2>2. Fielded(d, 0, 0, << >>) \in Context
    BY <1>1, <1>2, <2>1 DEF Fielded, Context
  <2> QED BY <1>4, <2>2, Fields DEF d
<1>6. BlocksOf(<< >>) = << >>
  <2>1. /\ BlocksOf(<< >>) \in Seq(Seq(Value)) /\ Len(BlocksOf(<< >>)) = 0
    BY <1>1, <1>2, BlocksType
  <2> QED BY <2>1, EmptySeq
<1>7. 0 * BLOCK * BYTE_BITS = 0
  BY <1>0
<1>8. \A k \in 1 .. 0 : FALSE
  OBVIOUS
<1> QED BY <1>1, <1>2, <1>5, <1>6, <1>7, <1>8 DEF Feeds

\* What was appended is what lies behind the first part.
LEMMA RestOfConcat ==
  ASSUME NEW V, NEW s \in Seq(V), NEW u \in Seq(V)
  PROVE  SubSeq(s \o u, Len(s) + 1, Len(s \o u)) = u
OBVIOUS

\* Every step of signature_valid() goes on with some bytes.
LEMMA VerifyReads ==
  ASSUME flash \in [Addr -> Byte], ValidTypeOK, FedSoFar, VerifyNext
  PROVE  /\ step # "verify" /\ flash' = flash
         /\ \E u \in Seq(Byte) : hashed' = hashed \o u
         /\ step' \in {"size", "first"} => hashed' = << >>
         /\ step' # "off"
<1>1. /\ << >> \in Seq(Byte) /\ hashed \in Seq(Byte) /\ hashed \o << >> = hashed
      /\ siz \in Nat /\ addr \in Nat /\ CHUNK \in Nat
  BY ChunkAssumption DEF ValidTypeOK
<1>2. CASE ReadSize
  BY <1>1, <1>2 DEF ReadSize, FedSoFar
<1>3. CASE HashFirst
  <2>1. hashed = << >> /\ step = "first"
    BY <1>3 DEF HashFirst, FedSoFar
  <2>2. hashed' \in Seq(Byte) /\ step' = "loop" /\ flash' = flash
    BY <1>3, FirstChunk DEF HashFirst
  <2>3. hashed' = hashed \o hashed'
    BY <2>1, <2>2
  <2> QED BY <2>1, <2>2, <2>3
<1>4. CASE HashChunk
  <2>1. ReadBytes(flash, addr, CHUNK) \in Seq(Byte)
    BY <1>1, ReadType
  <2> QED BY <1>4, <2>1 DEF HashChunk
<1>5. CASE HashRest
  <2>1. ReadBytes(flash, addr, siz) \in Seq(Byte)
    BY <1>1, ReadType
  <2> QED BY <1>1, <1>5, <2>1 DEF HashRest
<1> QED BY <1>2, <1>3, <1>4, <1>5 DEF VerifyNext

\* Every step of the device keeps the invariant.
LEMMA DeviceStep ==
  ASSUME DeviceInv, [DeviceNext]_deviceVars
  PROVE  DeviceInv'
<1>1. ValidInv /\ ValidTypeOK /\ FedSoFar /\ flash \in [Addr -> Byte]
  BY DEF DeviceInv, ValidInv, ValidTypeOK
<1>2. ASSUME flash' \in [Addr -> Byte], step' = "off", siz' \in 0 .. SIZE_MOD - 1,
             addr' \in Nat, hashed' = << >>, Feeds(ctx', << >>)
      PROVE  DeviceInv'
  <2>1. ValidTypeOK'
    BY <1>2 DEF ValidTypeOK
  <2>2. HashedSoFar'
    BY <1>2 DEF HashedSoFar
  <2>3. FedSoFar'
    BY <1>2 DEF FedSoFar, HashesAsStandard
  <2> QED BY <2>1, <2>2, <2>3 DEF DeviceInv, ValidInv
<1>3. ASSUME step = "off", flash' \in [Addr -> Byte], UNCHANGED <<verifyVars, ctx>>
      PROVE  DeviceInv'
  <2>1. hashed = << >> /\ Feeds(ctx, << >>)
    BY <1>1, <1>3 DEF FedSoFar
  <2>2. /\ step' = "off" /\ siz' \in 0 .. SIZE_MOD - 1 /\ addr' \in Nat /\ hashed' = << >>
        /\ ctx' = ctx
    BY <1>1, <1>3, <2>1 DEF verifyVars, ValidTypeOK
  <2> QED BY <1>2, <1>3, <2>1, <2>2
<1>4. CASE Receive
  <2>1. PICK r : Handle(r)
    BY <1>4 DEF Receive, HandleRequest
  <2>2. flash' \in [Addr -> Byte]
    BY <1>1, <2>1, HandleKeepsBytes
  <2> QED BY <1>3, <1>4, <2>2 DEF Receive
<1>5. CASE ExpectTimeout
  <2>1. /\ step = "off" /\ step' = "size"
        /\ flash' = flash /\ siz' = siz /\ addr' = addr /\ hashed' = hashed /\ ctx' = ctx
    BY <1>5 DEF ExpectTimeout, handleVars
  <2>2. ValidTypeOK'
    BY <1>1, <2>1 DEF ValidTypeOK
  <2>3. HashedSoFar'
    BY <2>1 DEF HashedSoFar
  <2>4. FedSoFar'
    BY <1>1, <2>1 DEF FedSoFar, HashesAsStandard
  <2> QED BY <2>2, <2>3, <2>4 DEF DeviceInv, ValidInv
<1>6. CASE Verify
  <2>1. VerifyNext /\ Hash
    BY <1>6 DEF Verify
  <2>2. ValidInv'
    BY <1>1, <2>1, ValidStep
  <2>3. /\ step # "verify"
        /\ step' \in {"size", "first"} => hashed' = << >>
        /\ step' # "off"
    BY <1>1, <2>1, VerifyReads
  <2>4. PICK u \in Seq(Byte) : hashed' = hashed \o u
    BY <1>1, <2>1, VerifyReads
  <2>5. hashed \in Seq(Byte) /\ Feeds(ctx, hashed)
    BY <1>1, <2>3 DEF ValidTypeOK, FedSoFar
  <2>6. u \in Seq(Value) /\ hashed \in Seq(Value) /\ hashed' \in Seq(Value)
    <3>1. \A x \in Seq(Byte) : x \in Seq(Value)
      BY DEF Value
    <3>2. hashed \o u \in Seq(Byte)
      BY <2>4, <2>5
    <3> QED BY <2>4, <2>5, <3>1, <3>2
  <2>7. SubSeq(hashed', Len(hashed) + 1, Len(hashed')) = u
    BY <2>4, <2>5, RestOfConcat
  <2> DEFINE updated == sha256_update(ctx, u)
  <2>8. ctx' = IF step' = "verify" THEN sha256_final(updated) ELSE updated
    BY <2>1, <2>7 DEF Hash
  <2>9. Feeds(updated, hashed')
    BY <2>4, <2>5, <2>6, UpdateFeeds
  <2> HIDE DEF updated
  <2>10. step' = "verify" => ctx'.transformed = BlocksOf(Sha256Message(hashed'))
    BY <2>6, <2>8, <2>9, FinalFeeds
  <2>11. step' # "verify" => Feeds(ctx', hashed')
    BY <2>8, <2>9
  <2>12. FedSoFar'
    BY <2>3, <2>10, <2>11 DEF FedSoFar, HashesAsStandard
  <2> QED BY <2>2, <2>12 DEF DeviceInv
<1>7. CASE Restart
  <2>1. flash' = flash /\ Off
    BY <1>7 DEF Restart, handleVars
  <2> QED BY <1>1, <1>2, <2>1, InitFeeds, ChunkAssumption DEF Off
<1>8. CASE Accept
  <2>1. flash' \in [Addr -> Byte]
    BY <1>1, <1>8, SessionKeepsBytes DEF Accept, NewSession
  <2> QED BY <1>3, <1>8, <2>1 DEF Accept
<1>9. CASE UNCHANGED deviceVars
  <2>1. flash' = flash /\ step' = step /\ siz' = siz /\ addr' = addr /\ hashed' = hashed
        /\ ctx' = ctx
    BY <1>9 DEF deviceVars, handleVars, verifyVars
  <2>2. [VerifyNext]_validVars
    BY <2>1 DEF validVars, verifyVars
  <2>3. ValidInv'
    BY <1>1, <2>2, ValidStep
  <2>4. FedSoFar'
    BY <1>1, <2>1 DEF FedSoFar, HashesAsStandard
  <2> QED BY <2>3, <2>4 DEF DeviceInv
<1> QED BY <1>4, <1>5, <1>6, <1>7, <1>8, <1>9 DEF DeviceNext

\* The invariant holds in every state.
LEMMA DeviceInvariance == DeviceSpec => []DeviceInv
<1>1. DeviceInit => DeviceInv
  <2> SUFFICES ASSUME DeviceInit
               PROVE  DeviceInv
    OBVIOUS
  <2>1. flash \in [Addr -> Byte]
    BY BlankType, MemoriesAssumption DEF DeviceInit, HandleInit
  <2>2. step = "off" /\ siz = 0 /\ addr = 0 /\ hashed = << >> /\ ctx = sha256_init
    BY DEF DeviceInit
  <2>3. ValidTypeOK
    BY <2>1, <2>2, ChunkAssumption DEF ValidTypeOK
  <2>4. HashedSoFar
    BY <2>2 DEF HashedSoFar
  <2>5. FedSoFar
    BY <2>2, InitFeeds DEF FedSoFar, HashesAsStandard
  <2> QED BY <2>3, <2>4, <2>5 DEF DeviceInv, ValidInv
<1>2. DeviceInv /\ [DeviceNext]_deviceVars => DeviceInv'
  BY DeviceStep
<1> QED BY <1>1, <1>2, PTL DEF DeviceSpec

(***************************************************************************)
(* What SHA-256 has compressed when signature_valid() compares is the      *)
(* padded message of the standard, for every image, block and chunk        *)
(* (sha256.c:85-144, main.c:208-239).                                      *)
(***************************************************************************)
THEOREM StandardTheorem == DeviceSpec => []HashesAsStandard
<1>1. DeviceInv => HashesAsStandard
  BY DEF DeviceInv, FedSoFar
<1> QED BY <1>1, DeviceInvariance, PTL

(***************************************************************************)
(* And the message is the user code that is in the memory at that time,    *)
(* whatever the sessions before have written (main.c:208-239, 63-129).     *)
(***************************************************************************)
THEOREM DeviceHashesImage == DeviceSpec => []HashesTheImage
<1>1. DeviceInv => HashesTheImage
  BY DEF DeviceInv, ValidInv, HashedSoFar, HashesTheImage, Size
<1> QED BY <1>1, DeviceInvariance, PTL
=============================================================================
