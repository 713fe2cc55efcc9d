------------------------- MODULE WriteFlash_proofs -------------------------
(***************************************************************************)
(* write_flash() for every size of a block, every buffer and every place   *)
(* of it, with a power cut anywhere: what WriteFlash promises of the bytes *)
(* that are programmed.                                                    *)
(*                                                                         *)
(* The argument: the bytes of the buffer from Start to the table pointer   *)
(* are in the holding registers and no others are; those below Start are   *)
(* in the memory.  Start is where the buffer or the current block begins,  *)
(* whichever comes last, so programming the block of the table pointer     *)
(* puts every latched byte in its place.                                   *)
(***************************************************************************)
EXTENDS WriteFlash, SequenceTheorems, TLAPS

\* Where the block of addr begins; the first byte not yet programmed.
Base == addr - (addr % FLASH_BLOCK_SIZ)

Start == call.addr + Flushed

\* What a byte x of the memory is when those of the call up to end are in.
WrittenTo(end, x) ==
  IF x \in call.addr .. end - 1
    THEN before[x] \cap call.buf[x - call.addr + 1]
    ELSE before[x]

LatchesHold ==
  \A j \in 0 .. FLASH_BLOCK_SIZ - 1 :
    holding[j] = IF Base + j \in Start .. addr - 1
                   THEN call.buf[(Base + j) - call.addr + 1]
                   ELSE ERASED

InLoop ==
  /\ addr = call.addr + written /\ TBLPTR = addr
  /\ \A x \in Addr : flash[x] = WrittenTo(Start, x)
  /\ LatchesHold

WriteInv ==
  /\ WriteTypeOK
  /\ pc = "loop" => InLoop
  /\ pc = "idle" => OnlyTheTarget

-----------------------------------------------------------------------------
(* Quotients and remainders.                                               *)

\* Quotient and remainder.
LEMMA DivMod ==
  ASSUME NEW n \in Nat \ {0}, NEW x \in Nat
  PROVE  /\ x \div n \in Nat /\ x % n \in 0 .. n - 1
         /\ x = n * (x \div n) + (x % n)
BY SMT

\* A remainder is at most what is divided.
LEMMA RemainderAtMost ==
  ASSUME NEW n \in Nat \ {0}, NEW x \in Nat
  PROVE  x % n \in Nat /\ x % n <= x
<1> DEFINE q == x \div n
           r == x % n
<1>1. q \in Nat /\ r \in 0 .. n - 1 /\ x = n * q + r
  BY DivMod
<1> HIDE DEF q, r
<1>2. n * q >= 0 /\ n * q \in Int
  BY <1>1, SMT
<1>3. r \in Nat /\ r <= x
  BY <1>1, <1>2
<1> QED BY <1>3 DEF r

\* Multiples of two different numbers are at least one multiple apart.
LEMMA Monotone ==
  ASSUME NEW n \in Nat \ {0}, NEW p \in Int, NEW q \in Int, p < q
  PROVE  n * p + n <= n * q
<1>1. q - p - 1 \in Nat
  OBVIOUS
<1>2. n * (q - p - 1) >= 0
  BY <1>1, SMT
<1>3. n * (q - p - 1) = n * q - n * p - n
  BY SMT
<1> QED BY <1>2, <1>3, SMT

\* A number has one quotient and one remainder.
LEMMA UniqueQuotient ==
  ASSUME NEW n \in Nat \ {0}, NEW p \in Int, NEW q \in Int,
         NEW r \in 0 .. n - 1, NEW s \in 0 .. n - 1,
         n * p + r = n * q + s
  PROVE  p = q /\ r = s
<1>1. ~(p < q)
  BY Monotone
<1>2. ~(q < p)
  BY Monotone
<1> QED BY <1>1, <1>2

\* The remainder of the next number.
LEMMA NextRemainder ==
  ASSUME NEW n \in Nat \ {0}, NEW x \in Nat
  PROVE  /\ x % n = n - 1 => (x + 1) % n = 0
         /\ x % n # n - 1 => (x + 1) % n = (x % n) + 1
<1> DEFINE p == x \div n
           q == (x + 1) \div n
           r == x % n
           s == (x + 1) % n
<1>1. p \in Nat /\ r \in 0 .. n - 1 /\ x = n * p + r
  BY DivMod
<1>2. q \in Nat /\ s \in 0 .. n - 1 /\ x + 1 = n * q + s
  <2>1. x + 1 \in Nat
    OBVIOUS
  <2> QED BY <2>1, DivMod
<1> HIDE DEF p, q, r, s
<1>3. CASE r = n - 1
  <2>1. n * (p + 1) = n * p + n
    BY <1>1, SMT
  <2>2. n * (p + 1) + 0 = n * q + s
    BY <1>1, <1>2, <1>3, <2>1
  <2>3. 0 = s
    BY <2>2, <1>1, <1>2, UniqueQuotient
  <2> QED BY <2>3, <1>3 DEF r, s
<1>4. CASE r # n - 1
  <2>1. n * p + (r + 1) = n * q + s /\ r + 1 \in 0 .. n - 1
    BY <1>1, <1>2, <1>4
  <2>2. r + 1 = s
    BY <2>1, <1>1, <1>2, UniqueQuotient
  <2> QED BY <2>2, <1>4 DEF r, s
<1> QED BY <1>3, <1>4

\* The addresses of one block, and where each is in it.
LEMMA InBlock ==
  ASSUME NEW n \in Nat \ {0}, NEW a \in Nat, NEW x \in Nat
  PROVE  LET base == a - (a % n) IN
           /\ x \div n = a \div n <=> x \in base .. base + n - 1
           /\ x \div n = a \div n => x % n = x - base
<1> DEFINE p == x \div n
           q == a \div n
           r == x % n
           s == a % n
<1>1. p \in Nat /\ r \in 0 .. n - 1 /\ x = n * p + r
  BY DivMod
<1>2. q \in Nat /\ s \in 0 .. n - 1 /\ a = n * q + s
  BY DivMod
<1> HIDE DEF p, q, r, s
<1>3. n * q \in Int /\ n * p \in Int
  BY <1>1, <1>2, SMT
<1>4. p = q => x \in a - s .. a - s + n - 1 /\ r = x - (a - s)
  BY <1>1, <1>2, <1>3
<1>5. x \in a - s .. a - s + n - 1 => p = q
  <2> SUFFICES ASSUME x \in a - s .. a - s + n - 1
               PROVE  p = q
    OBVIOUS
  <2>1. x - n * q \in 0 .. n - 1
    BY <1>2, <1>3
  <2>2. n * p + r = n * q + (x - n * q)
    BY <1>1, <1>3
  <2> QED BY <2>1, <2>2, <1>1, <1>2, UniqueQuotient
<1> QED BY <1>4, <1>5 DEF p, q, r, s

-----------------------------------------------------------------------------
(* What holds of a call.                                                   *)

\* A call writes bytes to places in the memory.
LEMMA CallType ==
  ASSUME WriteTypeOK
  PROVE  /\ call.addr \in Nat /\ Len(call.buf) \in Nat
         /\ call.addr + Len(call.buf) <= TOP
         /\ \A k \in 1 .. Len(call.buf) : call.buf[k] \in Byte
<1>1. call \in Calls /\ call.buf \in Seq(Byte)
  BY CallsAssumption DEF WriteTypeOK
<1> QED BY <1>1, CallsAssumption

\* The block of the address begins at most a block below it.
LEMMA BaseType ==
  ASSUME WriteTypeOK
  PROVE  /\ addr \in Nat /\ addr % FLASH_BLOCK_SIZ \in 0 .. FLASH_BLOCK_SIZ - 1
         /\ Base \in Int /\ Base <= addr /\ addr < Base + FLASH_BLOCK_SIZ
<1>1. addr \in Nat /\ FLASH_BLOCK_SIZ \in Nat \ {0}
  BY CallsAssumption, TopAssumption DEF WriteTypeOK
<1>2. addr % FLASH_BLOCK_SIZ \in 0 .. FLASH_BLOCK_SIZ - 1
  BY <1>1, DivMod
<1> QED BY <1>1, <1>2 DEF Base

\* While there are bytes left, Start is the later of two beginnings.
LEMMA StartIs ==
  ASSUME WriteTypeOK, pc = "loop", addr = call.addr + written
  PROVE  /\ Start \in Nat /\ call.addr <= Start /\ Start <= addr
         /\ written # Len(call.buf) =>
              Start = IF Base < call.addr THEN call.addr ELSE Base
         /\ written = Len(call.buf) => Start = addr
<1>1. call.addr \in Nat /\ Len(call.buf) \in Nat /\ written \in 0 .. Len(call.buf)
  BY CallType DEF WriteTypeOK
<1>2. addr % FLASH_BLOCK_SIZ \in Nat /\ addr % FLASH_BLOCK_SIZ <= addr
  BY BaseType, RemainderAtMost, CallsAssumption
<1> DEFINE r == addr % FLASH_BLOCK_SIZ
<1>3. Base = addr - r
  BY DEF Base
<1>4. Flushed = IF written = Len(call.buf) THEN written ELSE IF written > r THEN written - r ELSE 0
  BY DEF Flushed
<1>5. r \in Nat /\ r <= addr /\ addr = call.addr + written
  BY <1>2
<1> HIDE DEF r
<1>6. CASE written = Len(call.buf)
  BY <1>1, <1>3, <1>4, <1>5, <1>6 DEF Start
<1>7. CASE written # Len(call.buf) /\ written > r
  BY <1>1, <1>3, <1>4, <1>5, <1>7 DEF Start
<1>8. CASE written # Len(call.buf) /\ ~(written > r)
  BY <1>1, <1>3, <1>4, <1>5, <1>8 DEF Start
<1> QED BY <1>6, <1>7, <1>8

\* What the registers hold with the byte that is latched next.
LEMMA LatchedHold ==
  ASSUME WriteTypeOK, pc = "loop", InLoop, written # Len(call.buf)
  PROVE  /\ Latched \in [0 .. FLASH_BLOCK_SIZ - 1 -> Byte]
         /\ \A j \in 0 .. FLASH_BLOCK_SIZ - 1 :
              Latched[j] = IF Base + j \in Start .. addr
                             THEN call.buf[(Base + j) - call.addr + 1]
                             ELSE ERASED
<1>1. /\ call.addr \in Nat /\ written \in 0 .. Len(call.buf) - 1 /\ Len(call.buf) \in Nat
      /\ addr = call.addr + written /\ TBLPTR = addr /\ call.buf[written + 1] \in Byte
  BY CallType DEF WriteTypeOK, InLoop
<1>2. /\ Start \in Nat /\ Start <= addr
  BY StartIs, <1>1
<1>3. holding \in [0 .. FLASH_BLOCK_SIZ - 1 -> Byte]
  BY DEF WriteTypeOK
<1>4. Latched = [holding EXCEPT ![addr % FLASH_BLOCK_SIZ] = call.buf[written + 1]]
  BY <1>1 DEF Latched
<1>5. Latched \in [0 .. FLASH_BLOCK_SIZ - 1 -> Byte]
  BY <1>1, <1>3, <1>4
<1>6. ASSUME NEW j \in 0 .. FLASH_BLOCK_SIZ - 1
      PROVE  Latched[j] = IF Base + j \in Start .. addr
                            THEN call.buf[(Base + j) - call.addr + 1]
                            ELSE ERASED
  <2>1. /\ FLASH_BLOCK_SIZ \in Nat /\ addr \in Nat
        /\ addr % FLASH_BLOCK_SIZ \in 0 .. FLASH_BLOCK_SIZ - 1
    BY BaseType, CallsAssumption
  <2>0. /\ Base \in Int
        /\ \A k \in Int : Base + k = addr <=> k = addr % FLASH_BLOCK_SIZ
    <3> DEFINE r == addr % FLASH_BLOCK_SIZ
    <3>1. Base = addr - r /\ r \in Int
      BY <2>1 DEF Base
    <3> HIDE DEF r
    <3>2. Base \in Int /\ \A k \in Int : Base + k = addr <=> k = r
      BY <3>1, <2>1
    <3> QED BY <3>2 DEF r
  <2>2. CASE j = addr % FLASH_BLOCK_SIZ
    <3>1. /\ Base + j = addr
          /\ (Base + j) - call.addr + 1 = written + 1
      <4>1. Base + j = addr
        BY <2>0, <2>1, <2>2
      <4>2. addr - call.addr + 1 = written + 1
        BY <1>1
      <4>3. Base \in Int /\ j \in Int
        BY <2>0
      <4> HIDE DEF Base
      <4> QED BY <4>1, <4>2, <4>3, <1>1
    <3>2. Latched[j] = call.buf[written + 1]
      BY <1>3, <1>4, <2>2
    <3>3. Base + j \in Start .. addr
      BY <3>1, <1>1, <1>2
    <3> QED BY <3>1, <3>2, <3>3
  <2>3. CASE j # addr % FLASH_BLOCK_SIZ
    <3>1. Base + j # addr /\ Base + j \in Int
      BY <2>0, <2>3, <1>1
    <3>2. Latched[j] = holding[j]
      BY <1>3, <1>4, <2>3
    <3>3. Base + j \in Start .. addr <=> Base + j \in Start .. addr - 1
      BY <3>1, <1>1, <1>2
    <3>4. holding[j] = IF Base + j \in Start .. addr - 1
                         THEN call.buf[(Base + j) - call.addr + 1]
                         ELSE ERASED
      BY DEF InLoop, LatchesHold
    <3> QED BY <3>2, <3>3, <3>4
  <2> QED BY <2>2, <2>3
<1> QED BY <1>5, <1>6

\* Programming the block of the table pointer from registers as large as the
\* latched ones, and not larger than 0xFF, touches the latched bytes only.
LEMMA ProgrammedBytes ==
  ASSUME WriteTypeOK, pc = "loop", InLoop, written # Len(call.buf),
         NEW torn \in [0 .. FLASH_BLOCK_SIZ - 1 -> Byte],
         \A j \in 0 .. FLASH_BLOCK_SIZ - 1 : Latched[j] \subseteq torn[j]
  PROVE  /\ Programmed(torn) \in [Addr -> Byte]
         /\ \A x \in Addr :
              Programmed(torn)[x] =
                IF x \in Start .. addr THEN flash[x] \cap torn[x - Base] ELSE flash[x]
<1>1. flash \in [Addr -> Byte] /\ addr \in Nat /\ TBLPTR = addr /\ FLASH_BLOCK_SIZ \in Nat \ {0}
  BY BaseType, CallsAssumption DEF WriteTypeOK, InLoop
<1>2. Start \in Nat /\ Start <= addr /\ Base <= Start /\ addr < Base + FLASH_BLOCK_SIZ /\ Base \in Int
  BY StartIs, BaseType, CallType DEF InLoop
<1>3. ASSUME NEW x \in Addr
      PROVE  /\ Programmed(torn)[x] \in Byte
             /\ Programmed(torn)[x] =
                  IF x \in Start .. addr THEN flash[x] \cap torn[x - Base] ELSE flash[x]
  <2>0. x \in Nat
    BY TopAssumption DEF Addr
  <2>1. Programmed(torn)[x] =
          IF x \div FLASH_BLOCK_SIZ = addr \div FLASH_BLOCK_SIZ
            THEN flash[x] \cap torn[x % FLASH_BLOCK_SIZ] ELSE flash[x]
    BY <1>1 DEF Programmed
  <2>2. x \in Base .. Base + FLASH_BLOCK_SIZ - 1 <=>
          x \div FLASH_BLOCK_SIZ = addr \div FLASH_BLOCK_SIZ
    BY <1>1, <2>0, InBlock DEF Base
  <2>3. x \in Base .. Base + FLASH_BLOCK_SIZ - 1 =>
          x % FLASH_BLOCK_SIZ = x - Base
    BY <1>1, <2>0, <2>2, InBlock DEF Base
  <2>4. flash[x] \in Byte
    BY <1>1
  <2>5. CASE x \in Start .. addr
    <3>1. x \in Base .. Base + FLASH_BLOCK_SIZ - 1
      BY <2>5, <1>1, <1>2, <2>0
    <3> QED BY <3>1, <2>1, <2>2, <2>3, <2>4, <2>5 DEF Byte
  <2>6. CASE x \notin Start .. addr /\ x \in Base .. Base + FLASH_BLOCK_SIZ - 1
    <3> DEFINE j == x - Base
    <3>1. j \in 0 .. FLASH_BLOCK_SIZ - 1 /\ Base + j = x
      BY <2>6, <1>1, <1>2, <2>0
    <3>2. Latched[j] = ERASED
      BY <3>1, <2>6, LatchedHold
    <3>3. torn[j] = Bits
      BY <3>1, <3>2 DEF ERASED, Byte
    <3>4. Programmed(torn)[x] = flash[x] \cap torn[j]
      BY <2>1, <2>2, <2>3, <2>6
    <3> QED BY <3>3, <3>4, <2>4, <2>6 DEF Byte
  <2>7. CASE x \notin Base .. Base + FLASH_BLOCK_SIZ - 1
    <3>1. x \notin Start .. addr
      BY <2>7, <1>1, <1>2, <2>0
    <3> QED BY <3>1, <2>7, <2>1, <2>2, <2>4
  <2> QED BY <2>5, <2>6, <2>7
<1>4. Programmed(torn) = [x \in Addr |-> Programmed(torn)[x]]
  BY <1>1 DEF Programmed
<1> QED BY <1>3, <1>4

\* A memory that holds some of the buffer is changed in its place only.
LEMMA SomeOfTheBuffer ==
  ASSUME WriteTypeOK, pc = "loop", InLoop
  PROVE  OnlyTheTarget
<1>1. /\ call.addr \in Nat /\ Len(call.buf) \in Nat
      /\ written \in 0 .. Len(call.buf) /\ addr = call.addr + written
      /\ Start \in Nat /\ Start <= addr
  BY CallType, StartIs DEF WriteTypeOK, InLoop
<1>2. ASSUME NEW x \in Addr
      PROVE  IF x \in call.addr .. call.addr + Len(call.buf) - 1
               THEN /\ flash[x] \subseteq before[x]
                    /\ before[x] \cap call.buf[x - call.addr + 1] \subseteq flash[x]
               ELSE flash[x] = before[x]
  <2>1. flash[x] = IF x \in call.addr .. Start - 1
                     THEN before[x] \cap call.buf[x - call.addr + 1]
                     ELSE before[x]
    BY DEF InLoop, WrittenTo
  <2>2. x \in call.addr .. Start - 1 =>
          x \in call.addr .. call.addr + Len(call.buf) - 1
    BY <1>1
  <2> QED BY <2>1, <2>2
<1> QED BY <1>2 DEF OnlyTheTarget

-----------------------------------------------------------------------------
(* The steps.                                                              *)

\* A call establishes the invariant.
LEMMA CallStep ==
  ASSUME WriteInv, NEW c \in Calls, Call(c)
  PROVE  WriteInv'
<1>1. /\ c.addr \in Nat /\ c.buf \in Seq(Byte) /\ Len(c.buf) \in Nat
      /\ c.addr + Len(c.buf) <= TOP /\ TOP \in Nat
  BY CallsAssumption, TopAssumption
<1>2. /\ pc' = "loop" /\ call' = c /\ before' = flash /\ flash' = flash
      /\ written' = 0 /\ addr' = c.addr /\ TBLPTR' = c.addr
      /\ holding' = NoLatch /\ holding' \in [0 .. FLASH_BLOCK_SIZ - 1 -> Byte]
  BY DEF Call, WriteInv, WriteTypeOK
<1>3. WriteTypeOK'
  BY <1>1, <1>2 DEF WriteInv, WriteTypeOK
<1>4. Start' = c.addr
  <2>1. c.addr % FLASH_BLOCK_SIZ \in Nat
    <3>1. FLASH_BLOCK_SIZ \in Nat \ {0}
      BY CallsAssumption
    <3> QED BY <1>1, <3>1, RemainderAtMost
  <2>2. Flushed' = 0
    BY <2>1, <1>1, <1>2 DEF Flushed
  <2> QED BY <2>2, <1>1, <1>2 DEF Start
<1>5. \A x \in Addr : flash'[x] = WrittenTo(Start, x)'
  BY <1>1, <1>2, <1>4 DEF WrittenTo
<1>6. LatchesHold'
  BY <1>1, <1>2, <1>4 DEF LatchesHold, NoLatch
<1>7. InLoop'
  BY <1>1, <1>2, <1>5, <1>6 DEF InLoop
<1> QED BY <1>2, <1>3, <1>7 DEF WriteInv

\* The invariant holds when one more byte has been latched.
LEMMA LatchStep ==
  ASSUME WriteInv, LatchByte
  PROVE  WriteInv'
<1>1. /\ pc = "loop" /\ InLoop /\ WriteTypeOK
      /\ flash' = flash /\ pc' = pc /\ call' = call /\ before' = before
      /\ written' = written + 1 /\ addr' = addr + 1 /\ TBLPTR' = TBLPTR + 1
      /\ holding' = Latched
  BY DEF LatchByte, NextByte, WriteInv
<1>2. /\ call.addr \in Nat /\ Len(call.buf) \in Nat /\ TOP \in Nat
      /\ call.addr + Len(call.buf) <= TOP
      /\ written \in Nat /\ written <= Len(call.buf)
      /\ addr \in Nat /\ addr = call.addr + written /\ TBLPTR = addr
  BY <1>1, CallType, TopAssumption DEF InLoop, WriteTypeOK
<1>0. FLASH_BLOCK_SIZ \in Nat \ {0}
  BY CallsAssumption
<1>3. /\ written < Len(call.buf) /\ written # Len(call.buf) - 1
      /\ (addr + 1) % FLASH_BLOCK_SIZ # 0
  BY DEF LatchByte, BlockComplete
<1>4. /\ Latched \in [0 .. FLASH_BLOCK_SIZ - 1 -> Byte]
      /\ \A j \in 0 .. FLASH_BLOCK_SIZ - 1 :
           Latched[j] = IF Base + j \in Start .. addr
                          THEN call.buf[(Base + j) - call.addr + 1]
                          ELSE ERASED
  BY <1>1, <1>2, <1>3, LatchedHold
<1>5. WriteTypeOK'
  <2>1. /\ written' \in 0 .. Len(call'.buf)
        /\ addr' \in 0 .. TOP /\ TBLPTR' \in 0 .. TOP
    <3>1. written + 1 \in 0 .. Len(call.buf) /\ addr + 1 \in 0 .. TOP
      BY <1>2, <1>3
    <3> QED BY <3>1, <1>1, <1>2
  <2> QED BY <2>1, <1>1, <1>4 DEF WriteTypeOK
<1>6. (addr + 1) % FLASH_BLOCK_SIZ = (addr % FLASH_BLOCK_SIZ) + 1
  <2>1. addr % FLASH_BLOCK_SIZ # FLASH_BLOCK_SIZ - 1
    BY <1>0, <1>2, <1>3, NextRemainder
  <2> QED BY <1>0, <1>2, <2>1, NextRemainder
<1>7. Base' = Base /\ Start' = Start
  <2> DEFINE r == addr % FLASH_BLOCK_SIZ
  <2>1. r \in Nat /\ (addr + 1) % FLASH_BLOCK_SIZ = r + 1
    BY <1>0, <1>2, <1>6, RemainderAtMost
  <2>2. /\ Base = addr - r
        /\ Flushed = IF written = Len(call.buf) THEN written ELSE IF written > r THEN written - r ELSE 0
    BY DEF Base, Flushed
  <2>3. addr' % FLASH_BLOCK_SIZ = r + 1
    BY <1>1, <2>1
  <2>4. Base' = (addr + 1) - (r + 1)
    BY <1>1, <2>3 DEF Base
  <2>5. Flushed' = IF written + 1 = Len(call.buf) THEN written + 1
                   ELSE IF written + 1 > r + 1 THEN (written + 1) - (r + 1) ELSE 0
    BY <1>1, <2>3 DEF Flushed
  <2>6. r \in Nat
    BY <2>1
  <2> HIDE DEF r
  <2>7. Base' = Base
    <3>1. \A a, b \in Int : (a + 1) - (b + 1) = a - b
      OBVIOUS
    <3>2. addr \in Int /\ r \in Int
      BY <2>6, <1>2
    <3>3. (addr + 1) - (r + 1) = addr - r
      BY <3>1, <3>2
    <3> QED BY <3>3, <2>2, <2>4
  <2>8. Flushed' = Flushed
    BY SMTT(30), <2>2, <2>5, <2>6, <1>2, <1>3
  <2> QED BY <2>7, <2>8, <1>1 DEF Start
<1>8. LatchesHold'
  <2>1. addr' - 1 = addr
    BY <1>1, <1>2
  <2> QED BY <2>1, <1>1, <1>4, <1>7 DEF LatchesHold
<1>9. \A x \in Addr : flash'[x] = WrittenTo(Start, x)'
  BY <1>1, <1>7 DEF InLoop, WrittenTo
<1>10. InLoop'
  BY SMTT(30), <1>1, <1>2, <1>8, <1>9 DEF InLoop
<1> QED BY <1>1, <1>5, <1>10 DEF WriteInv

\* The invariant holds when a block has been programmed.
LEMMA ProgramStep ==
  ASSUME WriteInv, Program
  PROVE  WriteInv'
<1>1. /\ pc = "loop" /\ InLoop /\ WriteTypeOK
      /\ flash' = Programmed(Latched) /\ pc' = pc /\ call' = call /\ before' = before
      /\ written' = written + 1 /\ addr' = addr + 1 /\ TBLPTR' = TBLPTR + 1
      /\ holding' = NoLatch
  BY DEF Program, NextByte, WriteInv
<1>2. /\ call.addr \in Nat /\ Len(call.buf) \in Nat /\ TOP \in Nat
      /\ call.addr + Len(call.buf) <= TOP
      /\ written \in Nat /\ written <= Len(call.buf)
      /\ addr \in Nat /\ addr = call.addr + written /\ TBLPTR = addr
  BY <1>1, CallType, TopAssumption DEF InLoop, WriteTypeOK
<1>0. FLASH_BLOCK_SIZ \in Nat \ {0}
  BY CallsAssumption
<1>3. /\ written < Len(call.buf)
      /\ \/ (addr + 1) % FLASH_BLOCK_SIZ = 0
         \/ written = Len(call.buf) - 1
  BY DEF Program, BlockComplete
<1>4. /\ Latched \in [0 .. FLASH_BLOCK_SIZ - 1 -> Byte]
      /\ \A j \in 0 .. FLASH_BLOCK_SIZ - 1 :
           Latched[j] = IF Base + j \in Start .. addr
                          THEN call.buf[(Base + j) - call.addr + 1]
                          ELSE ERASED
  <2>1. written # Len(call.buf)
    BY <1>2, <1>3
  <2> QED BY <2>1, <1>1, LatchedHold
<1>5. /\ flash' \in [Addr -> Byte]
      /\ \A x \in Addr :
           flash'[x] = IF x \in Start .. addr THEN flash[x] \cap Latched[x - Base]
                       ELSE flash[x]
  <2>1. written # Len(call.buf)
    BY <1>2, <1>3
  <2>2. \A j \in 0 .. FLASH_BLOCK_SIZ - 1 : Latched[j] \subseteq Latched[j]
    OBVIOUS
  <2> HIDE DEF Latched, Programmed, Start, Base
  <2> QED BY <2>1, <2>2, <1>1, <1>4, ProgrammedBytes
<1>6. WriteTypeOK'
  <2>1. /\ written' \in 0 .. Len(call'.buf)
        /\ addr' \in 0 .. TOP /\ TBLPTR' \in 0 .. TOP
    <3>1. written + 1 \in 0 .. Len(call.buf) /\ addr + 1 \in 0 .. TOP
      BY <1>2, <1>3
    <3> QED BY <3>1, <1>1, <1>2
  <2>2. NoLatch \in [0 .. FLASH_BLOCK_SIZ - 1 -> Byte]
    BY DEF NoLatch, ERASED, Byte
  <2> QED BY <2>1, <2>2, <1>1, <1>5 DEF WriteTypeOK
<1>7. Start' = addr + 1
  <2>2. Flushed' = written + 1
    <3>1. CASE written = Len(call.buf) - 1
      <4>1. written' = Len(call'.buf)
        BY <3>1, <1>1, <1>2
      <4> QED BY <4>1, <1>1 DEF Flushed
    <3>2. CASE (addr + 1) % FLASH_BLOCK_SIZ = 0
      <4>1. addr' % FLASH_BLOCK_SIZ = 0
        BY <3>2, <1>1
      <4>2. written' > 0 /\ written' - 0 = written' /\ written' = written + 1
        BY <1>1, <1>2
      <4>3. Flushed' = IF written' = Len(call'.buf) THEN written'
                       ELSE IF written' > 0 THEN written' - 0 ELSE 0
        BY <4>1 DEF Flushed
      <4> QED BY <4>2, <4>3
    <3> QED BY <3>1, <3>2, <1>3
  <2> QED BY <2>2, <1>1, <1>2 DEF Start
<1>8. /\ Start \in Nat /\ call.addr <= Start /\ Start <= addr
      /\ Base \in Int /\ Base <= Start /\ addr < Base + FLASH_BLOCK_SIZ
  BY <1>1, <1>2, <1>3, StartIs, BaseType
<1>9. ASSUME NEW x \in Addr
      PROVE  flash'[x] = IF x \in call.addr .. addr
                           THEN before[x] \cap call.buf[x - call.addr + 1]
                           ELSE before[x]
  <2>1. x \in Nat /\ addr \in Nat
    BY <1>2, TopAssumption DEF Addr
  <2>2. flash[x] = IF x \in call.addr .. Start - 1
                     THEN before[x] \cap call.buf[x - call.addr + 1]
                     ELSE before[x]
    BY <1>1 DEF InLoop, WrittenTo
  <2>3. CASE x \in Start .. addr
    <3> DEFINE j == x - Base
    <3>1. j \in 0 .. FLASH_BLOCK_SIZ - 1 /\ Base + j = x
      BY <2>1, <2>3, <1>0, <1>2, <1>8
    <3> HIDE DEF j
    <3>2. Latched[j] = call.buf[x - call.addr + 1]
      <4>1. Latched[j] = IF Base + j \in Start .. addr
                           THEN call.buf[(Base + j) - call.addr + 1]
                           ELSE ERASED
        BY <3>1, <1>4
      <4>2. Base + j \in Start .. addr /\ (Base + j) - call.addr + 1 = x - call.addr + 1
        BY <3>1, <2>3
      <4> QED BY <4>1, <4>2
    <3> USE DEF j
    <3>3. flash'[x] = flash[x] \cap Latched[j]
      BY <2>3, <1>5
    <3>4. flash[x] = before[x] /\ x \in call.addr .. addr
      BY <2>1, <2>2, <2>3, <1>2, <1>8
    <3> QED BY <3>2, <3>3, <3>4
  <2>4. CASE x \notin Start .. addr
    <3>1. x \in call.addr .. addr <=> x \in call.addr .. Start - 1
      BY <2>1, <2>4, <1>2, <1>8
    <3> QED BY <3>1, <2>2, <2>4, <1>5
  <2> QED BY <2>3, <2>4
<1>10. \A x \in Addr : flash'[x] = WrittenTo(Start, x)'
  <2>1. Start' - 1 = addr
    BY <1>2, <1>7
  <2> SUFFICES ASSUME NEW x \in Addr
               PROVE  flash'[x] = WrittenTo(Start, x)'
    OBVIOUS
  <2>2. flash'[x] = IF x \in call.addr .. addr
                      THEN before[x] \cap call.buf[x - call.addr + 1]
                      ELSE before[x]
    BY <1>9
  <2>3. WrittenTo(Start, x)' = IF x \in call'.addr .. Start' - 1
                                 THEN before'[x] \cap call'.buf[x - call'.addr + 1]
                                 ELSE before'[x]
    BY DEF WrittenTo
  <2> QED BY <2>1, <2>2, <2>3, <1>1
<1>11. LatchesHold'
  <2>2. Start' .. addr' - 1 = {}
    BY <1>1, <1>2, <1>7
  <2> QED BY <2>2, <1>1 DEF LatchesHold, NoLatch
<1>12. InLoop'
  BY SMTT(30), <1>1, <1>2, <1>10, <1>11 DEF InLoop
<1> QED BY <1>1, <1>6, <1>12 DEF WriteInv

\* The invariant holds at the return.
LEMMA ReturnStep ==
  ASSUME WriteInv, Return
  PROVE  WriteInv'
<1>1. /\ pc = "loop" /\ InLoop /\ WriteTypeOK /\ written = Len(call.buf)
      /\ flash' = flash /\ call' = call /\ before' = before
      /\ pc' = "idle" /\ written' = 0 /\ addr' = 0 /\ TBLPTR' = 0
      /\ holding' = holding
  BY DEF Return, WriteInv
<1>2. Start = addr /\ addr \in Nat
  BY <1>1, StartIs, BaseType DEF InLoop
<1>3. holding = NoLatch
  <2>1. Start .. addr - 1 = {}
    BY <1>2
  <2>2. \A j \in 0 .. FLASH_BLOCK_SIZ - 1 : holding[j] = ERASED
    BY <1>1, <2>1 DEF InLoop, LatchesHold
  <2> QED BY <1>1, <2>2 DEF WriteTypeOK, NoLatch
<1>4. WriteTypeOK'
  <2>1. Len(call.buf) \in Nat /\ TOP \in Nat
    BY <1>1, CallType, TopAssumption
  <2>2. 0 \in 0 .. Len(call.buf) /\ 0 \in 0 .. TOP
    BY <2>1
  <2> QED BY <2>2, <1>1, <1>3 DEF WriteTypeOK, NoLatch
<1>5. OnlyTheTarget'
  BY <1>1, SomeOfTheBuffer DEF OnlyTheTarget
<1> QED BY <1>1, <1>4, <1>5 DEF WriteInv

\* A torn block has each latched byte in part and nothing else.
LEMMA TornBlock ==
  ASSUME WriteTypeOK, pc = "loop", InLoop, written # Len(call.buf),
         NEW torn \in [0 .. FLASH_BLOCK_SIZ - 1 -> Byte],
         \A j \in 0 .. FLASH_BLOCK_SIZ - 1 : Latched[j] \subseteq torn[j],
         flash' = Programmed(torn), call' = call, before' = before
  PROVE  flash' \in [Addr -> Byte] /\ OnlyTheTarget'
<1>1. /\ flash' \in [Addr -> Byte]
      /\ \A x \in Addr :
           flash'[x] = IF x \in Start .. addr THEN flash[x] \cap torn[x - Base]
                       ELSE flash[x]
  BY ProgrammedBytes
<1>2. /\ call.addr \in Nat /\ Len(call.buf) \in Nat
      /\ written \in Nat /\ written < Len(call.buf)
      /\ addr \in Nat /\ addr = call.addr + written
  BY CallType DEF InLoop, WriteTypeOK
<1>3. /\ Start \in Nat /\ call.addr <= Start /\ Start <= addr
      /\ Base \in Int /\ Base <= Start /\ addr < Base + FLASH_BLOCK_SIZ
  BY <1>2, StartIs, BaseType
<1>4. \A j \in 0 .. FLASH_BLOCK_SIZ - 1 :
        Latched[j] = IF Base + j \in Start .. addr
                       THEN call.buf[(Base + j) - call.addr + 1]
                       ELSE ERASED
  BY LatchedHold
<1>0. FLASH_BLOCK_SIZ \in Nat
  BY CallsAssumption
<1>5. ASSUME NEW x \in Addr
      PROVE  IF x \in call.addr .. call.addr + Len(call.buf) - 1
               THEN /\ flash'[x] \subseteq before[x]
                    /\ before[x] \cap call.buf[x - call.addr + 1] \subseteq flash'[x]
               ELSE flash'[x] = before[x]
  <2>1. x \in Nat
    BY TopAssumption DEF Addr
  <2>2. flash[x] = IF x \in call.addr .. Start - 1
                     THEN before[x] \cap call.buf[x - call.addr + 1]
                     ELSE before[x]
    BY DEF InLoop, WrittenTo
  <2>3. CASE x \in Start .. addr
    <3> DEFINE j == x - Base
    <3>1. j \in 0 .. FLASH_BLOCK_SIZ - 1 /\ Base + j = x
      BY <2>1, <2>3, <1>0, <1>2, <1>3
    <3>2. flash'[x] = flash[x] \cap torn[j]
      BY <2>3, <1>1
    <3> HIDE DEF j
    <3>3. Latched[j] = IF Base + j \in Start .. addr
                         THEN call.buf[(Base + j) - call.addr + 1]
                         ELSE ERASED
      BY <3>1, <1>4
    <3>4. call.buf[x - call.addr + 1] \subseteq torn[j]
      <4>1. Base + j \in Start .. addr /\ (Base + j) - call.addr + 1 = x - call.addr + 1
        BY <3>1, <2>3
      <4> QED BY <4>1, <3>1, <3>3
    <3>5. flash[x] = before[x]
      BY <2>1, <2>2, <2>3, <1>2, <1>3
    <3>6. x \in call.addr .. call.addr + Len(call.buf) - 1
      BY <2>1, <2>3, <1>2, <1>3
    <3> QED BY <3>2, <3>4, <3>5, <3>6
  <2>4. CASE x \notin Start .. addr
    <3>1. flash'[x] = flash[x]
      BY <2>4, <1>1
    <3>2. x \in call.addr .. Start - 1 =>
            x \in call.addr .. call.addr + Len(call.buf) - 1
      BY <2>1, <1>2, <1>3
    <3> QED BY <3>1, <3>2, <2>2
  <2> QED BY <2>3, <2>4
<1> QED BY <1>1, <1>5 DEF OnlyTheTarget

\* The invariant holds after a power cut, wherever it tears the block.
LEMMA PowerCutStep ==
  ASSUME WriteInv, PowerCut
  PROVE  WriteInv'
<1>1. /\ pc = "loop" /\ InLoop /\ WriteTypeOK
      /\ call' = call /\ before' = before
      /\ pc' = "idle" /\ written' = 0 /\ addr' = 0 /\ TBLPTR' = 0
      /\ holding' = NoLatch
  BY DEF PowerCut, WriteInv
<1>2. flash' \in [Addr -> Byte] /\ OnlyTheTarget'
  <2>1. CASE UNCHANGED flash
    BY <2>1, <1>1, SomeOfTheBuffer DEF OnlyTheTarget, WriteTypeOK
  <2>2. CASE /\ written < Len(call.buf) /\ BlockComplete
             /\ \E torn \in [0 .. FLASH_BLOCK_SIZ - 1 -> Byte] :
                  /\ \A j \in DOMAIN torn : Latched[j] \subseteq torn[j]
                  /\ flash' = Programmed(torn)
    <3>1. PICK torn \in [0 .. FLASH_BLOCK_SIZ - 1 -> Byte] :
            /\ \A j \in DOMAIN torn : Latched[j] \subseteq torn[j]
            /\ flash' = Programmed(torn)
      BY <2>2
    <3>2. written # Len(call.buf)
      BY <2>2, <1>1, CallType DEF WriteTypeOK
    <3>3. \A j \in 0 .. FLASH_BLOCK_SIZ - 1 : Latched[j] \subseteq torn[j]
      BY <3>1
    <3> QED BY <3>1, <3>2, <3>3, <1>1, TornBlock
  <2> QED BY <2>1, <2>2 DEF PowerCut
<1>3. WriteTypeOK'
  <2>1. Len(call.buf) \in Nat /\ TOP \in Nat
    BY <1>1, CallType, TopAssumption
  <2>2. 0 \in 0 .. Len(call.buf) /\ 0 \in 0 .. TOP
    BY <2>1
  <2>3. NoLatch \in [0 .. FLASH_BLOCK_SIZ - 1 -> Byte]
    BY DEF NoLatch, ERASED, Byte
  <2> QED BY <2>2, <2>3, <1>1, <1>2 DEF WriteTypeOK
<1> QED BY <1>1, <1>2, <1>3 DEF WriteInv

-----------------------------------------------------------------------------
(* The theorems.                                                           *)

\* WriteInv holds initially.
LEMMA InitInv == WriteInit => WriteInv
<1> SUFFICES ASSUME WriteInit PROVE WriteInv
  OBVIOUS
<1>1. call \in Calls /\ Len(call.buf) \in Nat /\ TOP \in Nat
  BY CallsAssumption, TopAssumption DEF WriteInit
<1>2. WriteTypeOK
  <2>1. 0 \in 0 .. Len(call.buf) /\ 0 \in 0 .. TOP
    BY <1>1
  <2>2. NoLatch \in [0 .. FLASH_BLOCK_SIZ - 1 -> Byte]
    BY DEF NoLatch, ERASED, Byte
  <2> QED BY <2>1, <2>2 DEF WriteInit, WriteTypeOK
<1>3. OnlyTheTarget
  BY DEF WriteInit, OnlyTheTarget
<1> QED BY <1>2, <1>3 DEF WriteInit, WriteInv

\* Each step keeps WriteInv.
LEMMA StepInv == WriteInv /\ [WriteNext]_writeVars => WriteInv'
<1> SUFFICES ASSUME WriteInv, [WriteNext]_writeVars PROVE WriteInv'
  OBVIOUS
<1>1. CASE \E c \in Calls : Call(c)
  BY <1>1, CallStep
<1>2. CASE LatchByte
  BY <1>2, LatchStep
<1>3. CASE Program
  BY <1>3, ProgramStep
<1>4. CASE Return
  BY <1>4, ReturnStep
<1>5. CASE PowerCut
  BY <1>5, PowerCutStep
<1>6. CASE UNCHANGED writeVars
  <2>1. /\ flash' = flash /\ pc' = pc /\ call' = call /\ before' = before
        /\ written' = written /\ addr' = addr /\ TBLPTR' = TBLPTR /\ holding' = holding
    BY <1>6 DEF writeVars
  <2>2. WriteTypeOK'
    BY <2>1 DEF WriteInv, WriteTypeOK
  <2>3. Base' = Base /\ Start' = Start
    BY <2>1 DEF Base, Start, Flushed
  <2>4. InLoop' <=> InLoop
    BY <2>1, <2>3 DEF InLoop, LatchesHold, WrittenTo
  <2>5. OnlyTheTarget' <=> OnlyTheTarget
    BY <2>1 DEF OnlyTheTarget
  <2> QED BY <2>1, <2>2, <2>4, <2>5 DEF WriteInv
<1> QED BY <1>1, <1>2, <1>3, <1>4, <1>5, <1>6 DEF WriteNext

\* WriteInv is an invariant.
LEMMA Invariance == WriteSpec => []WriteInv
BY InitInv, StepInv, PTL DEF WriteSpec

\* The counters of write_flash() stay within the buffer and the memory, and the
\* holding registers are empty whenever it does not run (flash.c:29-62).
THEOREM WriteTypeCorrect == WriteSpec => []WriteTypeOK
<1>1. WriteInv => WriteTypeOK
  BY DEF WriteInv
<1> QED BY <1>1, Invariance, PTL

\* For every block size and every buffer, wherever it lies: the memory holds a
\* prefix of the buffer at every step, in whole blocks, and all of it at the
\* return (flash.c:38-56).
THEOREM PrefixTheorem == WriteSpec => []WritesPrefix
<1>1. WriteInv => WritesPrefix
  <2> SUFFICES ASSUME WriteInv, pc = "loop"
               PROVE  flash = WriteBytes(before, call.addr, SubSeq(call.buf, 1, Flushed))
    BY DEF WritesPrefix
  <2> DEFINE s == SubSeq(call.buf, 1, Flushed)
  <2>1. WriteTypeOK /\ InLoop
    BY DEF WriteInv
  <2>2. /\ call.addr \in Nat /\ Len(call.buf) \in Nat
        /\ \A k \in 1 .. Len(call.buf) : call.buf[k] \in Byte
        /\ flash \in [Addr -> Byte] /\ before \in [Addr -> Byte]
    BY <2>1, CallType DEF WriteTypeOK
  <2>3. /\ Start = call.addr + Flushed /\ Flushed \in 0 .. Len(call.buf)
    <3>1. written \in 0 .. Len(call.buf) /\ addr = call.addr + written
      BY <2>1 DEF WriteTypeOK, InLoop
    <3>2. addr \in Nat /\ FLASH_BLOCK_SIZ \in Nat \ {0}
      BY <3>1, <2>2, CallsAssumption
    <3> DEFINE r == addr % FLASH_BLOCK_SIZ
    <3>3. r \in Nat
      BY <3>2, RemainderAtMost
    <3>4. Flushed = IF written = Len(call.buf) THEN written ELSE IF written > r THEN written - r ELSE 0
      BY DEF Flushed
    <3> HIDE DEF r
    <3>5. Flushed \in 0 .. Len(call.buf)
      BY <3>1, <3>3, <3>4, <2>2
    <3> QED BY <3>5 DEF Start
  <2>4. /\ Len(s) = Flushed
        /\ \A k \in 1 .. Flushed : s[k] = call.buf[k]
    <3> DEFINE m == Flushed
               b == call.buf
    <3>1. m \in 0 .. Len(b) /\ Len(b) \in Nat /\ \A k \in 1 .. Len(b) : b[k] \in Byte
      BY <2>2, <2>3
    <3> HIDE DEF m, b
    <3>2. \A k \in 1 .. m : b[k] \in Byte
      BY <3>1
    <3>3. /\ Len(SubSeq(b, 1, m)) = IF 1 <= m THEN m - 1 + 1 ELSE 0
          /\ \A k \in 1 .. m - 1 + 1 : SubSeq(b, 1, m)[k] = b[1 + k - 1]
      BY <3>1, <3>2, SubSeqProperties
    <3>4. /\ Len(SubSeq(b, 1, m)) = m
          /\ \A k \in 1 .. m : SubSeq(b, 1, m)[k] = b[k]
      BY <3>1, <3>3
    <3> QED BY <3>4 DEF m, b
  <2> HIDE DEF s
  <2>5. ASSUME NEW x \in Addr
        PROVE  flash[x] = IF x \in call.addr .. call.addr + Len(s) - 1
                            THEN before[x] \cap (s[x - call.addr + 1]) ELSE before[x]
    <3>1. flash[x] = IF x \in call.addr .. Start - 1
                       THEN before[x] \cap call.buf[x - call.addr + 1]
                       ELSE before[x]
      BY <2>1 DEF InLoop, WrittenTo
    <3>2. Start - 1 = call.addr + Len(s) - 1
      <4>1. Start = call.addr + Len(s)
        BY <2>3, <2>4
      <4>2. call.addr \in Int /\ Len(s) \in Int
        BY <2>2, <2>3, <2>4
      <4> QED BY <4>1, <4>2
    <3>3. x \in call.addr .. Start - 1 => s[x - call.addr + 1] = call.buf[x - call.addr + 1]
      <4> SUFFICES ASSUME x \in call.addr .. Start - 1
                   PROVE  x - call.addr + 1 \in 1 .. Flushed
        BY <2>4
      <4> QED BY <2>2, <2>3
    <3> QED BY <3>1, <3>2, <3>3
  <2> QED BY <2>2, <2>5 DEF WriteBytes, s
<1> QED BY <1>1, Invariance, PTL

\* Nothing outside the buffer's place changes and no bit is set, whenever the
\* power is cut and whatever part of a block is then torn (flash.c:38-56).
THEOREM TargetTheorem == WriteSpec => []OnlyTheTarget
<1>1. WriteInv => OnlyTheTarget
  BY SomeOfTheBuffer DEF WriteInv, WriteTypeOK
<1> QED BY <1>1, Invariance, PTL
=============================================================================
