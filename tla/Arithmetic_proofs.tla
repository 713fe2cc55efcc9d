------------------------- MODULE Arithmetic_proofs -------------------------
(***************************************************************************)
(* Six computations, for every value of their constants: the GOTO line of  *)
(* btld-patch.py for every offset a PIC18 can have, the inverse of         *)
(* uECC_vli_modInv() for every prime and every size of the words, the      *)
(* verification of uECC_verify(), the public keys of                       *)
(* EccPoint_compute_public_key() and what uECC_decompress() and            *)
(* uECC_valid_public_key() make of a key, for every curve of secp256k1's   *)
(* form, and the number that bits2int() takes from a hash of any length.   *)
(***************************************************************************)
EXTENDS ModInv, BtldPatch, VliBytes, EcVerify, EcMult, EcPoint, Words_proofs

-----------------------------------------------------------------------------
(* Remainders.                                                             *)

\* A remainder is determined by its range.
LEMMA RemainderUnique ==
  ASSUME NEW x \in Int, NEW n \in Nat, n > 0, NEW q \in Int,
         NEW rest \in 0 .. n - 1, x = q * n + rest
  PROVE  x % n = rest
<1>1. /\ x \div n \in Int /\ x % n \in 0 .. n - 1
      /\ x = n * (x \div n) + (x % n)
  OBVIOUS
<1>2. (q - (x \div n)) * n = (x % n) - rest
  BY <1>1
<1>3. q - (x \div n) = 0
  BY <1>1, <1>2
<1>4. QED
  BY <1>1, <1>2, <1>3

\* Multiples of n do not change the remainder by n.
LEMMA RemainderShift ==
  ASSUME NEW x \in Int, NEW n \in Nat, n > 0, NEW k \in Int
  PROVE  (x + k * n) % n = x % n
<1>1. /\ x \div n \in Int /\ x % n \in 0 .. n - 1
      /\ x = n * (x \div n) + (x % n)
  OBVIOUS
<1>2. x + k * n = (x \div n + k) * n + (x % n)
  BY <1>1
<1>3. x + k * n \in Int /\ x \div n + k \in Int
  BY <1>1
<1>4. QED
  BY <1>1, <1>2, <1>3, RemainderUnique

-----------------------------------------------------------------------------
(* btld-patch.py                                                           *)

\* The four bytes of the GOTO.
LEMMA GotoBytes ==
  ASSUME NEW offset \in Nat, offset < 2097152, offset % 2 = 0,
         NEW goto, goto = GotoInstr(offset)
  PROVE  /\ goto[1] \in 0 .. 255 /\ goto[2] = 239
         /\ goto[3] \in 0 .. 255 /\ goto[4] \in 240 .. 255
         /\ offset = 2 * ((goto[4] - 240) * 65536 + goto[3] * 256 + goto[1])
<1> DEFINE word == offset \div 2
<1>1. word \in Nat /\ word < 1048576 /\ offset = 2 * word
  BY SMT
<1>2. /\ goto[1] = word % 256 /\ goto[2] = 239 /\ goto[3] = (word \div 256) % 256
      /\ goto[4] = 240 + ((word \div 65536) % 16)
  BY SMT DEF GotoInstr, goto_instr_1, goto_instr_2
<1> HIDE DEF word
<1>3. /\ word \div 65536 \in 0 .. 15
      /\ word = 65536 * (word \div 65536) + 256 * ((word \div 256) % 256) + (word % 256)
  BY SMT, <1>1
<1>4. /\ (word \div 65536) % 16 = word \div 65536
      /\ word % 256 \in 0 .. 255 /\ (word \div 256) % 256 \in 0 .. 255
  BY SMT, <1>1, <1>3
<1>5. goto[4] = 240 + word \div 65536
  BY SMT, <1>2, <1>4
<1>6. goto[4] \in Int /\ goto[4] - 240 = word \div 65536
  BY SMT, <1>1, <1>3, <1>5
<1>7. goto[4] \in 240 .. 255
  BY SMT, <1>3, <1>5
<1>8. offset = 2 * ((word \div 65536) * 65536 + ((word \div 256) % 256) * 256 + (word % 256))
  BY SMT, <1>1, <1>3
<1>9. QED
  BY SMT, <1>2, <1>4, <1>6, <1>7, <1>8

\* The checksum is a byte, except that it is 256 for a sum of 0.
LEMMA ChecksumRange ==
  ASSUME NEW offset \in Nat, offset < 2097152, offset % 2 = 0
  PROVE  /\ LineSum(GotoInstr(offset)) \in Nat
         /\ Checksum(GotoInstr(offset)) \in 1 .. 256
         /\ (Checksum(GotoInstr(offset)) = 256 <=> LineSum(GotoInstr(offset)) % 256 = 0)
         /\ (LineSum(GotoInstr(offset)) + Checksum(GotoInstr(offset))) % 256 = 0
<1> DEFINE goto == GotoInstr(offset)
           total == LineSum(goto)
<1>1. total \in Nat
  <2>1. /\ goto[1] \in 0 .. 255 /\ goto[2] = 239
        /\ goto[3] \in 0 .. 255 /\ goto[4] \in 240 .. 255
    BY SMT, GotoBytes
  <2> HIDE DEF goto
  <2>2. \A w, x, y, t \in Nat : 4 + w + x + y + t \in Nat
    OBVIOUS
  <2>3. goto[1] \in Nat /\ goto[2] \in Nat /\ goto[3] \in Nat /\ goto[4] \in Nat
    BY SMT, <2>1
  <2>4. QED
    BY <2>2, <2>3 DEF LineSum
<1>2. Checksum(goto) = 256 - (total % 256)
  BY SMT DEF Checksum
<1> HIDE DEF goto, total
<1>3. /\ Checksum(goto) \in 1 .. 256 /\ (Checksum(goto) = 256 <=> total % 256 = 0)
      /\ (total + Checksum(goto)) % 256 = 0
  BY SMT, <1>1, <1>2
<1>4. QED
  BY SMT, <1>1, <1>3 DEF goto, total

-----------------------------------------------------------------------------
(* Lines of digits, two to a byte.                                         *)

IsByte(n) == n \in Nat /\ n < 256

\* What is left of a sum that is a multiple of 256.
IsRound(n) == n = 256

\* A byte is two digits.
LEMMA TwoDigits ==
  ASSUME NEW n, IsByte(n)
  PROVE  /\ HexDigits(n) \in Seq(Nat) /\ Len(HexDigits(n)) = 2
         /\ 16 * HexDigits(n)[1] + HexDigits(n)[2] = n
<1>1. HexDigits(n) = <<n \div 16, n % 16>>
  BY DEF IsByte, HexDigits
<1>2. n \div 16 \in Nat /\ n % 16 \in Nat /\ n = 16 * (n \div 16) + (n % 16)
  BY SMT DEF IsByte
<1>3. QED
  BY <1>1, <1>2

\* 256 is three.
LEMMA ThreeDigits == HexDigits(256) \in Seq(Nat) /\ Len(HexDigits(256)) = 3
<1>1. HexDigits(256) = <<256 \div 256, (256 \div 16) % 16, 256 % 16>>
  BY SMT DEF HexDigits
<1>2. 256 \div 256 = 1 /\ (256 \div 16) % 16 = 0 /\ 256 % 16 = 0
  BY SMT
<1>3. HexDigits(256) = <<1, 0, 0>>
  BY <1>1, <1>2
<1>4. \A x, y, w \in Nat : <<x, y, w>> \in Seq(Nat) /\ Len(<<x, y, w>>) = 3
  OBVIOUS
<1>5. 1 \in Nat /\ 0 \in Nat
  OBVIOUS
<1>6. QED
  BY <1>3, <1>4, <1>5

IsLine(line, len) == len \in Nat /\ line \in Seq(Nat) /\ Len(line) = len

\* The byte whose digits begin at k.
ByteAt(line, k) == 16 * line[k] + line[k + 1]

SameBytes(line, longer, len) ==
  \A k \in Nat : 0 < k /\ k < len => ByteAt(longer, k) = ByteAt(line, k)

\* What is appended does not change the bytes before it.
LEMMA PutDigits ==
  ASSUME NEW line, NEW len, IsLine(line, len), NEW digits, NEW n, IsLine(digits, n)
  PROVE  /\ IsLine(line \o digits, len + n)
         /\ SameBytes(line, line \o digits, len)
         /\ \A k \in Nat : 0 < k /\ k < n =>
              ByteAt(line \o digits, len + k) = ByteAt(digits, k)
<1> DEFINE longer == line \o digits
<1>1. /\ longer \in Seq(Nat) /\ Len(longer) = len + n
      /\ \A k \in 1 .. len + n :
           longer[k] = IF k <= len THEN line[k] ELSE digits[k - len]
  BY ConcatProperties DEF IsLine
<1> HIDE DEF longer
<1>2. len \in Nat /\ n \in Nat
  BY DEF IsLine
<1>3. SameBytes(line, longer, len)
  BY <1>1, <1>2 DEF SameBytes, ByteAt
<1>4. ASSUME NEW k \in Nat, 0 < k, k < n
      PROVE  ByteAt(longer, len + k) = ByteAt(digits, k)
  <2>1. /\ longer[len + k] = digits[k] /\ longer[len + k + 1] = digits[k + 1]
    BY SMTT(30), <1>1, <1>2, <1>4
  <2>2. QED
    BY <2>1 DEF ByteAt
<1>5. QED
  BY <1>1, <1>2, <1>3, <1>4 DEF IsLine, longer

\* One more byte at the end of the line.
LEMMA PutByte ==
  ASSUME NEW line, NEW len, IsLine(line, len), NEW n, IsByte(n)
  PROVE  /\ IsLine(line \o HexDigits(n), len + 2)
         /\ SameBytes(line, line \o HexDigits(n), len)
         /\ ByteAt(line \o HexDigits(n), len + 1) = n
<1> DEFINE digits == HexDigits(n)
<1>1. digits \in Seq(Nat) /\ Len(digits) = 2 /\ 16 * digits[1] + digits[2] = n
  BY TwoDigits
<1> HIDE DEF digits
<1>2. IsLine(digits, 2) /\ ByteAt(digits, 1) = n
  BY <1>1 DEF IsLine, ByteAt
<1>3. 1 \in Nat /\ 0 < 1 /\ 1 < 2
  OBVIOUS
<1>4. QED
  BY <1>2, <1>3, PutDigits DEF digits

\* The line that is written, read byte by byte.
LEMMA WrittenLine ==
  ASSUME NEW goto, out = GotoLine(goto),
         IsByte(goto[1]), IsByte(goto[2]), IsByte(goto[3]), IsByte(goto[4]),
         NEW check, check = Checksum(goto), IsByte(check) \/ IsRound(check)
  PROVE  /\ LineByte(1) = 4 /\ LineByte(2) = 0 /\ LineByte(3) = 0 /\ LineByte(4) = 0
         /\ LineByte(5) = goto[1] /\ LineByte(6) = goto[2]
         /\ LineByte(7) = goto[3] /\ LineByte(8) = goto[4]
         /\ IsByte(check) => Len(out) = 18 /\ LineByte(9) = check
         /\ IsRound(check) => Len(out) = 19
<1> DEFINE line0 == <<0, 4, 0, 0, 0, 0, 0, 0>>
           line1 == line0 \o HexDigits(goto[1])
           line2 == line1 \o HexDigits(goto[2])
           line3 == line2 \o HexDigits(goto[3])
           line4 == line3 \o HexDigits(goto[4])
<1>0. out = line4 \o HexDigits(check)
  BY DEF GotoLine
<1>1. /\ IsLine(line0, 8)
      /\ ByteAt(line0, 1) = 4 /\ ByteAt(line0, 3) = 0
      /\ ByteAt(line0, 5) = 0 /\ ByteAt(line0, 7) = 0
  <2>1. \A x, y \in Nat : <<x, y, x, x, x, x, x, x>> \in Seq(Nat)
    OBVIOUS
  <2>2. 0 \in Nat /\ 4 \in Nat
    OBVIOUS
  <2>3. QED
    BY <2>1, <2>2 DEF IsLine, ByteAt
<1> HIDE DEF line0
<1>2. /\ IsLine(line1, 10) /\ SameBytes(line0, line1, 8)
      /\ ByteAt(line1, 9) = goto[1]
  BY <1>1, PutByte
<1> HIDE DEF line1
<1>3. /\ IsLine(line2, 12) /\ SameBytes(line1, line2, 10)
      /\ ByteAt(line2, 11) = goto[2]
  BY <1>2, PutByte
<1> HIDE DEF line2
<1>4. /\ IsLine(line3, 14) /\ SameBytes(line2, line3, 12)
      /\ ByteAt(line3, 13) = goto[3]
  BY <1>3, PutByte
<1> HIDE DEF line3
<1>5. /\ IsLine(line4, 16) /\ SameBytes(line3, line4, 14)
      /\ ByteAt(line4, 15) = goto[4]
  BY <1>4, PutByte
<1> HIDE DEF line4
<1>6. ASSUME IsByte(check)
      PROVE  SameBytes(line4, out, 16) /\ Len(out) = 18 /\ ByteAt(out, 17) = check
  <2>1. /\ IsLine(out, 18) /\ SameBytes(line4, out, 16)
        /\ ByteAt(out, 17) = check
    BY <1>0, <1>5, <1>6, PutByte
  <2>2. QED
    BY <2>1 DEF IsLine
<1>7. ASSUME IsRound(check)
      PROVE  SameBytes(line4, out, 16) /\ Len(out) = 19
  <2>1. IsLine(HexDigits(check), 3)
    BY <1>7, ThreeDigits DEF IsLine, IsRound
  <2>2. IsLine(line4 \o HexDigits(check), 16 + 3)
    BY <1>5, <2>1, PutDigits, Zenon
  <2>3. SameBytes(line4, out, 16)
    BY <1>0, <1>5, <2>1, PutDigits
  <2>4. QED
    BY <1>0, <2>2, <2>3 DEF IsLine
<1>8. SameBytes(line4, out, 16)
  BY <1>6, <1>7
<1>9. /\ ByteAt(out, 1) = 4 /\ ByteAt(out, 3) = 0
      /\ ByteAt(out, 5) = 0 /\ ByteAt(out, 7) = 0
      /\ ByteAt(out, 9) = goto[1] /\ ByteAt(out, 11) = goto[2]
      /\ ByteAt(out, 13) = goto[3] /\ ByteAt(out, 15) = goto[4]
  BY SMT, <1>1, <1>2, <1>3, <1>4, <1>5, <1>8 DEF SameBytes
<1>10. \A k \in Nat : LineByte(k) = ByteAt(out, 2 * k - 1)
  BY DEF LineByte, ByteAt
<1>11. QED
  BY SMT, <1>6, <1>7, <1>9, <1>10

\* Once written, the line is the GOTO for the offset, and has not changed since.
PatchInv ==
  /\ btld_offset \in Offsets
  /\ out = Unwritten \/ out = GotoLine(GotoInstr(btld_offset))

\* The one step writes the line of the offset.
LEMMA PatchInvariance == PatchSpec => []PatchInv
<1>1. PatchInit => PatchInv
  BY DEF PatchInit, PatchInv
<1>2. PatchInv /\ [Patch]_patchVars => PatchInv'
  BY DEF PatchInv, Patch, patchVars
<1>3. QED
  BY <1>1, <1>2, PTL DEF PatchSpec

\* The instruction for the offset.
Goto == GotoInstr(btld_offset)

\* The ranges of its bytes, the offset in them, and the checksum.
LEMMA BytesOfOffset ==
  ASSUME PatchInv
  PROVE  /\ Goto[1] \in 0 .. 255 /\ Goto[2] = 239
         /\ Goto[3] \in 0 .. 255 /\ Goto[4] \in 240 .. 255
         /\ btld_offset = 2 * ((Goto[4] - 240) * 65536 + Goto[3] * 256 + Goto[1])
         /\ LineSum(Goto) \in Nat /\ Checksum(Goto) \in 1 .. 256
         /\ (Checksum(Goto) = 256 <=> LineSum(Goto) % 256 = 0)
         /\ (LineSum(Goto) + Checksum(Goto)) % 256 = 0
<1>1. btld_offset \in Nat /\ btld_offset < 2097152 /\ btld_offset % 2 = 0
  BY SMT, OffsetsAssumption DEF PatchInv
<1>2. /\ Goto[1] \in 0 .. 255 /\ Goto[2] = 239
      /\ Goto[3] \in 0 .. 255 /\ Goto[4] \in 240 .. 255
      /\ btld_offset = 2 * ((Goto[4] - 240) * 65536 + Goto[3] * 256 + Goto[1])
  BY SMTT(60), <1>1, GotoBytes DEF Goto
<1>3. /\ LineSum(Goto) \in Nat /\ Checksum(Goto) \in 1 .. 256
      /\ (Checksum(Goto) = 256 <=> LineSum(Goto) % 256 = 0)
      /\ (LineSum(Goto) + Checksum(Goto)) % 256 = 0
  BY SMT, <1>1, ChecksumRange DEF Goto
<1>4. QED
  BY <1>2, <1>3

\* The bytes of the line in terms of the offset.
LEMMA LineOfOffset ==
  ASSUME PatchInv, out # Unwritten
  PROVE  /\ LineByte(1) = 4 /\ LineByte(2) = 0 /\ LineByte(3) = 0 /\ LineByte(4) = 0
         /\ LineByte(5) = Goto[1] /\ LineByte(6) = Goto[2]
         /\ LineByte(7) = Goto[3] /\ LineByte(8) = Goto[4]
         /\ IsByte(Checksum(Goto)) => Len(out) = 18 /\ LineByte(9) = Checksum(Goto)
         /\ IsRound(Checksum(Goto)) => Len(out) = 19
<1>1. /\ Goto[1] \in 0 .. 255 /\ Goto[2] = 239
      /\ Goto[3] \in 0 .. 255 /\ Goto[4] \in 240 .. 255
      /\ Checksum(Goto) \in 1 .. 256
  BY BytesOfOffset
<1>2. /\ IsByte(Goto[1]) /\ IsByte(Goto[2]) /\ IsByte(Goto[3]) /\ IsByte(Goto[4])
  BY SMT, <1>1 DEF IsByte
<1>3. IsByte(Checksum(Goto)) \/ IsRound(Checksum(Goto))
  BY SMT, <1>1 DEF IsByte, IsRound
<1>4. out = GotoLine(Goto)
  BY DEF PatchInv, Goto
<1>5. QED
  BY <1>2, <1>3, <1>4, WrittenLine

(***************************************************************************)
(* For every offset a PIC18 can have, the first line of the patched file   *)
(* is a GOTO to that offset (btld-patch.py:15-22).                         *)
(***************************************************************************)
THEOREM GotoTheorem == PatchSpec => []ResetJumpsToBootloader
<1>1. PatchInv => ResetJumpsToBootloader
  <2> SUFFICES ASSUME PatchInv, out # Unwritten
               PROVE  /\ Target = btld_offset /\ LineByte(6) = goto_instr_1
                      /\ LineByte(8) \div 16 = goto_instr_2 \div 16
    BY DEF ResetJumpsToBootloader
  <2>1. /\ LineByte(5) = Goto[1] /\ LineByte(6) = Goto[2]
        /\ LineByte(7) = Goto[3] /\ LineByte(8) = Goto[4]
    BY LineOfOffset
  <2>2. /\ Goto[1] \in 0 .. 255 /\ Goto[2] = 239
        /\ Goto[3] \in 0 .. 255 /\ Goto[4] \in 240 .. 255
        /\ btld_offset = 2 * ((Goto[4] - 240) * 65536 + Goto[3] * 256 + Goto[1])
    BY BytesOfOffset
  <2>3. Goto[4] % 16 = Goto[4] - 240 /\ Goto[4] \div 16 = 240 \div 16
    BY SMT, <2>2
  <2>4. Target = btld_offset
    BY SMT, <2>1, <2>2, <2>3 DEF Target
  <2>5. QED
    BY SMT, <2>1, <2>2, <2>3, <2>4 DEF goto_instr_1, goto_instr_2
<1>2. QED
  BY <1>1, PatchInvariance, PTL

(***************************************************************************)
(* For which offsets a programmer can read the line: for every one a PIC18 *)
(* can have, unless the bytes of the line already add up to a multiple of  *)
(* 256 and the checksum has three digits (btld-patch.py:27-33).            *)
(***************************************************************************)
THEOREM ReadBackTheorem ==
  PatchSpec => [](out # Unwritten =>
                    (LineAccepted <=> LineSum(GotoInstr(btld_offset)) % 256 # 0))
<1>1. PatchInv => (out # Unwritten =>
                     (LineAccepted <=> LineSum(GotoInstr(btld_offset)) % 256 # 0))
  <2> SUFFICES ASSUME PatchInv, out # Unwritten
               PROVE  LineAccepted <=> LineSum(GotoInstr(btld_offset)) % 256 # 0
    OBVIOUS
  <2> DEFINE total == LineSum(Goto)
             check == Checksum(Goto)
  <2>1. /\ Goto[1] \in 0 .. 255 /\ Goto[2] = 239
        /\ Goto[3] \in 0 .. 255 /\ Goto[4] \in 240 .. 255
    BY BytesOfOffset
  <2>2. /\ total \in Nat /\ check \in 1 .. 256
        /\ (check = 256 <=> total % 256 = 0) /\ (total + check) % 256 = 0
    BY BytesOfOffset
  <2>3. total = 4 + Goto[1] + Goto[2] + Goto[3] + Goto[4]
    BY DEF LineSum
  <2>4. /\ LineByte(1) = 4 /\ LineByte(2) = 0 /\ LineByte(3) = 0 /\ LineByte(4) = 0
        /\ LineByte(5) = Goto[1] /\ LineByte(6) = Goto[2]
        /\ LineByte(7) = Goto[3] /\ LineByte(8) = Goto[4]
        /\ IsByte(check) => Len(out) = 18 /\ LineByte(9) = check
        /\ IsRound(check) => Len(out) = 19
    BY LineOfOffset
  <2> HIDE DEF total, check
  <2>5. LineAccepted <=> total % 256 # 0
    <3>1. CASE IsRound(check)
      <4>1. Len(out) = 19 /\ LineByte(1) = 4
        BY <2>4, <3>1
      <4>2. ~LineAccepted
        BY SMT, <4>1 DEF LineAccepted
      <4>3. QED
        BY SMT, <2>2, <3>1, <4>2 DEF IsRound
    <3>2. CASE IsByte(check)
      <4>1. LineByte(1) + LineByte(2) + LineByte(3) + LineByte(4) + LineByte(5)
              + LineByte(6) + LineByte(7) + LineByte(8) + LineByte(9) = total + check
        BY SMT, <2>1, <2>2, <2>3, <2>4, <3>2
      <4>2. LineAccepted
        BY SMT, <2>2, <2>4, <3>2, <4>1 DEF LineAccepted
      <4>3. QED
        BY SMT, <2>2, <3>2, <4>2 DEF IsByte
    <3>3. QED
      BY SMT, <2>2, <3>1, <3>2 DEF IsByte, IsRound
  <2>6. QED
    BY <2>5 DEF total, Goto
<1>2. QED
  BY <1>1, PatchInvariance, PTL

-----------------------------------------------------------------------------
(* Multiples.                                                              *)

Multiple(x, n) == \E k \in Int : x = k * n

\* A number and its remainder.
LEMMA MultipleRemainder ==
  ASSUME NEW x \in Int, NEW y \in Int, NEW n \in Nat, n > 0, Multiple(x - y, n)
  PROVE  x % n = y % n
<1>1. PICK k \in Int : x - y = k * n
  BY DEF Multiple
<1>2. k * n \in Int /\ x = y + k * n
  BY <1>1
<1>3. QED
  BY <1>2, RemainderShift

\* 0 and the number itself are multiples.
LEMMA MultipleZero ==
  ASSUME NEW n \in Nat
  PROVE  Multiple(0, n) /\ Multiple(n, n)
<1>1. 0 = 0 * n /\ n = 1 * n
  OBVIOUS
<1>2. QED
  BY <1>1 DEF Multiple

\* Sums and differences of multiples are multiples.
LEMMA MultipleSum ==
  ASSUME NEW x \in Int, NEW y \in Int, NEW n \in Nat, Multiple(x, n), Multiple(y, n)
  PROVE  Multiple(x + y, n) /\ Multiple(x - y, n)
<1>1. PICK k \in Int : x = k * n
  BY DEF Multiple
<1>2. PICK l \in Int : y = l * n
  BY DEF Multiple
<1>3. x + y = (k + l) * n /\ x - y = (k - l) * n
  BY <1>1, <1>2
<1>4. k + l \in Int /\ k - l \in Int
  OBVIOUS
<1>5. QED
  BY <1>3, <1>4 DEF Multiple

\* Whatever a multiple is multiplied by, it stays one.
LEMMA MultipleTimes ==
  ASSUME NEW x \in Int, NEW y \in Int, NEW n \in Nat, Multiple(x, n)
  PROVE  Multiple(y * x, n)
<1>1. PICK k \in Int : x = k * n
  BY DEF Multiple
<1>2. y * x = (y * k) * n /\ y * k \in Int
  BY <1>1
<1>3. QED
  BY <1>2 DEF Multiple

\* An odd number that divides 2 * x divides x.
LEMMA MultipleHalf ==
  ASSUME NEW x \in Int, NEW n \in Nat, n % 2 = 1, Multiple(2 * x, n)
  PROVE  Multiple(x, n)
<1>1. PICK k \in Int : 2 * x = k * n
  BY DEF Multiple
<1>2. PICK q \in Int : n = 2 * q + 1
  BY n = 2 * (n \div 2) + 1, n \div 2 \in Int
<1>3. k * n = 2 * (q * k) + k /\ q * k \in Int
  BY <1>2
<1>4. k = 2 * (x - q * k)
  BY <1>1, <1>3
<1>5. x - q * k \in Int
  BY <1>3
<1>6. k * n = 2 * ((x - q * k) * n) /\ (x - q * k) * n \in Int
  BY <1>4, <1>5
<1>7. x = (x - q * k) * n
  BY <1>1, <1>6
<1>8. QED
  BY <1>5, <1>7 DEF Multiple

-----------------------------------------------------------------------------
(* uECC_vli_modInv()                                                       *)

OddModulus ==
  /\ imod \in Nat /\ imod > 2 /\ imod < LIMIT /\ imod % 2 = 1
  /\ LIMIT \in Nat /\ LIMIT % 2 = 0

\* w is reduced, and w * input is x modulo imod.
Multiplier(w, x) == w \in 0 .. imod - 1 /\ Multiple(w * input - x, imod)

\* What divides both numbers of the loop divides those it began with.
Divisors ==
  \A d \in Nat : d > 0 /\ Multiple(a, d) /\ Multiple(b, d) =>
    Multiple(input, d) /\ Multiple(imod, d)

InverseInv ==
  /\ imod \in InvModuli /\ input \in 0 .. imod - 1
  /\ a \in Nat /\ b \in Nat /\ inverse \in Int
  /\ input # 0 => a > 0 /\ b > 0
  /\ Multiplier(u, a) /\ Multiplier(v, b)
  /\ Divisors
  /\ ~running /\ input # 0 => Multiple(inverse * input - 1, imod)

\* Primes above 2 are odd.
LEMMA ModulusOdd ==
  ASSUME NEW m \in InvModuli
  PROVE  /\ m \in Nat /\ m > 2 /\ m < LIMIT /\ m % 2 = 1
         /\ LIMIT \in Nat /\ LIMIT % 2 = 0
<1>1. /\ m \in Nat /\ m > 2 /\ m < LIMIT /\ LIMIT \in Nat /\ LIMIT % 2 = 0
  BY InvAssumption
<1>2. m % 2 # 0
  <2>1. 2 \in 2 .. m - 1
    BY <1>1
  <2>2. QED
    BY <2>1, InvAssumption
<1>3. QED
  BY <1>1, <1>2

\* The carry taken back in: half of w, or of w + imod.
LEMMA UpdateHalves ==
  ASSUME OddModulus, NEW w \in 0 .. imod - 1
  PROVE  /\ InvUpdate(w) \in 0 .. imod - 1
         /\ 2 * InvUpdate(w) = w \/ 2 * InvUpdate(w) = w + imod
<1>1. CASE w % 2 = 0
  <2>1. InvUpdate(w) = w \div 2
    BY <1>1 DEF InvUpdate, even
  <2>2. QED
    BY <1>1, <2>1 DEF OddModulus
<1>2. CASE w % 2 # 0
  <2> DEFINE total == (w + imod) % LIMIT
             whole == w + imod
  <2>1. InvUpdate(w) = (total \div 2) + IF whole >= LIMIT THEN LIMIT \div 2 ELSE 0
    BY <1>2 DEF InvUpdate, even
  <2>2. whole \in Nat /\ whole % 2 = 0 /\ whole < 2 * imod
    BY <1>2 DEF OddModulus
  <2>3. 2 * InvUpdate(w) = whole /\ InvUpdate(w) \in Int
    <3>1. CASE whole < LIMIT
      <4>1. total = whole
        BY <2>2, <3>1 DEF OddModulus
      <4>2. InvUpdate(w) = whole \div 2
        BY <2>1, <2>2, <3>1, <4>1 DEF OddModulus
      <4>3. QED
        BY <2>2, <4>2
    <3>2. CASE whole >= LIMIT
      <4>1. total = whole - LIMIT
        <5>1. /\ whole - LIMIT \in 0 .. LIMIT - 1 /\ whole = 1 * LIMIT + (whole - LIMIT)
              /\ 1 \in Int /\ LIMIT > 0 /\ LIMIT \in Nat /\ whole \in Int
          BY <2>2, <3>2 DEF OddModulus
        <5> HIDE DEF whole
        <5>2. whole % LIMIT = whole - LIMIT
          BY <5>1, RemainderUnique
        <5>3. QED
          BY <5>2 DEF whole
      <4>2. InvUpdate(w) = ((whole - LIMIT) \div 2) + (LIMIT \div 2)
        BY <2>1, <3>2, <4>1
      <4>3. LIMIT \in Nat /\ LIMIT % 2 = 0
        BY DEF OddModulus
      <4> HIDE DEF whole
      <4>4. QED
        BY <2>2, <4>2, <4>3
    <3>3. QED
      BY <2>2, <3>1, <3>2 DEF OddModulus
  <2>4. QED
    BY <2>2, <2>3 DEF OddModulus
<1>3. QED
  BY <1>1, <1>2

\* The borrow makes up for the dropped carry: the difference, or imod more.
LEMMA MinusReduced ==
  ASSUME OddModulus, NEW w \in 0 .. imod - 1, NEW y \in 0 .. imod - 1
  PROVE  /\ InvMinus(w, y) \in 0 .. imod - 1
         /\ InvMinus(w, y) = w - y \/ InvMinus(w, y) = (w - y) + imod
<1> DEFINE diff == IF w < y THEN (w - y) + imod ELSE w - y
<1>1. diff \in 0 .. imod - 1 /\ diff \in 0 .. LIMIT - 1 /\ LIMIT \in Nat /\ LIMIT > 0
  BY DEF OddModulus
<1>2. InvMinus(w, y) = ((IF w < y THEN (w + imod) % LIMIT ELSE w) - y) % LIMIT
  BY DEF InvMinus
<1>3. CASE w >= y
  <2>1. InvMinus(w, y) = (w - y) % LIMIT /\ diff = w - y
    BY <1>2, <1>3 DEF OddModulus
  <2>2. QED
    BY <1>1, <2>1
<1>4. CASE w < y
  <2>1. InvMinus(w, y) = (((w + imod) % LIMIT) - y) % LIMIT /\ diff = (w - y) + imod
    BY <1>2, <1>4
  <2>2. CASE w + imod < LIMIT
    <3>1. (w + imod) % LIMIT = w + imod
      BY <2>2 DEF OddModulus
    <3>2. ((w + imod) - y) = diff
      BY <2>1 DEF OddModulus
    <3>3. QED
      BY <1>1, <2>1, <3>1, <3>2
  <2>3. CASE w + imod >= LIMIT
    <3>1. (w + imod) % LIMIT = (w + imod) - LIMIT
      <4>1. /\ (w + imod) - LIMIT \in 0 .. LIMIT - 1 /\ w + imod \in Int
            /\ w + imod = 1 * LIMIT + ((w + imod) - LIMIT) /\ 1 \in Int
        BY <2>3 DEF OddModulus
      <4>2. QED
        BY <1>1, <4>1, RemainderUnique
    <3>2. /\ ((w + imod) - LIMIT) - y = (-1) * LIMIT + diff /\ -1 \in Int
          /\ ((w + imod) - LIMIT) - y \in Int
      BY <1>1, <2>1 DEF OddModulus
    <3>3. (((w + imod) - LIMIT) - y) % LIMIT = diff
      BY <1>1, <3>2, RemainderUnique
    <3>4. QED
      BY <1>1, <2>1, <3>1, <3>3
  <2>4. QED
    BY <2>2, <2>3 DEF OddModulus
<1>5. QED
  BY <1>3, <1>4

\* Half of the number, half of the multiplier.
LEMMA MultiplierHalf ==
  ASSUME OddModulus, input \in Nat, NEW w, NEW x \in Int, Multiplier(w, 2 * x)
  PROVE  Multiplier(InvUpdate(w), x)
<1>1. w \in 0 .. imod - 1 /\ Multiple(w * input - 2 * x, imod) /\ imod \in Nat
  BY DEF Multiplier, OddModulus
<1>2. /\ InvUpdate(w) \in 0 .. imod - 1
      /\ 2 * InvUpdate(w) = w \/ 2 * InvUpdate(w) = w + imod
  BY <1>1, UpdateHalves
<1> DEFINE half == InvUpdate(w)
<1> HIDE DEF half
<1>3. half \in Int /\ w \in Int /\ half * input \in Int /\ w * input \in Int
      /\ half * input - x \in Int /\ w * input - 2 * x \in Int
  BY <1>1, <1>2 DEF half
<1>4. Multiple(2 * (half * input - x), imod)
  <2>1. CASE 2 * half = w
    <3>1. (2 * half) * input = w * input
      BY <2>1
    <3>2. 2 * (half * input - x) = w * input - 2 * x
      BY <1>3, <3>1
    <3>3. QED
      BY <1>1, <3>2
  <2>2. CASE 2 * half = w + imod
    <3>1. (2 * half) * input = (w + imod) * input
      BY <2>2
    <3>2. 2 * (half * input - x) = (w * input - 2 * x) + input * imod
      BY <1>1, <1>3, <3>1
    <3>3. Multiple(input * imod, imod) /\ input * imod \in Int
      BY <1>1 DEF Multiple
    <3>4. QED
      BY <1>1, <1>3, <3>2, <3>3, MultipleSum
  <2>3. QED
    BY <1>2, <2>1, <2>2 DEF half
<1>5. Multiple(half * input - x, imod)
  BY <1>3, <1>4, MultipleHalf DEF OddModulus
<1>6. QED
  BY <1>2, <1>5 DEF Multiplier, half

\* The difference of the numbers, the difference of the multipliers.
LEMMA MultiplierMinus ==
  ASSUME OddModulus, input \in Nat, NEW w, NEW x \in Int, Multiplier(w, x),
         NEW y, NEW t \in Int, Multiplier(y, t)
  PROVE  Multiplier(InvMinus(w, y), x - t)
<1>1. /\ w \in 0 .. imod - 1 /\ Multiple(w * input - x, imod) /\ imod \in Nat
      /\ y \in 0 .. imod - 1 /\ Multiple(y * input - t, imod)
  BY DEF Multiplier, OddModulus
<1>2. /\ InvMinus(w, y) \in 0 .. imod - 1
      /\ InvMinus(w, y) = w - y \/ InvMinus(w, y) = (w - y) + imod
  BY <1>1, MinusReduced
<1> DEFINE diff == InvMinus(w, y)
           lhs == w * input - x
           rhs == y * input - t
<1>3. /\ w \in Int /\ y \in Int /\ w * input \in Int /\ y * input \in Int
      /\ lhs \in Int /\ rhs \in Int
  BY <1>1
<1>4. Multiple(lhs - rhs, imod) /\ lhs - rhs \in Int
  <2> HIDE DEF lhs, rhs
  <2>1. Multiple(lhs, imod) /\ Multiple(rhs, imod)
    BY <1>1 DEF lhs, rhs
  <2>2. QED
    BY <1>1, <1>3, <2>1, MultipleSum
<1>5. Multiple(diff * input - (x - t), imod)
  <2>1. CASE diff = w - y
    <3>1. diff * input = w * input - y * input
      BY <1>3, <2>1
    <3>2. diff * input - (x - t) = lhs - rhs
      BY <1>3, <3>1
    <3>3. QED
      BY <1>4, <3>2
  <2>2. CASE diff = (w - y) + imod
    <3>1. diff * input = (w * input - y * input) + input * imod
      BY <1>1, <1>3, <2>2
    <3>2. Multiple(input * imod, imod) /\ input * imod \in Int
      BY <1>1 DEF Multiple
    <3>3. diff * input - (x - t) = (lhs - rhs) + input * imod
      BY <1>3, <3>1, <3>2
    <3> HIDE DEF lhs, rhs
    <3>4. Multiple((lhs - rhs) + input * imod, imod)
      BY <1>1, <1>4, <3>2, MultipleSum
    <3>5. QED
      BY <3>3, <3>4
  <2>3. QED
    BY <1>2, <2>1, <2>2
<1>6. QED
  BY <1>2, <1>5 DEF Multiplier

\* The numbers of the loop meet at 1: the modulus is a prime.
LEMMA MeetAtOne ==
  ASSUME InverseInv, input # 0, a = b
  PROVE  a = 1
<1>1. /\ a \in Nat /\ a > 0 /\ input \in Nat /\ input > 0 /\ input < imod /\ imod \in Nat
  BY ModulusOdd DEF InverseInv
<1>2. Multiple(input, a) /\ Multiple(imod, a)
  <2>1. Multiple(a, a) /\ Multiple(b, a)
    BY <1>1, MultipleZero
  <2>2. QED
    BY <1>1, <2>1 DEF InverseInv, Divisors
<1>3. PICK k \in Int : input = k * a
  BY <1>2 DEF Multiple
<1>4. a <= input
  <2>1. k > 0
    BY <1>1, <1>3
  <2>2. QED
    BY <1>1, <1>3, <2>1
<1>5. imod % a = 0
  <2>1. PICK l \in Int : imod = l * a
    BY <1>2 DEF Multiple
  <2>2. imod = l * a + 0 /\ 0 \in 0 .. a - 1
    BY <1>1, <2>1
  <2>3. QED
    BY <1>1, <2>2, RemainderUnique
<1>6. ASSUME a > 1
      PROVE  FALSE
  <2>1. a \in 2 .. imod - 1
    BY <1>1, <1>4, <1>6
  <2>2. imod % a # 0
    BY <2>1, InvAssumption DEF InverseInv
  <2>3. QED
    BY <1>5, <2>2
<1>7. QED
  BY <1>1, <1>6

\* At the start the multipliers are 1 and 0.
LEMMA InverseStart == InvInit => InverseInv
<1> SUFFICES ASSUME InvInit PROVE InverseInv
  OBVIOUS
<1>1. /\ imod \in InvModuli /\ input \in 0 .. imod - 1 /\ imod \in Nat /\ imod > 2
      /\ a = input /\ b = imod /\ u = 1 /\ v = 0 /\ inverse = 0 /\ running = TRUE
  BY ModulusOdd DEF InvInit
<1>2. Multiplier(u, a)
  <2>1. u * input - a = 0
    BY <1>1
  <2>2. QED
    BY <1>1, <2>1, MultipleZero DEF Multiplier
<1>3. Multiplier(v, b)
  <2>1. v * input - b = (-1) * imod /\ -1 \in Int
    BY <1>1
  <2>2. Multiple(v * input - b, imod)
    BY <2>1 DEF Multiple
  <2>3. QED
    BY <1>1, <2>2 DEF Multiplier
<1>4. Divisors
  BY <1>1 DEF Divisors
<1>5. QED
  BY <1>1, <1>2, <1>3, <1>4 DEF InverseInv

\* A common divisor of the new numbers was one of the old.
LEMMA DivisorsKept ==
  ASSUME Divisors, NEW x \in Int, NEW y \in Int,
         \A d \in Nat : Multiple(x, d) /\ Multiple(y, d) => Multiple(a, d) /\ Multiple(b, d)
  PROVE  \A d \in Nat : d > 0 /\ Multiple(x, d) /\ Multiple(y, d) =>
           Multiple(input, d) /\ Multiple(imod, d)
BY DEF Divisors

\* Every round keeps the multipliers and loses no common divisor.
LEMMA InverseStep == InverseInv /\ [InvNext]_invVars => InverseInv'
<1> SUFFICES ASSUME InverseInv, [InvNext]_invVars PROVE InverseInv'
  OBVIOUS
<1>0. /\ imod \in InvModuli /\ input \in 0 .. imod - 1 /\ input \in Nat
      /\ a \in Nat /\ b \in Nat /\ inverse \in Int
      /\ Multiplier(u, a) /\ Multiplier(v, b) /\ Divisors /\ OddModulus
  BY ModulusOdd DEF InverseInv, OddModulus
<1>1. CASE ReturnZero
  BY <1>1 DEF InverseInv, ReturnZero, Multiplier, Divisors
<1>2. CASE HalveA
  <2>1. /\ a = 2 * a' /\ a' \in Nat /\ (input # 0 => a' > 0)
    BY <1>2 DEF InverseInv, HalveA, even
  <2>2. Multiplier(InvUpdate(u), a')
    BY <1>0, <2>1, MultiplierHalf
  <2>3. \A d \in Nat : Multiple(a', d) /\ Multiple(b, d) => Multiple(a, d) /\ Multiple(b, d)
    BY <2>1, MultipleTimes
  <2>4. \A d \in Nat : d > 0 /\ Multiple(a', d) /\ Multiple(b, d) =>
          Multiple(input, d) /\ Multiple(imod, d)
    BY <1>0, <2>1, <2>3, DivisorsKept
  <2>5. QED
    BY <1>0, <1>2, <2>1, <2>2, <2>4 DEF InverseInv, HalveA, Looping, Multiplier, Divisors
<1>3. CASE HalveB
  <2>1. /\ b = 2 * b' /\ b' \in Nat /\ (input # 0 => b' > 0)
    BY <1>3 DEF InverseInv, HalveB, even
  <2>2. Multiplier(InvUpdate(v), b')
    BY <1>0, <2>1, MultiplierHalf
  <2>3. \A d \in Nat : Multiple(a, d) /\ Multiple(b', d) => Multiple(a, d) /\ Multiple(b, d)
    BY <2>1, MultipleTimes
  <2>4. \A d \in Nat : d > 0 /\ Multiple(a, d) /\ Multiple(b', d) =>
          Multiple(input, d) /\ Multiple(imod, d)
    BY <1>0, <2>1, <2>3, DivisorsKept
  <2>5. QED
    BY <1>0, <1>3, <2>1, <2>2, <2>4 DEF InverseInv, HalveB, Looping, Multiplier, Divisors
<1>4. CASE SubtractB
  <2>1. /\ a - b = 2 * a' /\ a' \in Nat /\ a' > 0
    BY <1>0, <1>4 DEF SubtractB, even
  <2>2. Multiplier(InvMinus(u, v), 2 * a')
    <3>1. a \in Int /\ b \in Int
      BY <1>0
    <3>2. Multiplier(InvMinus(u, v), a - b)
      BY <1>0, <3>1, MultiplierMinus
    <3>3. QED
      BY <2>1, <3>2
  <2>3. Multiplier(InvUpdate(InvMinus(u, v)), a')
    BY <1>0, <2>1, <2>2, MultiplierHalf
  <2>4. \A d \in Nat : Multiple(a', d) /\ Multiple(b, d) => Multiple(a, d) /\ Multiple(b, d)
    <3>1. a = 2 * a' + b /\ 2 * a' \in Int
      <4>1. \A x, y, t \in Nat : x - y = 2 * t => x = 2 * t + y /\ 2 * t \in Int
        OBVIOUS
      <4>2. QED
        BY <1>0, <2>1, <4>1
    <3>2. QED
      BY <1>0, <2>1, <3>1, MultipleTimes, MultipleSum
  <2>5. \A d \in Nat : d > 0 /\ Multiple(a', d) /\ Multiple(b, d) =>
          Multiple(input, d) /\ Multiple(imod, d)
    BY <1>0, <2>1, <2>4, DivisorsKept
  <2>6. QED
    BY <1>0, <1>4, <2>1, <2>3, <2>5 DEF InverseInv, SubtractB, Looping, Multiplier, Divisors
<1>5. CASE SubtractA
  <2>1. /\ b - a = 2 * b' /\ b' \in Nat /\ b' > 0
    BY <1>0, <1>5 DEF SubtractA, even
  <2>2. Multiplier(InvMinus(v, u), 2 * b')
    <3>1. b \in Int /\ a \in Int
      BY <1>0
    <3>2. Multiplier(InvMinus(v, u), b - a)
      BY <1>0, <3>1, MultiplierMinus
    <3>3. QED
      BY <2>1, <3>2
  <2>3. Multiplier(InvUpdate(InvMinus(v, u)), b')
    BY <1>0, <2>1, <2>2, MultiplierHalf
  <2>4. \A d \in Nat : Multiple(a, d) /\ Multiple(b', d) => Multiple(a, d) /\ Multiple(b, d)
    <3>1. b = 2 * b' + a /\ 2 * b' \in Int
      <4>1. \A x, y, t \in Nat : x - y = 2 * t => x = 2 * t + y /\ 2 * t \in Int
        OBVIOUS
      <4>2. QED
        BY <1>0, <2>1, <4>1
    <3>2. QED
      BY <1>0, <2>1, <3>1, MultipleTimes, MultipleSum
  <2>5. \A d \in Nat : d > 0 /\ Multiple(a, d) /\ Multiple(b', d) =>
          Multiple(input, d) /\ Multiple(imod, d)
    BY <1>0, <2>1, <2>4, DivisorsKept
  <2>6. QED
    BY <1>0, <1>5, <2>1, <2>3, <2>5 DEF InverseInv, SubtractA, Looping, Multiplier, Divisors
<1>6. CASE SetInverse
  <2>1. a = 1
    BY <1>6, MeetAtOne DEF SetInverse
  <2>2. u \in Int /\ Multiple(u * input - 1, imod)
    BY <1>0, <2>1 DEF Multiplier, OddModulus
  <2>3. QED
    BY <1>0, <1>6, <2>2 DEF InverseInv, SetInverse, Multiplier, Divisors
<1>7. CASE UNCHANGED invVars
  BY <1>7 DEF InverseInv, invVars, Multiplier, Divisors
<1>8. QED
  BY <1>1, <1>2, <1>3, <1>4, <1>5, <1>6, <1>7 DEF InvNext

(***************************************************************************)
(* For every size of the words, every prime that fits them and every       *)
(* input, through every wrap of the sums: u and v are reduced and carry    *)
(* the input to a and b, and what uECC_vli_modInv() returns is the         *)
(* inverse (uECC.c:693-739).                                               *)
(***************************************************************************)
THEOREM InverseTheorem == InvSpec => []InverseLoop
<1>1. InverseInv => InverseLoop
  <2> SUFFICES ASSUME InverseInv PROVE InverseLoop
    OBVIOUS
  <2>1. /\ imod \in Nat /\ imod > 2 /\ input \in Nat /\ a \in Nat /\ b \in Nat
        /\ inverse \in Int
    BY ModulusOdd DEF InverseInv
  <2>2. /\ u \in 0 .. imod - 1 /\ v \in 0 .. imod - 1
        /\ Multiple(u * input - a, imod) /\ Multiple(v * input - b, imod)
    BY DEF InverseInv, Multiplier
  <2>3. u * input \in Int /\ v * input \in Int /\ inverse * input \in Int
    BY <2>1, <2>2
  <2>4. (u * input) % imod = a % imod /\ (v * input) % imod = b % imod
    <3> DEFINE lhs == u * input
               rhs == v * input
    <3>1. /\ Multiple(lhs - a, imod) /\ Multiple(rhs - b, imod)
          /\ lhs \in Int /\ rhs \in Int /\ a \in Int /\ b \in Int /\ imod > 0
      BY <2>1, <2>2, <2>3
    <3> HIDE DEF lhs, rhs
    <3>2. lhs % imod = a % imod /\ rhs % imod = b % imod
      BY ZenonT(30), <2>1, <3>1, MultipleRemainder
    <3>3. QED
      BY <3>2 DEF lhs, rhs
  <2>5. ASSUME ~running, input # 0
        PROVE  (inverse * input) % imod = 1
    <3> DEFINE lhs == inverse * input
    <3>1. Multiple(lhs - 1, imod) /\ lhs \in Int /\ 1 \in Int /\ imod > 0
      BY <2>1, <2>3, <2>5 DEF InverseInv
    <3> HIDE DEF lhs
    <3>2. lhs % imod = 1 % imod
      BY <2>1, <3>1, MultipleRemainder
    <3>3. 1 = 0 * imod + 1 /\ 1 \in 0 .. imod - 1
      BY <2>1
    <3>4. QED
      BY <2>1, <3>2, <3>3, RemainderUnique DEF lhs
  <2>6. QED
    BY <2>2, <2>4, <2>5 DEF InverseLoop
<1>2. QED
  BY <1>1, InverseStart, InverseStep, PTL DEF InvSpec

-----------------------------------------------------------------------------
(* Numbers modulo a prime.                                                 *)

\* A number without an inverse has a smallest multiple that divides p.
LEMMA InverseExists ==
  ASSUME NEW p, IsPrime(p), NEW x \in 1 .. p - 1
  PROVE  \E y \in 1 .. p - 1 : (x * y) % p = 1
<1> DEFINE S == {d \in 1 .. p - 1 : \E y \in Int : Same(x * y, d, p)}
<1>1. p \in Nat /\ p > 1 /\ (\A d \in 2 .. p - 1 : p % d # 0) /\ p > 0
  BY DEF IsPrime
<1>2. PICK d \in S : \A e \in S : d <= e
  <2>1. x \in S
    <3>1. Same(x * 1, x, p)
      <4>1. x * 1 = x + 0 * p
        BY <1>1
      <4> QED BY <4>1 DEF Same
    <3> DEFINE one == 1
    <3>2. one \in Int /\ Same(x * one, x, p)
      BY <3>1
    <3> HIDE DEF one
    <3> QED BY <3>2
  <2>2. S \in SUBSET Nat
    BY <1>1
  <2> HIDE DEF S
  <2> QED BY <2>1, <2>2, Smallest
<1>3. d \in 1 .. p - 1 /\ d \in Nat
  BY <1>1
<1>4. PICK y \in Int : Same(x * y, d, p)
  OBVIOUS
<1>5. PICK k \in Int : x * y = d + k * p
  BY <1>4 DEF Same
<1> DEFINE q == p \div d
           t == p % d
<1>6. q \in Nat /\ t \in 0 .. d - 1 /\ p = q * d + t
  BY <1>1, <1>3
<1>7. d # 1 => t # 0
  BY <1>1, <1>3
<1> HIDE DEF q, t
<1>8. t = 0
  <2> SUFFICES ASSUME t # 0
               PROVE  FALSE
    OBVIOUS
  <2>1. t \in 1 .. p - 1 /\ t < d
    BY <1>3, <1>6
  <2>2. x * (0 - q * y) = t + (0 - 1 - q * k) * p
    <3>1. x * (0 - q * y) = 0 - q * (x * y) /\ x * y \in Int
      BY <1>1, <1>6
    <3>2. q * (d + k * p) = q * d + (q * k) * p /\ q * d \in Int /\ (q * k) * p \in Int
      BY <1>1, <1>3, <1>6
    <3>3. (0 - 1 - q * k) * p = 0 - p - (q * k) * p
      BY <1>1, <1>6
    <3>4. q * (x * y) = q * d + (q * k) * p
      BY <1>5, <3>2
    <3> HIDE DEF S
    <3> QED BY <1>1, <1>6, <3>1, <3>2, <3>3, <3>4
  <2>3. 0 - q * y \in Int /\ 0 - 1 - q * k \in Int
    BY <1>6
  <2>4. t \in S
    BY <2>1, <2>2, <2>3 DEF Same
  <2> HIDE DEF S
  <2> QED BY <1>2, <1>3, <2>1, <2>4
<1>9. d = 1
  BY <1>7, <1>8
<1> DEFINE n == y % p
<1>10. n \in 0 .. p - 1 /\ Same(n, y, p)
  BY <1>1, SameRemainder
<1>11. Same(x * n, 1, p)
  <2>1. p \in Int /\ x \in Int /\ n \in Int /\ 1 \in Int /\ x * n \in Int /\ x * y \in Int
    BY <1>1, <1>10
  <2> HIDE DEF n, S
  <2>2. Same(x, x, p)
    BY <2>1, SameEquivalence
  <2>3. Same(x * n, x * y, p)
    BY <1>10, <2>1, <2>2, SameOperations
  <2> QED BY <1>4, <1>9, <2>1, <2>3, SameEquivalence
<1>12. (x * n) % p = 1
  <2>1. x * n \in Int /\ 1 \in 0 .. p - 1
    BY <1>1, <1>10
  <2> HIDE DEF n, S
  <2> QED BY <1>1, <1>11, <2>1, SameRemainder
<1>13. n # 0
  <2> SUFFICES ASSUME n = 0
               PROVE  FALSE
    OBVIOUS
  <2>1. (x * 0) % p = 0
    BY <1>1
  <2> HIDE DEF n
  <2> QED BY <1>12, <2>1
<1>14. n \in 1 .. p - 1
  <2> HIDE DEF n
  <2> QED BY <1>1, <1>10, <1>13
<1> QED BY <1>12, <1>14

\* The inverses that the curve is computed with.
LEMMA InverseRight ==
  ASSUME NEW p, IsPrime(p), NEW x \in 1 .. p - 1
  PROVE  InverseMod(p)[x] \in 1 .. p - 1 /\ (x * InverseMod(p)[x]) % p = 1
<1>1. x \in 0 .. p - 1 /\ x # 0
  BY DEF IsPrime
<1>2. InverseMod(p)[x] = CHOOSE y \in 1 .. p - 1 : (x * y) % p = 1
  BY <1>1 DEF InverseMod
<1> QED BY <1>2, InverseExists

\* The numbers of the curve.
LEMMA CurveNumbers ==
  /\ IsPrime(CURVE_P) /\ CURVE_P \in Nat /\ CURVE_P > 4
  /\ IsPrime(CURVE_N) /\ CURVE_N \in Nat /\ CURVE_N > 3 /\ CURVE_N < CURVE_P
  /\ CURVE_P < 2 * CURVE_N /\ CURVE_B \in Nat
  /\ CURVE_P % 2 # 0 /\ CURVE_N % 2 # 0
<1>1. /\ CURVE_P \in Nat /\ CURVE_N \in Nat /\ CURVE_B \in Nat
      /\ 3 < CURVE_N /\ CURVE_N < CURVE_P /\ CURVE_P < 2 * CURVE_N
      /\ \A d \in 2 .. CURVE_P - 1 : CURVE_P % d # 0
      /\ \A d \in 2 .. CURVE_N - 1 : CURVE_N % d # 0
  BY CurveAssumption
<1>2. 2 \in 2 .. CURVE_P - 1 /\ 2 \in 2 .. CURVE_N - 1
  BY <1>1
<1> QED BY <1>1, <1>2 DEF IsPrime

\* Congruence modulo the prime of the curve.
Eq(x, y) == Same(x, y, CURVE_P)

\* It is an equivalence that sums, differences and products keep.
LEMMA EqRules ==
  /\ \A x \in Int : Eq(x, x)
  /\ \A x, y \in Int : Eq(x, y) => Eq(y, x)
  /\ \A x, y, t \in Int : Eq(x, y) /\ Eq(y, t) => Eq(x, t)
<1>1. CURVE_P \in Int
  BY CurveNumbers
<1> QED BY <1>1, SameEquivalence DEF Eq

\* Each of them.
LEMMA EqOperations ==
  ASSUME NEW x \in Int, NEW y \in Int, Eq(x, y), NEW t \in Int, NEW w \in Int, Eq(t, w)
  PROVE  Eq(x + t, y + w) /\ Eq(x - t, y - w) /\ Eq(x * t, y * w)
<1>1. CURVE_P \in Int
  BY CurveNumbers
<1> QED BY <1>1, SameOperations DEF Eq

\* A product with the same number.
LEMMA EqTimes ==
  ASSUME NEW x \in Int, NEW y \in Int, Eq(x, y), NEW t \in Int
  PROVE  Eq(x * t, y * t) /\ Eq(t * x, t * y)
BY EqRules, EqOperations

\* Remainders.
LEMMA EqRemainder ==
  ASSUME NEW x \in Int
  PROVE  /\ x % CURVE_P \in 0 .. CURVE_P - 1 /\ x % CURVE_P \in Int
         /\ Eq(x % CURVE_P, x) /\ Eq(x, x % CURVE_P)
         /\ \A y \in Int : Eq(x, y) => x % CURVE_P = y % CURVE_P
         /\ \A y \in 0 .. CURVE_P - 1 : Eq(x, y) => x % CURVE_P = y
<1>1. CURVE_P \in Nat /\ CURVE_P > 0
  BY CurveNumbers
<1>2. x % CURVE_P \in 0 .. CURVE_P - 1
  BY <1>1, SameRemainder
<1>3. x % CURVE_P \in Int
  BY <1>1, <1>2
<1> QED BY <1>1, <1>2, <1>3, SameRemainder DEF Eq

\* A prime divides no product of numbers that it does not divide.
LEMMA NotZeroTimes ==
  ASSUME NEW x \in Int, NEW y \in Int, ~ Eq(x, 0), ~ Eq(y, 0)
  PROVE  ~ Eq(x * y, 0)
<1> DEFINE p == CURVE_P
           xx == x % p
           yy == y % p
<1>1. IsPrime(p) /\ p \in Nat /\ p > 0 /\ 0 \in 0 .. p - 1
  BY CurveNumbers
<1>2. xx \in 0 .. p - 1 /\ xx \in Int /\ Eq(x, xx) /\ yy \in 0 .. p - 1 /\ yy \in Int /\ Eq(y, yy)
  BY EqRemainder
<1>3. xx # 0 /\ yy # 0
  BY <1>2
<1> HIDE DEF xx, yy
<1>4. xx \in 1 .. p - 1 /\ yy \in 1 .. p - 1
  BY <1>1, <1>2, <1>3
<1>5. (xx * yy) % p # 0
  BY <1>1, <1>4, Euclid
<1>6. Eq(x * y, xx * yy) /\ x * y \in Int /\ xx * yy \in Int
  BY <1>2, EqOperations
<1>7. (x * y) % p = (xx * yy) % p
  BY <1>6, EqRemainder
<1> SUFFICES ASSUME Eq(x * y, 0)
             PROVE  FALSE
  OBVIOUS
<1>8. (x * y) % p = 0
  BY <1>1, <1>6, EqRemainder
<1> QED BY <1>5, <1>7, <1>8

\* A factor that the prime does not divide can be cancelled.
LEMMA EqCancel ==
  ASSUME NEW x \in Int, NEW y \in Int, NEW t \in Int, ~ Eq(t, 0), Eq(x * t, y * t)
  PROVE  Eq(x, y)
<1>1. Eq(x * t - y * t, 0)
  <2>1. y * t \in Int /\ x * t \in Int /\ Eq(y * t, y * t)
    BY EqRules
  <2>2. Eq(x * t - y * t, y * t - y * t)
    BY <2>1, EqOperations
  <2>3. y * t - y * t = 0
    BY <2>1
  <2> QED BY <2>2, <2>3
<1>2. (x - y) * t = x * t - y * t /\ x - y \in Int
  OBVIOUS
<1>3. Eq((x - y) * t, 0)
  BY <1>1, <1>2
<1>4. Eq(x - y, 0)
  BY <1>2, <1>3, NotZeroTimes
<1>5. Eq((x - y) + y, 0 + y)
  BY <1>2, <1>4, EqRules, EqOperations
<1>6. (x - y) + y = x /\ 0 + y = y
  OBVIOUS
<1> QED BY <1>5, <1>6

\* The inverse of a coordinate.
LEMMA InvPRight ==
  ASSUME NEW x \in 1 .. CURVE_P - 1
  PROVE  InvP[x] \in 1 .. CURVE_P - 1 /\ Eq(x * InvP[x], 1) /\ ~ Eq(x, 0)
<1>1. IsPrime(CURVE_P) /\ CURVE_P \in Nat /\ CURVE_P > 4
  BY CurveNumbers
<1>2. InvP[x] \in 1 .. CURVE_P - 1 /\ (x * InvP[x]) % CURVE_P = 1
  BY <1>1, InverseRight DEF InvP
<1>3. x * InvP[x] \in Int /\ x \in Int
  BY <1>1, <1>2
<1>4. Eq(x * InvP[x], 1)
  BY <1>2, <1>3, EqRemainder
<1>5. ~ Eq(x, 0)
  <2> SUFFICES ASSUME Eq(x, 0)
               PROVE  FALSE
    OBVIOUS
  <2>1. 0 \in 0 .. CURVE_P - 1 /\ x % CURVE_P = x
    BY <1>1
  <2> QED BY <1>3, <2>1, EqRemainder
<1> QED BY <1>2, <1>4, <1>5

\* Points are equal if their coordinates are.
LEMMA PointsEqual ==
  ASSUME NEW p \in Coordinates, NEW q \in Coordinates, Eq(p[1], q[1]), Eq(p[2], q[2])
  PROVE  p = q
<1>1. /\ p[1] \in 0 .. CURVE_P - 1 /\ p[2] \in 0 .. CURVE_P - 1
      /\ q[1] \in 0 .. CURVE_P - 1 /\ q[2] \in 0 .. CURVE_P - 1
      /\ p = <<p[1], p[2]>> /\ q = <<q[1], q[2]>>
  BY DEF Coordinates
<1>2. /\ p[1] \in Int /\ p[2] \in Int /\ q[1] \in Int /\ q[2] \in Int
      /\ p[1] % CURVE_P = p[1] /\ p[2] % CURVE_P = p[2]
  BY <1>1, CurveNumbers
<1>3. p[1] = q[1] /\ p[2] = q[2]
  BY <1>1, <1>2, EqRemainder
<1> QED BY <1>1, <1>3

\* The coordinates of a point are numbers, and a pair of remainders is one.
LEMMA PointNumbers ==
  /\ \A p \in Coordinates : p[1] \in Int /\ p[2] \in Int
  /\ \A x, y \in Int : <<x % CURVE_P, y % CURVE_P>> \in Coordinates
<1>1. ASSUME NEW p \in Coordinates
      PROVE  p[1] \in Int /\ p[2] \in Int
  BY CurveNumbers DEF Coordinates
<1>2. ASSUME NEW x \in Int, NEW y \in Int
      PROVE  <<x % CURVE_P, y % CURVE_P>> \in Coordinates
  BY EqRemainder DEF Coordinates
<1> QED BY <1>1, <1>2

\* What apply_z() makes of a point.
LEMMA ApplyZIs ==
  ASSUME NEW p \in Coordinates, NEW zz \in Int
  PROVE  /\ ApplyZ(p, zz) \in Coordinates
         /\ Eq(ApplyZ(p, zz)[1], p[1] * (zz * zz))
         /\ Eq(ApplyZ(p, zz)[2], p[2] * (zz * (zz * zz)))
<1> DEFINE z2 == (zz * zz) % CURVE_P
           z3 == (z2 * zz) % CURVE_P
           x == p[1] * z2
           y == p[2] * z3
<1>1. p[1] \in Int /\ p[2] \in Int /\ zz * zz \in Int /\ zz * (zz * zz) \in Int
  BY PointNumbers
<1>2. z2 \in Int /\ Eq(z2, zz * zz)
  BY <1>1, EqRemainder
<1> HIDE DEF z2
<1>3. z3 \in Int /\ Eq(z3, z2 * zz)
  BY <1>2, EqRemainder
<1>4. Eq(z2 * zz, zz * (zz * zz)) /\ z2 * zz \in Int
  BY <1>1, <1>2, EqTimes
<1> HIDE DEF z3
<1>5. Eq(z3, zz * (zz * zz))
  BY <1>1, <1>3, <1>4, EqRules
<1>6. Eq(x, p[1] * (zz * zz)) /\ x \in Int /\ p[1] * (zz * zz) \in Int
  <2>1. Eq(p[1] * z2, p[1] * (zz * zz))
    BY <1>1, <1>2, EqTimes
  <2>2. p[1] * z2 \in Int /\ p[1] * (zz * zz) \in Int
    BY <1>1, <1>2
  <2> QED BY <2>1, <2>2
<1>7. Eq(y, p[2] * (zz * (zz * zz))) /\ y \in Int /\ p[2] * (zz * (zz * zz)) \in Int
  <2>1. Eq(p[2] * z3, p[2] * (zz * (zz * zz)))
    BY <1>1, <1>3, <1>5, EqTimes
  <2>2. p[2] * z3 \in Int /\ p[2] * (zz * (zz * zz)) \in Int
    BY <1>1, <1>3
  <2> QED BY <2>1, <2>2
<1>8. ApplyZ(p, zz) = <<x % CURVE_P, y % CURVE_P>>
  BY DEF ApplyZ, z2, z3
<1> HIDE DEF x, y
<1>9. /\ ApplyZ(p, zz) \in Coordinates
      /\ ApplyZ(p, zz)[1] = x % CURVE_P /\ ApplyZ(p, zz)[2] = y % CURVE_P
  BY <1>6, <1>7, <1>8, PointNumbers
<1>10. Eq(x % CURVE_P, x) /\ x % CURVE_P \in Int
  BY <1>6, EqRemainder
<1>11. Eq(y % CURVE_P, y) /\ y % CURVE_P \in Int
  BY <1>7, EqRemainder
<1>12. Eq(x % CURVE_P, p[1] * (zz * zz))
  BY <1>6, <1>10, EqRules
<1>13. Eq(y % CURVE_P, p[2] * (zz * (zz * zz)))
  BY <1>7, <1>11, EqRules
<1> QED BY <1>9, <1>12, <1>13

\* The only such point.
LEMMA ApplyZUnique ==
  ASSUME NEW p \in Coordinates, NEW zz \in Int, NEW q \in Coordinates,
         Eq(q[1], p[1] * (zz * zz)), Eq(q[2], p[2] * (zz * (zz * zz)))
  PROVE  q = ApplyZ(p, zz)
<1> DEFINE t == ApplyZ(p, zz)
           x == p[1] * (zz * zz)
           y == p[2] * (zz * (zz * zz))
<1>1. t \in Coordinates /\ Eq(t[1], x) /\ Eq(t[2], y)
  BY ApplyZIs
<1>2. /\ t[1] \in Int /\ t[2] \in Int /\ q[1] \in Int /\ q[2] \in Int
      /\ x \in Int /\ y \in Int
  BY <1>1, PointNumbers
<1> HIDE DEF t, x, y
<1>3. Eq(q[1], t[1]) /\ Eq(q[2], t[2])
  BY <1>1, <1>2, EqRules DEF x, y
<1> QED BY <1>1, <1>3, PointsEqual DEF t

\* With 1 the point is the same.
LEMMA ApplyZOne ==
  ASSUME NEW p \in Coordinates
  PROVE  ApplyZ(p, 1) = p
<1>1. p[1] \in Int /\ p[2] \in Int
  BY PointNumbers
<1>2. p[1] * (1 * 1) = p[1] /\ p[2] * (1 * (1 * 1)) = p[2]
  BY <1>1
<1>3. Eq(p[1], p[1]) /\ Eq(p[2], p[2])
  BY <1>1, EqRules
<1>4. Eq(p[1], p[1] * (1 * 1)) /\ Eq(p[2], p[2] * (1 * (1 * 1)))
  BY <1>2, <1>3
<1>5. 1 \in Int
  OBVIOUS
<1> QED BY <1>4, <1>5, ApplyZUnique

\* With 1 / z it is the affine point again.
LEMMA ApplyZBack ==
  ASSUME NEW p \in Coordinates, NEW zz \in Int, NEW inv \in Int, Eq(zz * inv, 1)
  PROVE  ApplyZ(ApplyZ(p, zz), inv) = p
<1> DEFINE q == ApplyZ(p, zz)
           e == zz * inv
           x == p[1] * (zz * zz)
           y == p[2] * (zz * (zz * zz))
<1>1. q \in Coordinates /\ Eq(q[1], x) /\ Eq(q[2], y)
  BY ApplyZIs
<1>2. q[1] \in Int /\ q[2] \in Int /\ p[1] \in Int /\ p[2] \in Int /\ x \in Int /\ y \in Int /\ e \in Int
  BY <1>1, PointNumbers
<1>3. Eq(e * e, 1) /\ Eq(e * (e * e), 1)
  <2>1. 1 \in Int /\ 1 * 1 = 1 /\ e * e \in Int
    BY <1>2
  <2> HIDE DEF e
  <2>2. Eq(e, 1)
    BY DEF e
  <2>3. Eq(e * e, 1 * 1)
    BY <1>2, <2>1, <2>2, EqOperations
  <2>4. Eq(e * (e * e), 1 * (1 * 1))
    BY <1>2, <2>1, <2>2, <2>3, EqOperations
  <2> QED BY <2>1, <2>3, <2>4
<1>4. /\ x * (inv * inv) = p[1] * (e * e)
      /\ y * (inv * (inv * inv)) = p[2] * (e * (e * e))
  BY <1>2
<1>5. p[1] * 1 = p[1] /\ p[2] * 1 = p[2] /\ e * e \in Int /\ e * (e * e) \in Int /\ 1 \in Int
  BY <1>2
<1> HIDE DEF e
<1>6. Eq(p[1] * (e * e), p[1]) /\ Eq(p[2] * (e * (e * e)), p[2])
  <2>1. Eq(p[1] * (e * e), p[1] * 1)
    BY <1>2, <1>3, <1>5, EqTimes
  <2>2. Eq(p[2] * (e * (e * e)), p[2] * 1)
    BY <1>2, <1>3, <1>5, EqTimes
  <2> QED BY <1>5, <2>1, <2>2
<1> HIDE DEF x, y, q
<1>7. inv * inv \in Int /\ inv * (inv * inv) \in Int
  OBVIOUS
<1>8. Eq(q[1] * (inv * inv), x * (inv * inv)) /\ Eq(q[2] * (inv * (inv * inv)), y * (inv * (inv * inv)))
  BY <1>1, <1>2, <1>7, EqTimes
<1>9. Eq(q[1] * (inv * inv), p[1])
  <2>1. q[1] * (inv * inv) \in Int /\ x * (inv * inv) \in Int
    BY <1>2, <1>7
  <2> QED BY <1>2, <1>4, <1>6, <1>8, <2>1, EqRules
<1>10. Eq(q[2] * (inv * (inv * inv)), p[2])
  <2>1. q[2] * (inv * (inv * inv)) \in Int /\ y * (inv * (inv * inv)) \in Int
    BY <1>2, <1>7
  <2> QED BY <1>2, <1>4, <1>6, <1>8, <2>1, EqRules
<1>11. Eq(p[1], q[1] * (inv * inv)) /\ Eq(p[2], q[2] * (inv * (inv * inv)))
  <2>1. q[1] * (inv * inv) \in Int /\ q[2] * (inv * (inv * inv)) \in Int
    BY <1>2, <1>7
  <2> QED BY <1>2, <1>9, <1>10, <2>1, EqRules
<1>12. p = ApplyZ(q, inv)
  BY <1>1, <1>11, ApplyZUnique
<1> QED BY <1>12 DEF q

-----------------------------------------------------------------------------
(* The addition of points that share a Z.                                  *)

\* The slope of the line through two points, and where it meets the curve again.
Slope(p, q) ==
  IF p = q THEN (3 * p[1] * p[1] * InvP[(2 * p[2]) % CURVE_P]) % CURVE_P
  ELSE ((q[2] - p[2]) * InvP[(q[1] - p[1]) % CURVE_P]) % CURVE_P

\* Infinity has no coordinates.
LEMMA NoInfinity == Infinity \notin Coordinates
<1> SUFFICES ASSUME NEW p \in Coordinates, p = Infinity
             PROVE  FALSE
  OBVIOUS
<1>1. Len(p) = 2
  <2>1. p = <<p[1], p[2]>>
    BY DEF Coordinates
  <2>2. Len(<<p[1], p[2]>>) = 2
    OBVIOUS
  <2> QED BY <2>1, <2>2
<1>2. Len(Infinity) = 0
  BY DEF Infinity
<1> QED BY <1>1, <1>2

\* The sum of two points that are not opposite.
LEMMA PlusIs ==
  ASSUME NEW p \in Coordinates, NEW q \in Coordinates,
         ~ (p[1] = q[1] /\ (p[2] + q[2]) % CURVE_P = 0), Slope(p, q) \in Int
  PROVE  LET l == Slope(p, q)
             x == (l * l - p[1] - q[1]) % CURVE_P
         IN  /\ Plus(p, q) = <<x, (l * (p[1] - x) - p[2]) % CURVE_P>>
             /\ Plus(p, q) \in Coordinates
             /\ Eq(Plus(p, q)[1], l * l - p[1] - q[1])
             /\ Eq(Plus(p, q)[2], l * (p[1] - Plus(p, q)[1]) - p[2])
<1> DEFINE l == Slope(p, q)
           x == (l * l - p[1] - q[1]) % CURVE_P
           y == (l * (p[1] - x) - p[2]) % CURVE_P
<1>1. p # Infinity /\ q # Infinity
  BY NoInfinity
<1>2. Plus(p, q) = <<x, y>>
  BY <1>1 DEF Plus, Slope
<1>3. p[1] \in Int /\ p[2] \in Int /\ q[1] \in Int /\ q[2] \in Int /\ l \in Int
  BY PointNumbers
<1> HIDE DEF l
<1>4. x \in Int /\ x \in 0 .. CURVE_P - 1 /\ Eq(x, l * l - p[1] - q[1])
  <2>1. l * l - p[1] - q[1] \in Int
    BY <1>3
  <2> QED BY <2>1, EqRemainder
<1> HIDE DEF x
<1>5. y \in 0 .. CURVE_P - 1 /\ Eq(y, l * (p[1] - x) - p[2])
  <2>1. l * (p[1] - x) - p[2] \in Int
    BY <1>3, <1>4
  <2> QED BY <2>1, EqRemainder
<1> HIDE DEF y
<1>6. Plus(p, q)[1] = x /\ Plus(p, q)[2] = y /\ Plus(p, q) \in Coordinates
  BY <1>2, <1>4, <1>5 DEF Coordinates
<1>7. Eq(Plus(p, q)[1], l * l - p[1] - q[1]) /\ Eq(Plus(p, q)[2], l * (p[1] - Plus(p, q)[1]) - p[2])
  BY <1>4, <1>5, <1>6
<1> QED BY <1>2, <1>6, <1>7 DEF l, x, y

\* The slope between points with different x.
LEMMA SlopeIs ==
  ASSUME NEW p \in Coordinates, NEW q \in Coordinates, p[1] # q[1]
  PROVE  /\ Slope(p, q) \in Int /\ ~ Eq(q[1] - p[1], 0)
         /\ Eq(Slope(p, q) * (q[1] - p[1]), q[2] - p[2])
<1> DEFINE d == q[1] - p[1]
           e == q[2] - p[2]
           n == d % CURVE_P
<1>1. /\ p[1] \in 0 .. CURVE_P - 1 /\ q[1] \in 0 .. CURVE_P - 1
      /\ CURVE_P \in Nat /\ CURVE_P > 4
  BY CurveNumbers DEF Coordinates
<1>2. d \in Int /\ e \in Int /\ d # 0 /\ d < CURVE_P /\ d > 0 - CURVE_P
  BY <1>1, PointNumbers
<1>3. p # q
  OBVIOUS
<1>4. Slope(p, q) = (e * InvP[n]) % CURVE_P
  BY <1>3 DEF Slope
<1> HIDE DEF d, e
<1>5. n # 0 /\ n \in 0 .. CURVE_P - 1
  <2>1. n \in 0 .. CURVE_P - 1 /\ (d > 0 => n = d) /\ (d < 0 => n = d + CURVE_P)
    BY <1>1, <1>2
  <2> QED BY <1>1, <1>2, <2>1
<1>6. n \in 1 .. CURVE_P - 1 /\ n \in Int
  BY <1>1, <1>5
<1>7. Eq(n, d) /\ Eq(d, n)
  BY <1>2, EqRemainder
<1> HIDE DEF n
<1> DEFINE inv == InvP[n]
<1>8. inv \in Int /\ Eq(n * inv, 1) /\ ~ Eq(n, 0)
  BY <1>1, <1>6, InvPRight
<1> HIDE DEF inv
<1>9. ~ Eq(d, 0)
  <2>1. 0 \in Int
    OBVIOUS
  <2> QED BY <1>2, <1>6, <1>7, <1>8, <2>1, EqRules
<1> DEFINE l == (e * inv) % CURVE_P
<1>10. l \in Int /\ Eq(l, e * inv) /\ e * inv \in Int
  <2>1. e * inv \in Int
    BY <1>2, <1>8
  <2> QED BY <2>1, EqRemainder
<1> HIDE DEF l
<1>11. Eq(l * d, (e * inv) * n)
  BY <1>2, <1>6, <1>7, <1>10, EqOperations
<1>12. (e * inv) * n = e * (n * inv) /\ e * 1 = e /\ n * inv \in Int /\ 1 \in Int
  BY <1>2, <1>6, <1>8
<1>13. Eq(e * (n * inv), e * 1)
  BY <1>2, <1>8, <1>12, EqTimes
<1>14. l * d \in Int /\ e * (n * inv) \in Int
  BY <1>2, <1>10, <1>12
<1>15. Eq(l * d, e)
  BY <1>2, <1>11, <1>12, <1>13, <1>14, EqRules
<1>16. Slope(p, q) = l
  BY <1>4 DEF l, inv
<1> QED BY <1>9, <1>10, <1>15, <1>16 DEF d, e

\* Congruent to the same number.
LEMMA EqVia ==
  ASSUME NEW x \in Int, NEW y \in Int, NEW t \in Int, Eq(x, y), Eq(y, t)
  PROVE  Eq(x, t)
BY EqRules

\* Differences.
LEMMA EqMinus ==
  ASSUME NEW x \in Int, NEW y \in Int, Eq(x, y), NEW t \in Int, NEW w \in Int, Eq(t, w)
  PROVE  Eq(x - t, y - w) /\ x - t \in Int /\ y - w \in Int
BY EqOperations

\* A number is another times w, its square or its cube.
Times1(X, x, w) == Eq(X, x * w)
Times2(X, x, w) == Eq(X, x * (w * w))
Times3(X, x, w) == Eq(X, x * (w * (w * w)))

\* The slope l of the line through two points, and its third point, negated.
IsSlope(l, x1, y1, x2, y2) == Eq(l * (x2 - x1), y2 - y1)
IsThird(xs, ys, l, x1, y1, x2) == Eq(xs, l * l - x1 - x2) /\ Eq(ys, l * (x1 - xs) - y1)

\* The temporaries of XYcZ_add().
AddTerms(X1, Y1, X2, Y2, A, B, C, dy, E) ==
  /\ Eq(A, (X2 - X1) * (X2 - X1)) /\ Eq(B, X1 * A) /\ Eq(C, X2 * A)
  /\ Eq(dy, Y2 - Y1) /\ Eq(E, Y1 * (C - B))

\* Its computation, from two points that are scaled by zz.
Adding(x1, y1, x2, y2, l, zz, X1, Y1, X2, Y2, A, B, C, dy, E, w) ==
  /\ x1 \in Int /\ y1 \in Int /\ x2 \in Int /\ y2 \in Int /\ l \in Int /\ zz \in Int
  /\ X1 \in Int /\ Y1 \in Int /\ X2 \in Int /\ Y2 \in Int
  /\ A \in Int /\ B \in Int /\ C \in Int /\ dy \in Int /\ E \in Int
  /\ w \in Int /\ w = zz * (X2 - X1)
  /\ IsSlope(l, x1, y1, x2, y2)
  /\ Times2(X1, x1, zz) /\ Times3(Y1, y1, zz) /\ Times2(X2, x2, zz) /\ Times3(Y2, y2, zz)
  /\ AddTerms(X1, Y1, X2, Y2, A, B, C, dy, E)

\* The temporaries are the coordinates and the slope, scaled by a number w.
LEMMA AddFormulas ==
  ASSUME NEW x1, NEW y1, NEW x2, NEW y2, NEW l, NEW zz, NEW X1, NEW Y1, NEW X2, NEW Y2,
         NEW A, NEW B, NEW C, NEW dy, NEW E, NEW w,
         Adding(x1, y1, x2, y2, l, zz, X1, Y1, X2, Y2, A, B, C, dy, E, w)
  PROVE  /\ Times3(w, x2 - x1, zz) /\ Times2(B, x1, w) /\ Times2(C, x2, w)
         /\ Times1(dy, l, w) /\ Times3(E, y1, w)
<1>0. /\ x1 \in Int /\ y1 \in Int /\ x2 \in Int /\ y2 \in Int /\ l \in Int /\ zz \in Int
      /\ X1 \in Int /\ Y1 \in Int /\ X2 \in Int /\ Y2 \in Int
      /\ A \in Int /\ B \in Int /\ C \in Int /\ dy \in Int /\ E \in Int
      /\ w \in Int /\ w = zz * (X2 - X1)
      /\ Eq(l * (x2 - x1), y2 - y1)
      /\ Eq(X1, x1 * (zz * zz)) /\ Eq(Y1, y1 * (zz * (zz * zz)))
      /\ Eq(X2, x2 * (zz * zz)) /\ Eq(Y2, y2 * (zz * (zz * zz)))
      /\ Eq(A, (X2 - X1) * (X2 - X1)) /\ Eq(B, X1 * A) /\ Eq(C, X2 * A)
      /\ Eq(dy, Y2 - Y1) /\ Eq(E, Y1 * (C - B))
  BY Zenon DEF Adding, Times2, Times3, IsSlope, AddTerms
<1> USE <1>0 DEF Times1, Times2, Times3
<1> DEFINE z2 == zz * zz
           z3 == zz * (zz * zz)
           d == x2 - x1
           D == X2 - X1
           D2 == D * D
           w2 == w * w
           w3 == w * (w * w)
<1>1. z2 \in Int /\ z3 \in Int /\ d \in Int /\ D \in Int /\ D2 \in Int /\ w2 \in Int /\ w3 \in Int
  OBVIOUS
<1>2. Eq(D, x2 * z2 - x1 * z2) /\ x2 * z2 - x1 * z2 \in Int
  <2>1. x2 * z2 \in Int /\ x1 * z2 \in Int
    OBVIOUS
  <2>2. Eq(X2, x2 * z2) /\ Eq(X1, x1 * z2)
    OBVIOUS
  <2> DEFINE e == x2 * z2
             f == x1 * z2
  <2>3. e \in Int /\ f \in Int /\ Eq(X2, e) /\ Eq(X1, f)
    BY <2>1, <2>2
  <2> HIDE DEF e, f
  <2>4. Eq(X2 - X1, e - f) /\ e - f \in Int
    BY <2>3, EqMinus
  <2> QED BY <2>4 DEF e, f
<1>3. Eq(w, z3 * d)
  <2>1. zz * (x2 * z2 - x1 * z2) = z3 * d
    OBVIOUS
  <2>2. Eq(zz * D, zz * (x2 * z2 - x1 * z2))
    <3> HIDE DEF D, z2
    <3> QED BY <1>1, <1>2, EqTimes
  <2> QED BY <2>1, <2>2
<1>4. \A x, X \in Int : Eq(X, x * z2) => Eq(X * A, x * w2)
  <2> SUFFICES ASSUME NEW x \in Int, NEW X \in Int, Eq(X, x * z2)
               PROVE  Eq(X * A, x * w2)
    OBVIOUS
  <2>1. (x * z2) * D2 = x * w2 /\ x * z2 \in Int
    OBVIOUS
  <2>2. Eq(A, D2)
    OBVIOUS
  <2> HIDE DEF z2, D2, w2
  <2>3. Eq(X * A, (x * z2) * D2)
    BY <1>1, <2>1, <2>2, EqOperations
  <2> QED BY <2>1, <2>3
<1>5. Eq(B, x1 * w2) /\ Eq(C, x2 * w2) /\ x1 * w2 \in Int /\ x2 * w2 \in Int
  <2>1. Eq(X1 * A, x1 * w2) /\ Eq(X2 * A, x2 * w2)
    BY <1>4
  <2>2. X1 * A \in Int /\ X2 * A \in Int /\ x1 * w2 \in Int /\ x2 * w2 \in Int
    OBVIOUS
  <2> HIDE DEF w2
  <2> QED BY <2>1, <2>2, EqVia
<1>6. Eq(dy, l * w)
  <2>1. y2 * z3 \in Int /\ y1 * z3 \in Int /\ (y2 - y1) * z3 = y2 * z3 - y1 * z3
        /\ (l * d) * z3 = l * (z3 * d) /\ l * d \in Int /\ y2 - y1 \in Int
    OBVIOUS
  <2>2. Eq(Y2, y2 * z3) /\ Eq(Y1, y1 * z3) /\ Eq(l * d, y2 - y1)
    OBVIOUS
  <2>9. z3 * d \in Int /\ l * w \in Int /\ l * (z3 * d) \in Int /\ Y2 - Y1 \in Int
    OBVIOUS
  <2> HIDE DEF z3, d
  <2>3. Eq(Y2 - Y1, y2 * z3 - y1 * z3) /\ y2 * z3 - y1 * z3 \in Int
    <3> DEFINE e == y2 * z3
               f == y1 * z3
    <3>1. e \in Int /\ f \in Int /\ Eq(Y2, e) /\ Eq(Y1, f)
      BY <2>1, <2>2
    <3> HIDE DEF e, f
    <3>2. Eq(Y2 - Y1, e - f) /\ e - f \in Int
      BY <3>1, EqMinus
    <3> QED BY <3>2 DEF e, f
  <2>4. Eq((l * d) * z3, (y2 - y1) * z3)
    BY <1>1, <2>1, <2>2, EqTimes
  <2>5. Eq(l * w, l * (z3 * d))
    BY <1>3, <2>9, EqTimes
  <2> DEFINE e == y2 * z3 - y1 * z3
             f == l * (z3 * d)
             g == l * w
  <2>6. Eq(f, e) /\ Eq(g, f) /\ Eq(Y2 - Y1, e) /\ e \in Int /\ f \in Int /\ g \in Int
    BY <2>1, <2>3, <2>4, <2>5, <2>9
  <2> HIDE DEF e, f, g
  <2>7. Eq(dy, e)
    BY <2>3, <2>6, <2>9, EqVia
  <2>8. Eq(g, e)
    BY <2>6, EqVia
  <2>10. Eq(dy, g)
    BY <2>6, <2>7, <2>8, EqRules
  <2> QED BY <2>10 DEF g
<1>7. Eq(E, y1 * w3)
  <2>1. Eq(C - B, x2 * w2 - x1 * w2) /\ x2 * w2 - x1 * w2 \in Int
    <3> DEFINE e == x2 * w2
               f == x1 * w2
    <3>1. e \in Int /\ f \in Int /\ Eq(C, e) /\ Eq(B, f)
      BY <1>5
    <3> HIDE DEF e, f
    <3>2. Eq(C - B, e - f) /\ e - f \in Int
      BY <3>1, EqMinus
    <3> QED BY <3>2 DEF e, f
  <2>2. y1 * z3 \in Int /\ Eq(Y1, y1 * z3) /\ C - B \in Int
    OBVIOUS
  <2>3. Eq(Y1 * (C - B), (y1 * z3) * (x2 * w2 - x1 * w2))
    <3> HIDE DEF z3, w2
    <3> QED BY <2>1, <2>2, EqOperations
  <2>4. (y1 * z3) * (x2 * w2 - x1 * w2) = (y1 * w2) * (z3 * d) /\ (y1 * w2) * w = y1 * w3
    <3> HIDE DEF z3
    <3> QED BY <1>1
  <2>5. Eq((y1 * w2) * w, (y1 * w2) * (z3 * d))
    <3>1. y1 * w2 \in Int /\ z3 * d \in Int
      OBVIOUS
    <3> HIDE DEF z3, w2, d
    <3> QED BY <1>3, <3>1, EqTimes
  <2> DEFINE e == (y1 * w2) * (z3 * d)
             f == y1 * w3
             g == Y1 * (C - B)
  <2>6. e \in Int /\ f \in Int /\ g \in Int
    BY <1>1
  <2>7. Eq(E, g) /\ Eq(g, e) /\ Eq(f, e)
    BY <2>3, <2>4, <2>5
  <2> HIDE DEF e, f, g
  <2>8. Eq(E, e)
    BY <2>6, <2>7, EqVia
  <2>9. Eq(E, f)
    BY <2>6, <2>7, <2>8, EqRules
  <2> QED BY <2>9 DEF f
<1>8. z3 * d = (x2 - x1) * (zz * (zz * zz))
  OBVIOUS
<1> QED BY <1>3, <1>5, <1>6, <1>7, <1>8

\* The end of the computation, from the temporaries.
Closing(x1, y1, x2, l, w, xs, ys, B, C, dy, E, x3, y3) ==
  /\ x1 \in Int /\ y1 \in Int /\ x2 \in Int /\ l \in Int /\ w \in Int
  /\ xs \in Int /\ ys \in Int
  /\ B \in Int /\ C \in Int /\ dy \in Int /\ E \in Int /\ x3 \in Int /\ y3 \in Int
  /\ IsThird(xs, ys, l, x1, y1, x2)
  /\ Times2(B, x1, w) /\ Times2(C, x2, w) /\ Times1(dy, l, w) /\ Times3(E, y1, w)
  /\ IsThird(x3, y3, dy, B, E, C)

\* Its results are the third point, scaled by w.
LEMMA ThirdPoint ==
  ASSUME NEW x1, NEW y1, NEW x2, NEW l, NEW w, NEW xs, NEW ys, NEW B, NEW C, NEW dy, NEW E,
         NEW x3, NEW y3, Closing(x1, y1, x2, l, w, xs, ys, B, C, dy, E, x3, y3)
  PROVE  Times2(x3, xs, w) /\ Times3(y3, ys, w)
<1>0. /\ x1 \in Int /\ y1 \in Int /\ x2 \in Int /\ l \in Int /\ w \in Int
      /\ xs \in Int /\ ys \in Int
      /\ B \in Int /\ C \in Int /\ dy \in Int /\ E \in Int /\ x3 \in Int /\ y3 \in Int
      /\ Eq(xs, l * l - x1 - x2) /\ Eq(ys, l * (x1 - xs) - y1)
      /\ Eq(B, x1 * (w * w)) /\ Eq(C, x2 * (w * w)) /\ Eq(dy, l * w) /\ Eq(E, y1 * (w * (w * w)))
      /\ Eq(x3, dy * dy - B - C) /\ Eq(y3, dy * (B - x3) - E)
  BY Zenon DEF Closing, Times1, Times2, Times3, IsThird
<1> USE <1>0 DEF Times1, Times2, Times3
<1> DEFINE w2 == w * w
           w3 == w * (w * w)
           lw == l * w
<1>1. w2 \in Int /\ w3 \in Int /\ lw \in Int /\ lw * lw \in Int /\ dy * dy \in Int
  OBVIOUS
<1>2. Eq(B, x1 * w2) /\ Eq(C, x2 * w2) /\ Eq(dy, lw) /\ Eq(E, y1 * w3)
  OBVIOUS
<1>3. x1 * w2 \in Int /\ x2 * w2 \in Int /\ y1 * w3 \in Int
  OBVIOUS
<1>4. Eq(x3, xs * w2)
  <2>1. (l * l - x1 - x2) * w2 = lw * lw - x1 * w2 - x2 * w2 /\ l * l - x1 - x2 \in Int
    OBVIOUS
  <2> HIDE DEF w2, lw
  <2>2. Eq(dy * dy, lw * lw)
    BY <1>1, <1>2, EqOperations
  <2>3. Eq(dy * dy - B, lw * lw - x1 * w2) /\ dy * dy - B \in Int /\ lw * lw - x1 * w2 \in Int
    BY <1>1, <1>2, <1>3, <2>2, EqOperations
  <2>4. Eq(dy * dy - B - C, lw * lw - x1 * w2 - x2 * w2)
    BY <1>2, <1>3, <2>3, EqOperations
  <2>5. Eq(xs * w2, (l * l - x1 - x2) * w2)
    BY <1>1, <2>1, EqTimes
  <2> DEFINE e == lw * lw - x1 * w2 - x2 * w2
             f == xs * w2
             g == dy * dy - B - C
  <2>6. e \in Int /\ f \in Int /\ g \in Int
    BY <1>1, <1>3
  <2>7. Eq(x3, g) /\ Eq(g, e) /\ Eq(f, e)
    BY <2>1, <2>4, <2>5
  <2> HIDE DEF e, f, g
  <2>8. Eq(x3, e)
    BY <2>6, <2>7, EqVia
  <2>9. Eq(x3, f)
    BY <2>6, <2>7, <2>8, EqRules
  <2> QED BY <2>9 DEF f
<1>5. Eq(y3, ys * w3)
  <2>1. (l * (x1 - xs) - y1) * w3 = lw * (x1 * w2 - xs * w2) - y1 * w3
        /\ l * (x1 - xs) - y1 \in Int /\ xs * w2 \in Int
    OBVIOUS
  <2> HIDE DEF w2, w3, lw
  <2>2. Eq(B - x3, x1 * w2 - xs * w2) /\ B - x3 \in Int /\ x1 * w2 - xs * w2 \in Int
    <3> DEFINE e == x1 * w2
               f == xs * w2
    <3>1. e \in Int /\ f \in Int /\ Eq(B, e) /\ Eq(x3, f)
      BY <1>2, <1>3, <1>4, <2>1
    <3> HIDE DEF e, f
    <3>2. Eq(B - x3, e - f) /\ B - x3 \in Int /\ e - f \in Int
      BY <3>1, EqMinus
    <3> QED BY <3>2 DEF e, f
  <2>3. Eq(dy * (B - x3), lw * (x1 * w2 - xs * w2))
    BY <1>1, <1>2, <2>2, EqOperations
  <2>4. dy * (B - x3) \in Int /\ lw * (x1 * w2 - xs * w2) \in Int
    BY <1>1, <2>2
  <2>5. Eq(dy * (B - x3) - E, lw * (x1 * w2 - xs * w2) - y1 * w3)
    BY <1>2, <1>3, <2>3, <2>4, EqOperations
  <2>6. Eq(ys * w3, (l * (x1 - xs) - y1) * w3)
    BY <1>1, <2>1, EqTimes
  <2> DEFINE e == lw * (x1 * w2 - xs * w2) - y1 * w3
             f == ys * w3
             g == dy * (B - x3) - E
  <2>7. e \in Int /\ f \in Int /\ g \in Int
    BY <1>1, <1>3, <2>4
  <2>8. Eq(y3, g) /\ Eq(g, e) /\ Eq(f, e)
    BY <2>1, <2>5, <2>6
  <2> HIDE DEF e, f, g
  <2>9. Eq(y3, e)
    BY <2>7, <2>8, EqVia
  <2>10. Eq(y3, f)
    BY <2>7, <2>8, <2>9, EqRules
  <2> QED BY <2>10 DEF f
<1> QED BY <1>4, <1>5

\* apply_z() depends on zz modulo the prime only.
LEMMA ApplyZSame ==
  ASSUME NEW p \in Coordinates, NEW zz \in Int, NEW w \in Int, Eq(zz, w)
  PROVE  ApplyZ(p, zz) = ApplyZ(p, w)
<1> DEFINE t == ApplyZ(p, zz)
           e == p[1] * (zz * zz)
           f == p[2] * (zz * (zz * zz))
           g == p[1] * (w * w)
           h == p[2] * (w * (w * w))
<1>1. p[1] \in Int /\ p[2] \in Int
  BY PointNumbers
<1>2. zz * zz \in Int /\ w * w \in Int /\ zz * (zz * zz) \in Int /\ w * (w * w) \in Int
  OBVIOUS
<1>3. Eq(zz * zz, w * w) /\ Eq(zz * (zz * zz), w * (w * w))
  <2>1. Eq(zz * zz, w * w)
    BY EqOperations
  <2> QED BY <1>2, <2>1, EqOperations
<1>4. Eq(e, g)
  BY <1>1, <1>2, <1>3, EqTimes
<1>5. Eq(f, h)
  BY <1>1, <1>2, <1>3, EqTimes
<1>6. e \in Int /\ f \in Int /\ g \in Int /\ h \in Int
  BY <1>1, <1>2
<1>7. t \in Coordinates /\ Eq(t[1], e) /\ Eq(t[2], f)
  BY ApplyZIs
<1>8. t[1] \in Int /\ t[2] \in Int
  BY <1>7, PointNumbers
<1> HIDE DEF e, f, g, h, t
<1>9. Eq(t[1], g)
  BY <1>4, <1>6, <1>7, <1>8, EqVia
<1>10. Eq(t[2], h)
  BY <1>5, <1>6, <1>7, <1>8, EqVia
<1>11. Eq(t[1], p[1] * (w * w)) /\ Eq(t[2], p[2] * (w * (w * w)))
  BY <1>9, <1>10 DEF g, h
<1>12. t = ApplyZ(p, w)
  BY <1>7, <1>11, ApplyZUnique
<1> QED BY <1>12 DEF t

\* What a remainder is congruent to, a number is.
LEMMA EqMod ==
  ASSUME NEW x \in Int, NEW y, y = x % CURVE_P
  PROVE  y \in Int /\ y \in 0 .. CURVE_P - 1 /\ Eq(y, x)
BY EqRemainder

\* Two points that share a Z, and the factor that XYcZ_add() gives it.
SharedZ(P1, P2, zz, p, q, w) ==
  /\ P1 \in Coordinates /\ P2 \in Coordinates /\ P1[1] # P2[1] /\ zz \in Int
  /\ p = ApplyZ(P1, zz) /\ q = ApplyZ(P2, zz) /\ w = zz * (q[1] - p[1])

\* XYcZ_add() adds them.
LEMMA AddStands ==
  ASSUME NEW P1, NEW P2, NEW zz, NEW p, NEW q, NEW w, SharedZ(P1, P2, zz, p, q, w)
  PROVE  /\ w \in Int /\ (~ Eq(zz, 0) => ~ Eq(w, 0))
         /\ Plus(P1, P2) \in Coordinates
         /\ XYcZ_add(p, q).same = ApplyZ(P1, w)
         /\ XYcZ_add(p, q).sum = ApplyZ(Plus(P1, P2), w)
<1> DEFINE x1 == P1[1]
           y1 == P1[2]
           x2 == P2[1]
           y2 == P2[2]
           l == Slope(P1, P2)
           T == Plus(P1, P2)
           xs == T[1]
           ys == T[2]
           X1 == p[1]
           Y1 == p[2]
           X2 == q[1]
           Y2 == q[2]
           A == ((X2 - X1) * (X2 - X1)) % CURVE_P
           B == (X1 * A) % CURVE_P
           C == (X2 * A) % CURVE_P
           dy == (Y2 - Y1) % CURVE_P
           E == (Y1 * (C - B)) % CURVE_P
           x3 == (dy * dy - B - C) % CURVE_P
           y3 == (dy * (B - x3) - E) % CURVE_P
<1>0. /\ P1 \in Coordinates /\ P2 \in Coordinates /\ P1[1] # P2[1] /\ zz \in Int
      /\ p = ApplyZ(P1, zz) /\ q = ApplyZ(P2, zz) /\ w = zz * (q[1] - p[1])
  BY Zenon DEF SharedZ
<1> USE <1>0
<1>1. x1 \in Int /\ y1 \in Int /\ x2 \in Int /\ y2 \in Int
  BY PointNumbers
<1>2. l \in Int /\ ~ Eq(x2 - x1, 0) /\ Eq(l * (x2 - x1), y2 - y1)
  BY SlopeIs
<1>3. T \in Coordinates /\ Eq(xs, l * l - x1 - x2) /\ Eq(ys, l * (x1 - xs) - y1)
  BY <1>2, PlusIs
<1>4. xs \in Int /\ ys \in Int
  BY <1>3, PointNumbers
<1>5. /\ p \in Coordinates /\ Eq(X1, x1 * (zz * zz)) /\ Eq(Y1, y1 * (zz * (zz * zz)))
      /\ q \in Coordinates /\ Eq(X2, x2 * (zz * zz)) /\ Eq(Y2, y2 * (zz * (zz * zz)))
  BY ApplyZIs
<1>6. X1 \in Int /\ Y1 \in Int /\ X2 \in Int /\ Y2 \in Int
  BY <1>5, PointNumbers
<1>7. XYcZ_add(p, q) = [same |-> <<B, E>>, sum |-> <<x3, y3>>]
  BY DEF XYcZ_add
<1>8. w \in Int /\ w = zz * (X2 - X1)
  BY <1>6
<1> HIDE DEF x1, y1, x2, y2, xs, ys, l, X1, Y1, X2, Y2
<1>9. A \in Int /\ Eq(A, (X2 - X1) * (X2 - X1))
  BY <1>6, EqMod
<1> HIDE DEF A
<1>10. B \in Int /\ B \in 0 .. CURVE_P - 1 /\ Eq(B, X1 * A)
  BY <1>6, <1>9, EqMod
<1>11. C \in Int /\ Eq(C, X2 * A)
  BY <1>6, <1>9, EqMod
<1>12. dy \in Int /\ Eq(dy, Y2 - Y1)
  BY <1>6, EqMod
<1> HIDE DEF B, C, dy
<1>13. E \in Int /\ E \in 0 .. CURVE_P - 1 /\ Eq(E, Y1 * (C - B))
  <2>1. Y1 * (C - B) \in Int
    BY <1>6, <1>10, <1>11
  <2> QED BY <2>1, EqMod
<1> HIDE DEF E
<1>14. x3 \in Int /\ x3 \in 0 .. CURVE_P - 1 /\ Eq(x3, dy * dy - B - C)
  <2>1. dy * dy - B - C \in Int
    BY <1>10, <1>11, <1>12
  <2> QED BY <2>1, EqMod
<1> HIDE DEF x3
<1>15. y3 \in Int /\ y3 \in 0 .. CURVE_P - 1 /\ Eq(y3, dy * (B - x3) - E)
  <2>1. dy * (B - x3) - E \in Int
    BY <1>10, <1>12, <1>13, <1>14
  <2> QED BY <2>1, EqMod
<1> HIDE DEF y3
<1>16. IsSlope(l, x1, y1, x2, y2) /\ IsThird(xs, ys, l, x1, y1, x2)
  BY <1>2, <1>3 DEF IsSlope, IsThird
<1>17. /\ Times2(X1, x1, zz) /\ Times3(Y1, y1, zz) /\ Times2(X2, x2, zz) /\ Times3(Y2, y2, zz)
       /\ AddTerms(X1, Y1, X2, Y2, A, B, C, dy, E) /\ IsThird(x3, y3, dy, B, E, C)
  BY <1>5, <1>9, <1>10, <1>11, <1>12, <1>13, <1>14, <1>15
     DEF Times2, Times3, AddTerms, IsThird, x1, y1, x2, y2, X1, Y1, X2, Y2
<1>171. Adding(x1, y1, x2, y2, l, zz, X1, Y1, X2, Y2, A, B, C, dy, E, w)
  BY <1>1, <1>2, <1>6, <1>8, <1>9, <1>10, <1>11, <1>12, <1>13, <1>16, <1>17, Zenon DEF Adding
<1>172. /\ Times3(w, x2 - x1, zz) /\ Times2(B, x1, w) /\ Times2(C, x2, w)
        /\ Times1(dy, l, w) /\ Times3(E, y1, w)
  BY <1>171, AddFormulas
<1>173. Closing(x1, y1, x2, l, w, xs, ys, B, C, dy, E, x3, y3)
  BY <1>1, <1>2, <1>4, <1>8, <1>10, <1>11, <1>12, <1>13, <1>14, <1>15, <1>16, <1>17, <1>172, Zenon
     DEF Closing
<1>174. Times2(x3, xs, w) /\ Times3(y3, ys, w)
  BY <1>173, ThirdPoint
<1>18. /\ XYcZ_add(p, q).same = <<B, E>> /\ XYcZ_add(p, q).sum = <<x3, y3>>
       /\ <<B, E>> \in Coordinates /\ <<x3, y3>> \in Coordinates
  BY <1>7, <1>10, <1>13, <1>14, <1>15 DEF Coordinates
<1>19. <<B, E>> = ApplyZ(P1, w)
  BY <1>8, <1>18, <1>172, ApplyZUnique DEF x1, y1, Times2, Times3
<1>20. <<x3, y3>> = ApplyZ(T, w)
  BY <1>3, <1>8, <1>18, <1>174, ApplyZUnique DEF xs, ys, Times2, Times3
<1>21. ASSUME ~ Eq(zz, 0)
       PROVE  ~ Eq(w, 0)
  <2> DEFINE z2 == zz * zz
             z3 == zz * z2
             d == x2 - x1
             e == d * z3
  <2>1. d \in Int /\ ~ Eq(d, 0) /\ z2 \in Int /\ z3 \in Int /\ Eq(w, e) /\ e \in Int /\ 0 \in Int
    BY <1>1, <1>2, <1>8, <1>172 DEF Times3
  <2>2. ~ Eq(z2, 0)
    BY <1>21, NotZeroTimes
  <2> HIDE DEF z2, d
  <2>3. ~ Eq(z3, 0)
    BY <1>21, <2>1, <2>2, NotZeroTimes
  <2> HIDE DEF z3
  <2>4. ~ Eq(e, 0)
    BY <2>1, <2>3, NotZeroTimes
  <2> HIDE DEF e
  <2> QED BY <1>8, <2>1, <2>4, EqRules
<1> QED BY <1>3, <1>8, <1>18, <1>19, <1>20, <1>21

\* Twice the half of a number is the number.
LEMMA HalfModRight ==
  ASSUME NEW t \in 0 .. CURVE_P - 1
  PROVE  HalfMod(t) \in Int /\ Eq(2 * HalfMod(t), t)
<1> DEFINE h == HalfMod(t)
<1>1. CURVE_P \in Nat /\ CURVE_P % 2 = 1 /\ t \in Nat
  BY CurveNumbers
<1>2. h \in Int /\ (2 * h = t \/ 2 * h = t + CURVE_P)
  <2>1. CASE t % 2 = 1
    <3>1. h = (t + CURVE_P) \div 2
      BY <2>1 DEF HalfMod
    <3>2. (t + CURVE_P) % 2 = 0
      BY <1>1, <2>1
    <3> QED BY <1>1, <3>1, <3>2
  <2>2. CASE t % 2 # 1
    <3>1. h = t \div 2
      BY <2>2 DEF HalfMod
    <3> QED BY <1>1, <2>2, <3>1
  <2> QED BY <2>1, <2>2
<1> HIDE DEF h
<1>3. Eq(2 * h, t)
  <2>1. CASE 2 * h = t
    BY <1>1, <2>1, EqRules
  <2>2. CASE 2 * h = t + CURVE_P
    <3>1. 2 * h = t + 1 * CURVE_P
      BY <1>1, <2>2
    <3> DEFINE one == 1
    <3>2. one \in Int /\ 2 * h = t + one * CURVE_P
      BY <3>1
    <3> HIDE DEF one
    <3> QED BY <3>2 DEF Eq, Same
  <2> QED BY <1>2, <2>1, <2>2
<1> QED BY <1>2, <1>3 DEF h

\* The slope of the tangent at a point that is not its own opposite.
LEMMA TangentIs ==
  ASSUME NEW p \in Coordinates, (2 * p[2]) % CURVE_P # 0
  PROVE  /\ Slope(p, p) \in Int /\ ~ Eq(2, 0) /\ ~ Eq(p[2], 0)
         /\ Eq(Slope(p, p) * (2 * p[2]), 3 * p[1] * p[1])
<1> DEFINE x == p[1]
           y == p[2]
           n == (2 * y) % CURVE_P
           e == 3 * x * x
<1>1. x \in Int /\ y \in Int /\ CURVE_P \in Nat /\ CURVE_P > 4
  BY PointNumbers, CurveNumbers
<1>2. Slope(p, p) = (e * InvP[n]) % CURVE_P
  BY DEF Slope
<1>3. 2 * y \in Int /\ e \in Int /\ 0 \in Int /\ 2 \in Int
  <2> HIDE DEF x, y, n
  <2> QED BY <1>1
<1>4. n \in Int /\ n \in 1 .. CURVE_P - 1 /\ Eq(n, 2 * y) /\ Eq(2 * y, n)
  <2>1. n \in 0 .. CURVE_P - 1 /\ n \in Int /\ Eq(n, 2 * y) /\ Eq(2 * y, n)
    BY <1>3, EqRemainder
  <2> HIDE DEF n
  <2> QED BY <1>1, <2>1 DEF n
<1>5. ~ Eq(y, 0)
  <2> SUFFICES ASSUME Eq(y, 0)
               PROVE  FALSE
    OBVIOUS
  <2> HIDE DEF y
  <2>1. Eq(2 * y, 2 * 0) /\ 2 * 0 = 0
    BY <1>1, <1>3, EqTimes
  <2>2. 0 \in 0 .. CURVE_P - 1
    BY <1>1
  <2>3. (2 * y) % CURVE_P = 0
    BY <1>3, <2>1, <2>2, EqRemainder
  <2> QED BY <2>3 DEF y
<1>6. ~ Eq(2, 0)
  <2>1. 2 \in 1 .. CURVE_P - 1
    BY <1>1
  <2> QED BY <2>1, InvPRight
<1> HIDE DEF n, e, y, x
<1> DEFINE inv == InvP[n]
<1>7. inv \in Int /\ Eq(n * inv, 1)
  BY <1>1, <1>4, InvPRight
<1> HIDE DEF inv
<1> DEFINE l == (e * inv) % CURVE_P
<1>8. l \in Int /\ Eq(l, e * inv) /\ e * inv \in Int
  <2>1. e * inv \in Int
    BY <1>3, <1>7
  <2> QED BY <2>1, EqMod
<1> HIDE DEF l
<1> DEFINE d == 2 * y
           f == (e * inv) * n
<1>9. Eq(l * d, f)
  <2> HIDE DEF d
  <2> QED BY <1>3, <1>4, <1>8, EqOperations DEF d
<1>10. Eq(e * (n * inv), e * 1)
  <2> DEFINE m == n * inv
  <2>1. m \in Int /\ Eq(m, 1) /\ 1 \in Int
    BY <1>4, <1>7
  <2> HIDE DEF m
  <2>2. Eq(e * m, e * 1)
    BY <1>3, <2>1, EqTimes
  <2> QED BY <2>2 DEF m
<1>11. f = e * (n * inv) /\ e * 1 = e /\ f \in Int /\ l * d \in Int
  BY <1>1, <1>3, <1>4, <1>7, <1>8
<1>12. Eq(l * d, e)
  <2> HIDE DEF d, f
  <2> QED BY <1>3, <1>9, <1>10, <1>11, EqVia
<1>13. Slope(p, p) = l
  BY <1>2 DEF l, inv
<1> QED BY <1>5, <1>6, <1>8, <1>12, <1>13 DEF x, y, e

\* The temporaries of double_jacobian_secp256k1().
DoubleTerms(X, Y, y2, A, B, w, zz) ==
  /\ Eq(y2, Y * Y) /\ Eq(A, X * y2) /\ Eq(2 * B, 3 * X * X) /\ Eq(w, Y * zz)

\* Its computation, from a point that is scaled by zz.
Doubling(x, y, l, zz, X, Y, y2, A, B, w) ==
  /\ x \in Int /\ y \in Int /\ l \in Int /\ zz \in Int /\ X \in Int /\ Y \in Int
  /\ y2 \in Int /\ A \in Int /\ B \in Int /\ w \in Int
  /\ Eq(l * (2 * y), 3 * x * x)
  /\ Times2(X, x, zz) /\ Times3(Y, y, zz)
  /\ DoubleTerms(X, Y, y2, A, B, w, zz)

\* The temporaries are the coordinates and the slope, scaled by a number w.
LEMMA DoubleFormulas ==
  ASSUME NEW x, NEW y, NEW l, NEW zz, NEW X, NEW Y, NEW y2, NEW A, NEW B, NEW w, ~ Eq(2, 0),
         Doubling(x, y, l, zz, X, Y, y2, A, B, w)
  PROVE  Times2(A, x, w) /\ Times1(B, l, w) /\ Times3(y2 * y2, y, w)
<1>0. /\ x \in Int /\ y \in Int /\ l \in Int /\ zz \in Int /\ X \in Int /\ Y \in Int
      /\ y2 \in Int /\ A \in Int /\ B \in Int /\ w \in Int
      /\ Eq(l * (2 * y), 3 * x * x)
      /\ Eq(X, x * (zz * zz)) /\ Eq(Y, y * (zz * (zz * zz)))
      /\ Eq(y2, Y * Y) /\ Eq(A, X * y2) /\ Eq(2 * B, 3 * X * X) /\ Eq(w, Y * zz)
  BY Zenon DEF Doubling, Times2, Times3, DoubleTerms
<1> DEFINE v1 == Y * zz
           w2 == w * w
           w3 == w * (w * w)
           YY == Y * Y
           z3 == zz * (zz * zz)
<1>1. v1 \in Int /\ w2 \in Int /\ w3 \in Int /\ YY \in Int /\ z3 \in Int
  BY <1>0
<1>2. Eq(w2, v1 * v1) /\ Eq(w3, v1 * (v1 * v1)) /\ v1 * v1 \in Int /\ v1 * (v1 * v1) \in Int
  <2> HIDE DEF v1
  <2>1. v1 * v1 \in Int /\ w2 \in Int
    BY <1>1
  <2>2. Eq(w * w, v1 * v1)
    BY <1>0, <1>1, EqOperations DEF v1
  <2>3. Eq(w * w2, v1 * (v1 * v1))
    BY <1>0, <1>1, <2>1, <2>2, EqOperations DEF v1
  <2> QED BY <1>1, <2>1, <2>2, <2>3
<1>3. Eq(A, x * w2)
  <2> DEFINE e == X * y2
             f == (x * (zz * zz)) * YY
             g == x * (v1 * v1)
             h == x * w2
  <2>1. f = g
    BY <1>0
  <2>2. Eq(e, f)
    <3>1. x * (zz * zz) \in Int
      BY <1>0
    <3> HIDE DEF YY
    <3> QED BY <1>0, <1>1, <3>1, EqOperations DEF YY
  <2>3. Eq(h, g)
    <3> HIDE DEF w2, v1
    <3> QED BY <1>0, <1>1, <1>2, EqTimes
  <2>4. e \in Int /\ f \in Int /\ g \in Int /\ h \in Int /\ Eq(A, e)
    BY <1>0
  <2> HIDE DEF e, f, g, h
  <2>5. Eq(A, f)
    BY <1>0, <2>2, <2>4, EqVia
  <2>6. Eq(g, h)
    BY <2>3, <2>4, EqRules
  <2>7. Eq(A, h)
    BY <1>0, <2>1, <2>4, <2>5, <2>6, EqVia
  <2> QED BY <2>7 DEF h
<1>4. Eq(B, l * w)
  <2> DEFINE xz == x * (zz * zz)
             z4 == (zz * zz) * (zz * zz)
             e == 3 * X * X
             f == 3 * xz * xz
             g == (l * (2 * y)) * z4
             h == (l * w) * 2
             k == (2 * l) * v1
             yz == y * z3
             m == (2 * l * zz) * yz
  <2>1. f = (3 * x * x) * z4 /\ g = m /\ k = (2 * l * zz) * Y /\ h = (2 * l) * w /\ 2 * B = B * 2
    BY <1>0
  <2>2. xz \in Int /\ z4 \in Int /\ yz \in Int /\ 2 * l \in Int /\ 2 * l * zz \in Int /\ 3 * X \in Int
        /\ 3 * xz \in Int /\ 3 * x * x \in Int /\ l * (2 * y) \in Int /\ 3 \in Int
    BY <1>0
  <2>21. Eq(X, xz) /\ Eq(Y, yz) /\ Eq(w, v1)
    BY <1>0
  <2>3. Eq(e, f)
    <3> HIDE DEF xz
    <3>1. Eq(3 * X, 3 * xz)
      BY <1>0, <2>2, <2>21, EqTimes
    <3> DEFINE X3 == 3 * X
               xz3 == 3 * xz
    <3>2. X3 \in Int /\ xz3 \in Int /\ Eq(X3, xz3)
      BY <2>2, <3>1
    <3> HIDE DEF X3, xz3
    <3>3. Eq(X3 * X, xz3 * xz)
      BY <1>0, <2>2, <2>21, <3>2, EqOperations
    <3> QED BY <3>3 DEF X3, xz3
  <2>4. Eq(g, f)
    <3> DEFINE q1 == l * (2 * y)
               q2 == 3 * x * x
    <3>1. q1 \in Int /\ q2 \in Int /\ Eq(q1, q2)
      BY <1>0, <2>2
    <3> HIDE DEF q1, q2, z4
    <3>2. Eq(q1 * z4, q2 * z4)
      BY <2>2, <3>1, EqTimes
    <3> QED BY <2>1, <3>2 DEF q1, q2
  <2>5. Eq(k, m)
    <3> DEFINE q1 == 2 * l * zz
    <3>1. q1 \in Int
      BY <2>2
    <3> HIDE DEF q1, yz, k
    <3>2. Eq(q1 * Y, q1 * yz)
      BY <1>0, <2>2, <2>21, <3>1, EqTimes
    <3> QED BY <2>1, <3>2 DEF q1
  <2>6. Eq(h, k)
    <3> DEFINE q1 == 2 * l
    <3>1. q1 \in Int
      BY <2>2
    <3> HIDE DEF q1, v1, h
    <3>2. Eq(q1 * w, q1 * v1)
      BY <1>0, <1>1, <2>21, <3>1, EqTimes
    <3> QED BY <2>1, <3>2 DEF q1
  <2>7. e \in Int /\ f \in Int /\ g \in Int /\ h \in Int /\ k \in Int /\ m \in Int /\ Eq(B * 2, e)
        /\ B * 2 \in Int /\ 2 \in Int
    BY <1>0, <2>1
  <2>8. g = m
    BY <2>1
  <2> HIDE DEF e, f, g, h, k, m
  <2>9. Eq(h, f)
    <3>1. Eq(h, m)
      BY <2>5, <2>6, <2>7, EqVia
    <3> QED BY <2>4, <2>7, <2>8, <3>1, EqVia
  <2>10. Eq(f, h)
    BY <2>7, <2>9, EqRules
  <2>11. Eq(B * 2, f)
    BY <2>3, <2>7, EqVia
  <2>12. Eq(B * 2, h)
    BY <2>7, <2>10, <2>11, EqVia
  <2>13. l * w \in Int
    BY <1>0
  <2> QED BY <1>0, <2>7, <2>12, <2>13, EqCancel DEF h
<1>5. Eq(y2 * y2, y * w3)
  <2> DEFINE e == y2 * y2
             f == YY * YY
             g == (y * z3) * (YY * Y)
             h == y * w3
             k == y * (v1 * (v1 * v1))
  <2>1. f = Y * (YY * Y) /\ g = k
    BY <1>0
  <2>2. Eq(e, f)
    <3> HIDE DEF YY
    <3> QED BY <1>0, <1>1, EqOperations DEF YY
  <2>3. Eq(f, g)
    <3> DEFINE q1 == YY * Y
               q2 == y * z3
    <3>1. q1 \in Int /\ q2 \in Int /\ Eq(Y, q2)
      BY <1>0
    <3> HIDE DEF q1, q2, f
    <3>2. Eq(Y * q1, q2 * q1)
      BY <1>0, <3>1, EqTimes
    <3> QED BY <2>1, <3>2 DEF q1, q2
  <2>4. Eq(h, k)
    <3> DEFINE q1 == v1 * (v1 * v1)
    <3>1. q1 \in Int /\ Eq(w3, q1)
      BY <1>2
    <3> HIDE DEF q1, w3
    <3>2. Eq(y * w3, y * q1)
      BY <1>0, <1>1, <3>1, EqTimes
    <3> QED BY <3>2 DEF q1
  <2>5. e \in Int /\ f \in Int /\ g \in Int /\ h \in Int
    BY <1>0
  <2> HIDE DEF e, f, g, h, k
  <2>6. Eq(e, g)
    BY <2>2, <2>3, <2>5, EqVia
  <2>7. Eq(g, h)
    BY <2>1, <2>4, <2>5, EqRules
  <2>8. Eq(e, h)
    BY <2>5, <2>6, <2>7, EqVia
  <2> QED BY <2>8 DEF e, h
<1> QED BY <1>3, <1>4, <1>5 DEF Times1, Times2, Times3

\* double_jacobian_secp256k1() on a point that is not its own opposite.
LEMMA DoubleStands ==
  ASSUME NEW T \in Coordinates, (2 * T[2]) % CURVE_P # 0,
         NEW zz \in Int, ~ Eq(zz, 0), NEW p, p = ApplyZ(T, zz),
         NEW w, w = (p[2] * zz) % CURVE_P
  PROVE  /\ w \in 0 .. CURVE_P - 1 /\ w # 0 /\ ~ Eq(w, 0)
         /\ Plus(T, T) \in Coordinates
         /\ DoubleJacobian(p, zz) = [point |-> ApplyZ(Plus(T, T), w), z |-> w]
<1> DEFINE x == T[1]
           y == T[2]
           l == Slope(T, T)
           S == Plus(T, T)
           xs == S[1]
           ys == S[2]
           X == p[1]
           Y == p[2]
           y2 == (Y * Y) % CURVE_P
           A == (X * y2) % CURVE_P
           t == (3 * X * X) % CURVE_P
           B == HalfMod(t)
           x3 == (B * B - 2 * A) % CURVE_P
           y3 == (B * (A - x3) - y2 * y2) % CURVE_P
<1>1. x \in Int /\ y \in Int /\ CURVE_P \in Nat /\ CURVE_P > 4 /\ 0 \in Int
  BY PointNumbers, CurveNumbers
<1>2. l \in Int /\ ~ Eq(2, 0) /\ ~ Eq(y, 0) /\ Eq(l * (2 * y), 3 * x * x)
  BY TangentIs
<1>3. S \in Coordinates /\ Eq(xs, l * l - x - x) /\ Eq(ys, l * (x - xs) - y)
  <2>1. ~ (T[1] = T[1] /\ (T[2] + T[2]) % CURVE_P = 0)
    <3>1. T[2] + T[2] = 2 * T[2]
      BY <1>1
    <3> QED BY <3>1
  <2> QED BY <1>2, <2>1, PlusIs
<1>4. xs \in Int /\ ys \in Int
  BY <1>3, PointNumbers
<1>5. p \in Coordinates /\ Eq(X, x * (zz * zz)) /\ Eq(Y, y * (zz * (zz * zz)))
  BY ApplyZIs
<1>6. X \in Int /\ Y \in Int
  BY <1>5, PointNumbers
<1>7. zz # 0
  <2>1. Eq(0, 0)
    BY EqRules
  <2> QED BY <2>1
<1>8. DoubleJacobian(p, zz) = [point |-> <<x3, y3>>, z |-> w]
  BY <1>7 DEF DoubleJacobian
<1> HIDE DEF x, y, xs, ys, l, X, Y
<1>9. w \in Int /\ w \in 0 .. CURVE_P - 1 /\ Eq(w, Y * zz) /\ Y * zz \in Int
  <2>1. Y * zz \in Int /\ w = (Y * zz) % CURVE_P
    BY <1>6 DEF Y
  <2> QED BY <2>1, EqMod
<1>10. y2 \in Int /\ Eq(y2, Y * Y)
  BY <1>6, EqMod
<1> HIDE DEF y2
<1>11. A \in Int /\ Eq(A, X * y2)
  BY <1>6, <1>10, EqMod
<1> HIDE DEF A
<1>12. B \in Int /\ Eq(2 * B, 3 * X * X)
  <2>1. 3 * X * X \in Int
    BY <1>6
  <2>2. t \in Int /\ t \in 0 .. CURVE_P - 1 /\ Eq(t, 3 * X * X)
    BY <2>1, EqMod
  <2> HIDE DEF t
  <2>3. B \in Int /\ Eq(2 * B, t)
    BY <2>2, HalfModRight
  <2> HIDE DEF B
  <2>4. 2 * B \in Int
    BY <2>3
  <2> QED BY <2>1, <2>2, <2>3, <2>4, EqVia
<1> HIDE DEF B
<1>13. x3 \in Int /\ x3 \in 0 .. CURVE_P - 1 /\ Eq(x3, B * B - A - A)
  <2>1. B * B - 2 * A \in Int /\ B * B - 2 * A = B * B - A - A
    BY <1>11, <1>12
  <2>2. x3 \in Int /\ x3 \in 0 .. CURVE_P - 1 /\ Eq(x3, B * B - 2 * A)
    BY <2>1, EqMod
  <2> HIDE DEF x3
  <2> QED BY <2>1, <2>2
<1> HIDE DEF x3
<1>14. y2 * y2 \in Int /\ y3 \in Int /\ y3 \in 0 .. CURVE_P - 1 /\ Eq(y3, B * (A - x3) - y2 * y2)
  <2>1. B * (A - x3) - y2 * y2 \in Int /\ y2 * y2 \in Int
    BY <1>10, <1>11, <1>12, <1>13
  <2> QED BY <2>1, EqMod
<1> HIDE DEF y3
<1> DEFINE E == y2 * y2
<1>15. Doubling(x, y, l, zz, X, Y, y2, A, B, w)
  <2>1. Times2(X, x, zz) /\ Times3(Y, y, zz)
    BY <1>5 DEF Times2, Times3, x, y, X, Y
  <2>2. DoubleTerms(X, Y, y2, A, B, w, zz)
    BY <1>9, <1>10, <1>11, <1>12 DEF DoubleTerms
  <2> QED BY <1>1, <1>2, <1>6, <1>9, <1>10, <1>11, <1>12, <2>1, <2>2, Zenon DEF Doubling
<1>16. Times2(A, x, w) /\ Times1(B, l, w) /\ Times3(E, y, w)
  BY <1>2, <1>15, DoubleFormulas
<1>17. Closing(x, y, x, l, w, xs, ys, A, A, B, E, x3, y3)
  <2>1. IsThird(xs, ys, l, x, y, x)
    BY <1>3 DEF IsThird, x, y, xs, ys, l
  <2>2. IsThird(x3, y3, B, A, E, A)
    BY <1>13, <1>14 DEF IsThird
  <2>3. E \in Int
    BY <1>14
  <2> HIDE DEF E
  <2> QED BY <1>1, <1>2, <1>4, <1>9, <1>11, <1>12, <1>13, <1>14, <1>16, <2>1, <2>2, <2>3, Zenon
          DEF Closing
<1>18. Times2(x3, xs, w) /\ Times3(y3, ys, w)
  BY <1>17, ThirdPoint
<1>19. <<x3, y3>> = ApplyZ(S, w)
  <2>1. <<x3, y3>> \in Coordinates
    BY <1>13, <1>14 DEF Coordinates
  <2> QED BY <1>3, <1>9, <1>18, <2>1, ApplyZUnique DEF xs, ys, Times2, Times3
<1>20. ~ Eq(w, 0)
  <2> DEFINE z2 == zz * zz
             z3 == zz * z2
             e == y * z3
             f == Y * zz
  <2>1. z2 \in Int /\ z3 \in Int /\ Eq(Y, e) /\ e \in Int /\ f \in Int /\ Eq(w, f)
    BY <1>1, <1>5, <1>9 DEF y, Y
  <2>2. ~ Eq(z2, 0)
    BY NotZeroTimes
  <2> HIDE DEF z2
  <2>3. ~ Eq(z3, 0)
    BY <2>1, <2>2, NotZeroTimes
  <2> HIDE DEF z3
  <2>4. ~ Eq(e, 0)
    BY <1>1, <1>2, <2>1, <2>3, NotZeroTimes
  <2> HIDE DEF e
  <2>5. ~ Eq(Y, 0)
    BY <1>1, <1>6, <2>1, <2>4, EqRules
  <2>6. ~ Eq(f, 0)
    BY <1>6, <2>5, NotZeroTimes
  <2> HIDE DEF f
  <2> QED BY <1>1, <1>9, <2>1, <2>6, EqRules
<1>21. w # 0
  <2>1. Eq(0, 0)
    BY EqRules
  <2> QED BY <1>20, <2>1
<1> QED BY <1>3, <1>8, <1>9, <1>19, <1>20, <1>21

-----------------------------------------------------------------------------
(* The group.                                                              *)

\* The points that Plus() computes with.
GroupPoints == Coordinates \cup {Infinity}

\* It makes points of points.
LEMMA PlusCloses ==
  ASSUME NEW p \in GroupPoints, NEW q \in GroupPoints
  PROVE  Plus(p, q) \in GroupPoints
<1>1. CASE p = Infinity \/ q = Infinity
  BY <1>1 DEF Plus
<1>2. CASE p # Infinity /\ q # Infinity /\ p[1] = q[1] /\ (p[2] + q[2]) % CURVE_P = 0
  <2>1. Plus(p, q) = Infinity
    BY <1>2 DEF Plus
  <2> QED BY <2>1 DEF GroupPoints
<1>3. CASE p # Infinity /\ q # Infinity /\ ~ (p[1] = q[1] /\ (p[2] + q[2]) % CURVE_P = 0)
  <2>1. p \in Coordinates /\ q \in Coordinates
    BY <1>3 DEF GroupPoints
  <2>2. Slope(p, q) \in Int
    <3>1. CASE p[1] # q[1]
      BY <2>1, <3>1, SlopeIs
    <3>2. CASE p = q
      <4>1. p[2] + q[2] = 2 * p[2]
        BY <2>1, <3>2, PointNumbers
      <4> QED BY <1>3, <2>1, <3>2, <4>1, TangentIs
    <3>3. CASE p # q /\ p[1] = q[1]
      <4> DEFINE d == q[2] - p[2]
                 n == (q[1] - p[1]) % CURVE_P
      <4>1. d \in Int /\ q[1] - p[1] = 0 /\ CURVE_P \in Nat /\ CURVE_P > 4
        BY <2>1, <3>3, PointNumbers, CurveNumbers
      <4>2. n = 0
        BY <4>1
      <4>3. InvP[0] = 0
        BY <4>1 DEF InvP, InverseMod
      <4>4. Slope(p, q) = (d * InvP[n]) % CURVE_P
        BY <3>3 DEF Slope
      <4> HIDE DEF d, n
      <4>5. d * 0 \in Int
        BY <4>1
      <4>6. (d * 0) % CURVE_P \in Int
        BY <4>5, EqRemainder
      <4> QED BY <4>2, <4>3, <4>4, <4>6
    <3> QED BY <3>1, <3>2, <3>3
  <2>3. Plus(p, q) \in Coordinates
    BY <1>3, <2>1, <2>2, PlusIs
  <2> QED BY <2>3 DEF GroupPoints
<1> QED BY <1>1, <1>2, <1>3

\* The function behind Times.
TimesUpTo(n, f) ==
  f = [k \in 0 .. n |->
         IF k = 0 THEN Infinity
         ELSE IF k % 2 = 1 THEN Plus(f[k - 1], CURVE_G)
         ELSE LET half == f[k \div 2] IN Plus(half, half)]

\* Its value at k, from smaller ones.
TimesNext(f, k) ==
  IF k % 2 = 1 THEN Plus(f[k - 1], CURVE_G) ELSE Plus(f[k \div 2], f[k \div 2])

\* The table up to n.
TimesTable(n, f) ==
  f \in [0 .. n -> GroupPoints] /\ f[0] = Infinity /\ \A k \in 1 .. n : f[k] = TimesNext(f, k)

\* It exists.
LEMMA TimesExist ==
  ASSUME NEW n \in Nat
  PROVE  \E f : TimesTable(n, f)
<1> DEFINE T == {m \in Nat : \E f : TimesTable(m, f)}
<1>1. 0 \in T
  <2> DEFINE f == [k \in 0 .. 0 |-> Infinity]
  <2>1. f \in [0 .. 0 -> GroupPoints] /\ f[0] = Infinity /\ 1 .. 0 = {}
    BY DEF GroupPoints
  <2> HIDE DEF f
  <2>2. TimesTable(0, f)
    BY <2>1 DEF TimesTable
  <2> QED BY <2>2
<1>2. ASSUME NEW m \in Nat, m \in T
      PROVE  m + 1 \in T
  <2>1. PICK f : TimesTable(m, f)
    BY <1>2
  <2> DEFINE last == TimesNext(f, m + 1)
             g == [k \in 0 .. m + 1 |-> IF k <= m THEN f[k] ELSE last]
  <2>2. f \in [0 .. m -> GroupPoints] /\ f[0] = Infinity /\ \A k \in 1 .. m : f[k] = TimesNext(f, k)
    BY <2>1 DEF TimesTable
  <2>3. last \in GroupPoints
    <3>1. m \in 0 .. m /\ (m + 1) - 1 = m /\ (m + 1) \div 2 \in 0 .. m + 1
      OBVIOUS
    <3>2. CASE (m + 1) % 2 = 1
      <4>1. last = Plus(f[m], CURVE_G)
        BY <3>1, <3>2 DEF TimesNext
      <4>2. f[m] \in GroupPoints /\ CURVE_G \in GroupPoints
        BY <2>2, <3>1, GroupAssumption DEF GroupPoints
      <4> QED BY <4>1, <4>2, PlusCloses
    <3>3. CASE (m + 1) % 2 # 1
      <4>1. last = Plus(f[(m + 1) \div 2], f[(m + 1) \div 2])
        BY <3>3 DEF TimesNext
      <4>2. (m + 1) \div 2 \in 0 .. m
        BY <3>3
      <4>3. f[(m + 1) \div 2] \in GroupPoints
        BY <2>2, <4>2
      <4> QED BY <4>1, <4>3, PlusCloses
    <3> QED BY <3>2, <3>3
  <2> HIDE DEF last
  <2>4. g \in [0 .. m + 1 -> GroupPoints] /\ g[0] = Infinity /\ \A k \in 0 .. m : g[k] = f[k]
    BY <2>2, <2>3
  <2>5. g[m + 1] = last
    OBVIOUS
  <2> HIDE DEF g
  <2>6. ASSUME NEW k \in 1 .. m + 1
        PROVE  g[k] = TimesNext(g, k)
    <3>1. k - 1 \in 0 .. m /\ k \div 2 \in 0 .. m
      OBVIOUS
    <3>2. TimesNext(g, k) = TimesNext(f, k)
      BY <2>4, <3>1 DEF TimesNext
    <3>3. CASE k \in 1 .. m
      BY <2>2, <2>4, <3>2, <3>3
    <3>4. CASE k = m + 1
      BY <2>5, <3>2, <3>4 DEF last
    <3> QED BY <3>3, <3>4
  <2>7. TimesTable(m + 1, g)
    BY <2>4, <2>6 DEF TimesTable
  <2> QED BY <2>7
<1>3. T = Nat
  <2> HIDE DEF T
  <2>1. T \in SUBSET Nat
    BY DEF T
  <2> QED BY <1>1, <1>2, <2>1, Induction
<1> QED BY <1>3

\* The first multiples of the generator.
LEMMA TimesStart == Times[0] = Infinity /\ Times[1] = CURVE_G
<1> DEFINE n == CURVE_N - 1
           f == CHOOSE f : TimesUpTo(n, f)
<1>1. CURVE_N \in Nat /\ n \in Nat /\ n >= 3
  BY CurveNumbers
<1>2. PICK g : TimesTable(n, g)
  <2> HIDE DEF n
  <2> QED BY <1>1, TimesExist
<1>3. TimesUpTo(n, g)
  <2> HIDE DEF n
  <2>1. g \in [0 .. n -> GroupPoints] /\ g[0] = Infinity /\ \A k \in 1 .. n : g[k] = TimesNext(g, k)
    BY <1>2 DEF TimesTable
  <2>2. g = [k \in 0 .. n |-> g[k]]
    BY <2>1
  <2>3. ASSUME NEW k \in 0 .. n
        PROVE  g[k] = IF k = 0 THEN Infinity
                      ELSE IF k % 2 = 1 THEN Plus(g[k - 1], CURVE_G)
                      ELSE LET half == g[k \div 2] IN Plus(half, half)
    BY <1>1, <2>1 DEF TimesNext
  <2> QED BY <2>2, <2>3 DEF TimesUpTo
<1>4. TimesUpTo(n, f)
  BY <1>3, Zenon
<1>5. Times = [k \in 0 .. n |-> f[k]]
  BY DEF Times, TimesUpTo
<1> HIDE DEF f
<1>6. \A k \in 0 .. n : f[k] = IF k = 0 THEN Infinity
                               ELSE IF k % 2 = 1 THEN Plus(f[k - 1], CURVE_G)
                               ELSE LET half == f[k \div 2] IN Plus(half, half)
  <2> HIDE DEF n
  <2> QED BY <1>4 DEF TimesUpTo
<1>7. 0 \in 0 .. n /\ 1 \in 0 .. n /\ 1 % 2 = 1 /\ 1 - 1 = 0
  BY <1>1
<1> HIDE DEF n
<1>8. f[0] = Infinity
  BY <1>6, <1>7
<1>9. f[1] = Plus(f[1 - 1], CURVE_G)
  BY <1>6, <1>7
<1>10. f[1] = CURVE_G
  BY <1>7, <1>8, <1>9 DEF Plus
<1> QED BY <1>5, <1>7, <1>8, <1>10

\* What the numbers of points tell.
LEMMA TimesGroup ==
  /\ \A k \in 1 .. CURVE_N - 1 :
       Times[k] \in Coordinates /\ OnCurve(Times[k]) /\ Times[k] # Infinity
  /\ \A j, k \in 0 .. CURVE_N - 1 :
       /\ Plus(Times[j], Times[k]) = Times[(j + k) % CURVE_N]
       /\ (j + k) % CURVE_N \in 0 .. CURVE_N - 1
<1>1. \A k \in 1 .. CURVE_N - 1 : Times[k] \in Coordinates /\ OnCurve(Times[k])
  BY GroupAssumption
<1>2. ASSUME NEW j \in 0 .. CURVE_N - 1, NEW k \in 0 .. CURVE_N - 1
      PROVE  (j + k) % CURVE_N \in 0 .. CURVE_N - 1
  <2>1. CURVE_N \in Nat /\ CURVE_N > 0 /\ j + k \in Nat
    BY CurveNumbers
  <2> QED BY <2>1
<1>3. \A j, k \in 0 .. CURVE_N - 1 : Plus(Times[j], Times[k]) = Times[(j + k) % CURVE_N]
  BY GroupAssumption
<1> QED BY <1>1, <1>2, <1>3, NoInfinity

\* The number of infinity is 0.
LEMMA TimesInfinity ==
  ASSUME NEW k \in 0 .. CURVE_N - 1
  PROVE  Times[k] = Infinity <=> k = 0
<1>1. CURVE_N \in Nat /\ CURVE_N > 3
  BY CurveNumbers
<1>2. CASE k = 0
  BY <1>2, TimesStart
<1>3. CASE k # 0
  <2>1. k \in 1 .. CURVE_N - 1
    BY <1>1, <1>3
  <2> QED BY <1>3, <2>1, TimesGroup
<1> QED BY <1>2, <1>3

\* Different numbers, different points.
LEMMA SameTimes ==
  ASSUME NEW j \in 1 .. CURVE_N - 1, NEW k \in 1 .. CURVE_N - 1, Times[j] = Times[k]
  PROVE  j = k
<1> DEFINE n == CURVE_N
           l == n - j
<1>1. n \in Nat /\ n > 3 /\ j \in 0 .. n - 1 /\ k \in 0 .. n - 1 /\ l \in 1 .. n - 1 /\ l \in 0 .. n - 1
      /\ j \in 1 .. n - 1 /\ k \in 1 .. n - 1
  BY CurveNumbers
<1>2. (j + l) % n = 0
  BY <1>1
<1>3. Plus(Times[j], Times[l]) = Infinity
  BY <1>1, <1>2, TimesGroup, TimesStart
<1>4. Times[(k + l) % n] = Infinity /\ (k + l) % n \in 0 .. n - 1
  BY <1>1, <1>3, TimesGroup
<1>5. (k + l) % n = 0
  BY <1>4, TimesInfinity
<1>6. k + l = k - j + n
  BY <1>1
<1>7. CASE k > j
  <2>1. k + l = (k - j) + n /\ k - j \in 1 .. n - 1
    BY <1>1, <1>7
  <2> HIDE DEF l, n
  <2>2. (k + l) % n = k - j
    BY <1>1, <2>1
  <2> QED BY <1>1, <1>5, <1>7, <2>2
<1>8. CASE k < j
  <2>1. k + l \in 1 .. n - 1
    BY <1>1, <1>8
  <2> HIDE DEF l, n
  <2>2. (k + l) % n = k + l
    BY <1>1, <2>1
  <2> QED BY <1>1, <1>5, <2>1, <2>2
<1> QED BY <1>1, <1>7, <1>8

\* Numbers below n whose sum the order divides.
LEMMA SumIsOrder ==
  ASSUME NEW j \in 1 .. CURVE_N - 1, NEW k \in 1 .. CURVE_N - 1
  PROVE  (j + k) % CURVE_N = 0 <=> j + k = CURVE_N
<1> DEFINE n == CURVE_N
           t == j + k
<1>1. n \in Nat /\ n > 3 /\ t \in 2 .. 2 * n - 2 /\ t \in Nat
  BY CurveNumbers
<1> HIDE DEF n, t
<1>2. ASSUME t < n
      PROVE  t % n = 0 <=> t = n
  BY <1>1, <1>2
<1>3. ASSUME t >= n
      PROVE  t % n = 0 <=> t = n
  <2>1. t % n = t - n
    <3>1. t = (t - n) + n /\ t - n \in 0 .. n - 1
      BY <1>1, <1>3
    <3> QED BY <1>1, <3>1
  <2> QED BY <1>1, <1>3, <2>1
<1>4. t % n = 0 <=> t = n
  BY <1>1, <1>2, <1>3
<1> QED BY <1>4 DEF t, n

\* Points with the same x are the same or opposite.
LEMMA SameX ==
  ASSUME NEW j \in 1 .. CURVE_N - 1, NEW k \in 1 .. CURVE_N - 1, Times[j][1] = Times[k][1]
  PROVE  j = k \/ j + k = CURVE_N
<1> DEFINE p == Times[j]
           q == Times[k]
           x == p[1]
           y == p[2]
           t == q[2]
           c == x * x * x + CURVE_B
<1>1. p \in Coordinates /\ q \in Coordinates /\ OnCurve(p) /\ OnCurve(q)
  BY TimesGroup
<1>2. x \in Int /\ y \in Int /\ t \in Int /\ q[1] = x /\ CURVE_B \in Int /\ CURVE_P \in Nat /\ CURVE_P > 4
  BY <1>1, PointNumbers, CurveNumbers
<1>3. (y * y) % CURVE_P = (t * t) % CURVE_P
  BY <1>1, <1>2 DEF OnCurve
<1> HIDE DEF x, y, t
<1>4. y * y \in Int /\ t * t \in Int /\ (y - t) * (y + t) = y * y - t * t /\ y - t \in Int /\ y + t \in Int
  BY <1>2
<1>5. Eq((y - t) * (y + t), 0)
  <2> DEFINE e == y * y
             f == t * t
  <2>1. e \in Int /\ f \in Int /\ e % CURVE_P = f % CURVE_P
    BY <1>3, <1>4
  <2> HIDE DEF e, f
  <2>2. Eq(e, e % CURVE_P) /\ Eq(f % CURVE_P, f) /\ e % CURVE_P \in Int
    BY <2>1, EqRemainder
  <2>3. Eq(e, f)
    BY <2>1, <2>2, EqVia
  <2>4. Eq(e - f, f - f) /\ f - f = 0
    BY <2>1, <2>3, EqRules, EqMinus
  <2> QED BY <1>4, <2>4 DEF e, f
<1>6. Eq(y - t, 0) \/ Eq(y + t, 0)
  BY <1>4, <1>5, NotZeroTimes
<1>7. CASE Eq(y - t, 0)
  <2>1. (y - t) + t = y /\ 0 + t = t /\ 0 \in Int
    BY <1>2
  <2>2. Eq((y - t) + t, 0 + t)
    BY <1>2, <1>4, <1>7, <2>1, EqRules, EqOperations
  <2>3. Eq(y, t) /\ Eq(x, x)
    BY <1>2, <2>1, <2>2, EqRules
  <2>4. p = q
    BY <1>1, <1>2, <2>3, PointsEqual DEF x, y, t
  <2> QED BY <2>4, SameTimes
<1>8. CASE Eq(y + t, 0)
  <2>1. 0 \in 0 .. CURVE_P - 1
    BY <1>2
  <2>2. (y + t) % CURVE_P = 0
    BY <1>4, <1>8, <2>1, EqRemainder
  <2>3. p # Infinity /\ q # Infinity
    BY <1>1, NoInfinity
  <2>4. Plus(p, q) = Infinity
    BY <2>2, <2>3 DEF Plus, y, t
  <2>5. j \in 0 .. CURVE_N - 1 /\ k \in 0 .. CURVE_N - 1
    BY CurveNumbers
  <2>6. Times[(j + k) % CURVE_N] = Infinity /\ (j + k) % CURVE_N \in 0 .. CURVE_N - 1
    BY <2>4, <2>5, TimesGroup
  <2>7. (j + k) % CURVE_N = 0
    BY <2>6, TimesInfinity
  <2> QED BY <2>7, SumIsOrder
<1> QED BY <1>6, <1>7, <1>8

\* No point is its own opposite: the order is odd.
LEMMA NotOpposite ==
  ASSUME NEW k \in 1 .. CURVE_N - 1
  PROVE  (2 * Times[k][2]) % CURVE_P # 0
<1> DEFINE p == Times[k]
<1>1. p \in Coordinates /\ p # Infinity
  BY TimesGroup
<1>2. p[2] + p[2] = 2 * p[2]
  BY <1>1, PointNumbers
<1> SUFFICES ASSUME (2 * p[2]) % CURVE_P = 0
             PROVE  FALSE
  OBVIOUS
<1>3. Plus(p, p) = Infinity
  BY <1>1, <1>2 DEF Plus
<1>4. k \in 0 .. CURVE_N - 1 /\ CURVE_N \in Nat /\ CURVE_N % 2 # 0
  BY CurveNumbers
<1>5. Times[(k + k) % CURVE_N] = Infinity /\ (k + k) % CURVE_N \in 0 .. CURVE_N - 1
  BY <1>3, <1>4, TimesGroup
<1>6. k + k = CURVE_N
  BY <1>5, TimesInfinity, SumIsOrder
<1> QED BY <1>4, <1>6

-----------------------------------------------------------------------------
(* The bits that the loop of uECC_verify() passes.                         *)

\* Sums and products of remainders.
LEMMA ModN ==
  ASSUME NEW x \in Int, NEW y \in Int
  PROVE  /\ x % CURVE_N \in 0 .. CURVE_N - 1 /\ x % CURVE_N \in Int
         /\ ((x % CURVE_N) + y) % CURVE_N = (x + y) % CURVE_N
         /\ ((x % CURVE_N) * y) % CURVE_N = (x * y) % CURVE_N
<1> DEFINE n == CURVE_N
           t == x % n
<1>1. n \in Nat /\ n > 0 /\ n \in Int
  BY CurveNumbers
<1>2. t \in 0 .. n - 1 /\ Same(t, x, n)
  BY <1>1, SameRemainder
<1>3. t \in Int /\ Same(y, y, n)
  <2> HIDE DEF t
  <2> QED BY <1>1, <1>2, SameEquivalence
<1> HIDE DEF t, n
<1>4. Same(t + y, x + y, n) /\ Same(t * y, x * y, n)
  BY <1>1, <1>2, <1>3, SameOperations
<1>5. t + y \in Int /\ x + y \in Int /\ t * y \in Int /\ x * y \in Int
  BY <1>3
<1>6. (t + y) % n = (x + y) % n
  BY <1>1, <1>4, <1>5, SameRemainder
<1>7. (t * y) % n = (x * y) % n
  <2> DEFINE e == t * y
             f == x * y
  <2>1. e \in Int /\ f \in Int /\ Same(e, f, n)
    BY <1>4, <1>5
  <2> HIDE DEF e, f
  <2>2. e % n = f % n
    BY <1>1, <2>1, SameRemainder
  <2> QED BY <2>2 DEF e, f
<1> QED BY <1>2, <1>3, <1>6, <1>7 DEF t, n

\* A number below n is its own remainder.
LEMMA BelowN ==
  ASSUME NEW x \in 0 .. CURVE_N - 1
  PROVE  x % CURVE_N = x
BY CurveNumbers

\* A bit as a number.
BitOf(v1, j) == IF TestBit(v1, j) THEN 1 ELSE 0

\* One more bit.
LEMMA NextBit ==
  ASSUME NEW v1 \in Nat, NEW j \in Nat
  PROVE  /\ v1 \div Power(2, j) \in Nat /\ v1 \div Power(2, j + 1) \in Nat
         /\ BitOf(v1, j) \in 0 .. 1
         /\ v1 \div Power(2, j) = 2 * (v1 \div Power(2, j + 1)) + BitOf(v1, j)
<1> DEFINE w == Power(2, j)
           w1 == Power(2, j + 1)
           q == v1 \div w
           h == v1 \div w1
<1>1. w \in Nat /\ w > 0 /\ w1 = 2 * w /\ 2 \in Nat /\ 2 > 0
  BY PowerPositive, PowerSteps
<1>2. BitOf(v1, j) = IF q % 2 = 1 THEN 1 ELSE 0
  BY DEF BitOf, TestBit
<1> HIDE DEF w, w1
<1>3. q \in Nat
  BY <1>1
<1>4. w1 = w * 2
  BY <1>1
<1> DEFINE two == 2
<1>5. h = q \div 2
  <2>1. two \in Nat /\ two > 0 /\ w1 = w * two
    BY <1>4
  <2> HIDE DEF two
  <2>2. v1 \div (w * two) = (v1 \div w) \div two
    BY <1>1, <2>1, DivideTwice
  <2>3. h = (v1 \div w) \div two
    BY <2>1, <2>2
  <2> QED BY <2>3 DEF two
<1> HIDE DEF q, h
<1>6. q = 2 * (q \div 2) + (q % 2) /\ q % 2 \in 0 .. 1 /\ q \div 2 \in Nat
  BY <1>3
<1> QED BY <1>2, <1>3, <1>5, <1>6 DEF q, h, w, w1

\* The highest bit.
LEMMA TopBit ==
  ASSUME NEW v1 \in Nat, NEW m \in Nat, m > 0, v1 < Power(2, m)
  PROVE  /\ v1 \div Power(2, m - 1) = BitOf(v1, m - 1)
         /\ Power(2, m - 1) <= v1 => BitOf(v1, m - 1) = 1
<1> DEFINE j == m - 1
           w == Power(2, j)
           w1 == Power(2, m)
           q == v1 \div w
<1>1. j \in Nat /\ j + 1 = m
  OBVIOUS
<1>2. w \in Nat /\ w > 0 /\ w1 \in Nat /\ w1 > 0 /\ v1 < w1
  <2>1. \A k \in Nat : Power(2, k) \in Nat /\ Power(2, k) > 0
    <3>1. 2 \in Nat /\ 2 > 0
      OBVIOUS
    <3> QED BY <3>1, PowerPositive
  <2> HIDE DEF j
  <2> QED BY <1>1, <2>1
<1>3. q \in Nat /\ q = 2 * (v1 \div w1) + BitOf(v1, j) /\ BitOf(v1, j) \in 0 .. 1
  <2> HIDE DEF j
  <2> QED BY <1>1, NextBit
<1> HIDE DEF w, w1, j
<1>4. v1 \div w1 = 0
  <2>1. v1 = 0 * w1 + v1 /\ v1 \in 0 .. w1 - 1 /\ v1 \in Int /\ 0 \in Int
    BY <1>2
  <2> DEFINE zero == 0
  <2>2. v1 = zero * w1 + v1 /\ zero \in Int
    BY <2>1
  <2> HIDE DEF zero
  <2>3. v1 \div w1 = zero
    BY <1>2, <2>1, <2>2, DivideUnique
  <2> QED BY <2>3 DEF zero
<1>5. w <= v1 => q > 0
  <2> SUFFICES ASSUME w <= v1, q = 0
               PROVE  FALSE
    BY <1>3
  <2>1. v1 = w * q + (v1 % w) /\ v1 % w \in 0 .. w - 1
    BY <1>2
  <2> HIDE DEF q
  <2>2. w * 0 = 0
    BY <1>2
  <2> QED BY <1>2, <2>1, <2>2
<1> HIDE DEF q
<1>6. q = BitOf(v1, j)
  BY <1>3, <1>4
<1> QED BY <1>3, <1>5, <1>6 DEF q, w, j

\* The number of the bits from j + 1 up.
PassedAt(v1, v2, d, j) ==
  ((v1 \div Power(2, j + 1)) + (v2 \div Power(2, j + 1)) * d) % CURVE_N

\* The number of the bits at j.
BitsAt(v1, v2, d, j) == BitOf(v1, j) + BitOf(v2, j) * d

\* Its range.
LEMMA BitsRange ==
  ASSUME NEW v1 \in Nat, NEW v2 \in Nat, NEW d \in 2 .. CURVE_N - 2, NEW j \in Nat
  PROVE  /\ BitsAt(v1, v2, d, j) \in 0 .. CURVE_N - 1
         /\ BitsAt(v1, v2, d, j) = 0 <=> BitOf(v1, j) = 0 /\ BitOf(v2, j) = 0
<1> DEFINE b1 == BitOf(v1, j)
           b2 == BitOf(v2, j)
<1>1. b1 \in {0, 1} /\ b2 \in {0, 1}
  BY DEF BitOf
<1>2. CURVE_N \in Nat /\ CURVE_N > 3
  BY CurveNumbers
<1>3. b2 * d = IF b2 = 0 THEN 0 ELSE d
  BY <1>1, <1>2
<1>4. BitsAt(v1, v2, d, j) = b1 + IF b2 = 0 THEN 0 ELSE d
  BY <1>3 DEF BitsAt
<1> HIDE DEF b1, b2
<1>5. BitsAt(v1, v2, d, j) \in 0 .. CURVE_N - 1
      /\ (BitsAt(v1, v2, d, j) = 0 <=> b1 = 0 /\ b2 = 0)
  BY <1>1, <1>2, <1>4
<1> QED BY <1>5 DEF b1, b2

\* A round doubles the number and adds the next bits.
LEMMA PassedNext ==
  ASSUME NEW v1 \in Nat, NEW v2 \in Nat, NEW d \in 2 .. CURVE_N - 2, NEW j \in Nat
  PROVE  /\ PassedAt(v1, v2, d, j) \in 0 .. CURVE_N - 1
         /\ PassedAt(v1, v2, d, j - 1)
              = (((PassedAt(v1, v2, d, j) + PassedAt(v1, v2, d, j)) % CURVE_N)
                   + BitsAt(v1, v2, d, j)) % CURVE_N
<1> DEFINE n == CURVE_N
           h1 == v1 \div Power(2, j + 1)
           h2 == v2 \div Power(2, j + 1)
           q1 == v1 \div Power(2, j)
           q2 == v2 \div Power(2, j)
           b1 == BitOf(v1, j)
           b2 == BitOf(v2, j)
           t == h1 + h2 * d
           k == t % n
           m == b1 + b2 * d
<1>1. n \in Nat /\ n > 3 /\ d \in Int
  BY CurveNumbers
<1>2. h1 \in Int /\ h2 \in Int /\ b1 \in Int /\ b2 \in Int /\ q1 = 2 * h1 + b1 /\ q2 = 2 * h2 + b2
  <2>1. h1 \in Nat /\ h2 \in Nat /\ b1 \in 0 .. 1 /\ b2 \in 0 .. 1
        /\ q1 = 2 * h1 + b1 /\ q2 = 2 * h2 + b2
    BY NextBit
  <2> HIDE DEF h1, h2, b1, b2, q1, q2
  <2> QED BY <2>1
<1>3. PassedAt(v1, v2, d, j) = k /\ BitsAt(v1, v2, d, j) = m
  BY DEF PassedAt, BitsAt
<1>4. PassedAt(v1, v2, d, j - 1) = (q1 + q2 * d) % n
  <2>1. (j - 1) + 1 = j
    OBVIOUS
  <2> QED BY <2>1 DEF PassedAt
<1> HIDE DEF h1, h2, q1, q2, b1, b2
<1>5. q1 + q2 * d = t + t + m /\ t \in Int /\ m \in Int
  <2>1. (2 * h2 + b2) * d = h2 * d + h2 * d + b2 * d /\ h2 * d \in Int /\ b2 * d \in Int
    BY <1>1, <1>2
  <2> QED BY <1>2, <2>1
<1> HIDE DEF t, m
<1>6. k \in 0 .. n - 1 /\ k \in Int
  BY <1>5, ModN
<1>7. (k + k) % n = (t + t) % n
  <2>1. (k + k) % n = (t + k) % n
    BY <1>5, <1>6, ModN
  <2>2. (k + t) % n = (t + t) % n
    BY <1>5, <1>6, ModN
  <2> HIDE DEF k
  <2>3. t + k = k + t
    BY <1>5, <1>6
  <2> QED BY <2>1, <2>2, <2>3
<1>8. (((t + t) % n) + m) % n = (t + t + m) % n
  <2>1. t + t \in Int
    BY <1>5
  <2> QED BY <1>5, <2>1, ModN
<1> QED BY <1>3, <1>4, <1>5, <1>6, <1>7, <1>8

-----------------------------------------------------------------------------
(* The verification.                                                       *)

\* XYcZ_add() makes points, whatever it is given.
LEMMA AddType ==
  ASSUME NEW p \in Coordinates, NEW q \in Coordinates
  PROVE  XYcZ_add(p, q).sum \in Coordinates
<1> DEFINE A == ((q[1] - p[1]) * (q[1] - p[1])) % CURVE_P
           B == (p[1] * A) % CURVE_P
           C == (q[1] * A) % CURVE_P
           dy == (q[2] - p[2]) % CURVE_P
           E == (p[2] * (C - B)) % CURVE_P
           x3 == (dy * dy - B - C) % CURVE_P
           y3 == (dy * (B - x3) - E) % CURVE_P
<1>1. p[1] \in Int /\ p[2] \in Int /\ q[1] \in Int /\ q[2] \in Int
  BY PointNumbers
<1>2. XYcZ_add(p, q).sum = <<x3, y3>>
  BY DEF XYcZ_add
<1>3. A \in Int
  <2>1. (q[1] - p[1]) * (q[1] - p[1]) \in Int
    BY <1>1
  <2> QED BY <2>1, EqMod
<1> HIDE DEF A
<1>4. B \in Int
  <2>1. p[1] * A \in Int
    BY <1>1, <1>3
  <2> QED BY <2>1, EqMod
<1>5. C \in Int
  <2>1. q[1] * A \in Int
    BY <1>1, <1>3
  <2> QED BY <2>1, EqMod
<1>6. dy \in Int
  <2>1. q[2] - p[2] \in Int
    BY <1>1
  <2> QED BY <2>1, EqMod
<1> HIDE DEF B, C, dy
<1>7. E \in Int
  <2>1. p[2] * (C - B) \in Int
    BY <1>1, <1>4, <1>5
  <2> QED BY <2>1, EqMod
<1> HIDE DEF E
<1>8. dy * dy - B - C \in Int
  BY <1>4, <1>5, <1>6
<1>9. x3 \in Int
  BY <1>8, EqMod
<1>10. x3 \in 0 .. CURVE_P - 1
  BY <1>8, EqMod
<1> HIDE DEF x3
<1>11. dy * (B - x3) - E \in Int
  BY <1>4, <1>6, <1>7, <1>9
<1>12. y3 \in 0 .. CURVE_P - 1
  BY <1>11, EqMod
<1> HIDE DEF y3
<1> QED BY <1>2, <1>10, <1>12 DEF Coordinates

\* The inverse modulo the order.
LEMMA InvNRight ==
  ASSUME NEW x \in 1 .. CURVE_N - 1
  PROVE  InvN[x] \in 1 .. CURVE_N - 1 /\ InvN[x] \in Int
<1>1. IsPrime(CURVE_N) /\ CURVE_N \in Nat
  BY CurveNumbers
<1>2. InvN[x] \in 1 .. CURVE_N - 1
  BY <1>1, InverseRight DEF InvN
<1> QED BY <1>1, <1>2

\* The arguments that the loop works on.
Ready ==
  /\ r \in 1 .. CURVE_N - 1 /\ s \in 1 .. CURVE_N - 1
  /\ u1 = (hash * InvN[s]) % CURVE_N /\ u2 = (r * InvN[s]) % CURVE_N

\* The loop, between its rounds.
InLoop ==
  /\ i \in Nat \cup {-1} /\ point \in Coordinates /\ z \in 0 .. CURVE_P - 1
  /\ z # 0 => Passed # 0 /\ point = ApplyZ(Times[Passed], z)

(***************************************************************************)
(* The inductive invariant: u1 and u2 belong to the arguments, `sum` to    *)
(* the key, and the point of the loop is the multiple of the generator     *)
(* that the bits passed so far stand for, scaled by z, as long as z is not *)
(* 0 (uECC.c:1118-1242).                                                   *)
(***************************************************************************)
EcInv ==
  /\ secret \in 2 .. CURVE_N - 2 /\ hash \in Nat /\ r \in Nat /\ s \in Nat
  /\ epc \in {"sum", "start", "loop"} => Ready
  /\ epc \in {"start", "loop"} => sum = Times[1 + secret]
  /\ epc = "loop" => InLoop
  /\ VerdictRight

\* What Ready says of u1 and u2.
LEMMA ReadyNumbers ==
  ASSUME EcInv, Ready
  PROVE  /\ u1 \in 0 .. CURVE_N - 1 /\ u1 \in Nat
         /\ u2 \in 1 .. CURVE_N - 1 /\ u2 \in Nat
<1> DEFINE inv == InvN[s]
           e == hash * inv
           f == r * inv
<1>1. IsPrime(CURVE_N) /\ CURVE_N \in Nat /\ CURVE_N > 3
  BY CurveNumbers
<1>2. s \in 1 .. CURVE_N - 1 /\ r \in 1 .. CURVE_N - 1 /\ hash \in Nat
  BY DEF EcInv, Ready
<1>3. inv \in 1 .. CURVE_N - 1 /\ inv \in Int
  BY <1>2, InvNRight
<1>4. u1 = e % CURVE_N /\ u2 = f % CURVE_N
  BY DEF Ready
<1> HIDE DEF inv
<1>5. f % CURVE_N # 0
  BY <1>1, <1>2, <1>3, Euclid
<1>6. e \in Int /\ f \in Int
  BY <1>1, <1>2, <1>3
<1> HIDE DEF e, f
<1>7. e % CURVE_N \in 0 .. CURVE_N - 1 /\ f % CURVE_N \in 0 .. CURVE_N - 1
  BY <1>6, ModN
<1>8. u1 \in 0 .. CURVE_N - 1 /\ u2 \in 0 .. CURVE_N - 1 /\ u2 # 0
  BY <1>4, <1>5, <1>7
<1> QED BY <1>1, <1>8

\* What points[] holds, by the bits.
LEMMA PointsAre ==
  ASSUME EcInv, Ready, sum = Times[1 + secret], NEW j \in Nat
  PROVE  /\ Points(j) = Times[BitsAt(u1, u2, secret, j)]
         /\ BitsAt(u1, u2, secret, j) \in 0 .. CURVE_N - 1
<1> DEFINE b1 == BitOf(u1, j)
           b2 == BitOf(u2, j)
<1>1. secret \in 2 .. CURVE_N - 2 /\ u1 \in Nat /\ u2 \in Nat /\ CURVE_N \in Nat
  BY ReadyNumbers, CurveNumbers DEF EcInv
<1>2. BitsAt(u1, u2, secret, j) \in 0 .. CURVE_N - 1
  BY <1>1, BitsRange
<1>3. BitsAt(u1, u2, secret, j) = b1 + b2 * secret
  BY DEF BitsAt
<1>4. 0 + 0 * secret = 0 /\ 0 + 1 * secret = secret /\ 1 + 0 * secret = 1
      /\ 1 + 1 * secret = 1 + secret
  BY <1>1
<1>5. Times[0] = << >> /\ Times[1] = CURVE_G
  BY TimesStart DEF Infinity
<1>6. Points(j) = Times[b1 + b2 * secret]
  <2>1. CASE TestBit(u1, j) /\ TestBit(u2, j)
    BY <1>4, <1>5, <2>1 DEF Points, BitOf
  <2>2. CASE TestBit(u1, j) /\ ~ TestBit(u2, j)
    BY <1>4, <1>5, <2>2 DEF Points, BitOf
  <2>3. CASE ~ TestBit(u1, j) /\ TestBit(u2, j)
    BY <1>4, <1>5, <2>3 DEF Points, BitOf, _public
  <2>4. CASE ~ TestBit(u1, j) /\ ~ TestBit(u2, j)
    BY <1>4, <1>5, <2>4 DEF Points, BitOf
  <2> QED BY <2>1, <2>2, <2>3, <2>4
<1> QED BY <1>2, <1>3, <1>6

\* The sum of the generator and the key.
LEMMA AddGRight ==
  ASSUME EcInv, AddG
  PROVE  sum' = Times[1 + secret]
<1> DEFINE G == Times[1]
           Q == Times[secret]
           w == 1 * (Q[1] - G[1])
           n == (Q[1] - G[1]) % CURVE_P
           T == Times[1 + secret]
<1>1. CURVE_N \in Nat /\ CURVE_N > 3 /\ secret \in 2 .. CURVE_N - 2 /\ CURVE_P \in Nat /\ CURVE_P > 4
  BY CurveNumbers DEF EcInv
<1>2. 1 \in 1 .. CURVE_N - 1 /\ secret \in 1 .. CURVE_N - 1 /\ 1 + secret \in 1 .. CURVE_N - 1
      /\ 1 \in 0 .. CURVE_N - 1 /\ secret \in 0 .. CURVE_N - 1 /\ 1 + secret \in 0 .. CURVE_N - 1
      /\ 1 # secret /\ 1 + secret # CURVE_N
  BY <1>1
<1>3. G \in Coordinates /\ Q \in Coordinates /\ T \in Coordinates
  BY <1>2, TimesGroup
<1>4. G[1] # Q[1]
  BY <1>2, SameX
<1>5. Plus(G, Q) = T
  <2>1. (1 + secret) % CURVE_N = 1 + secret
    BY <1>2, BelowN
  <2> QED BY <1>2, <2>1, TimesGroup
<1>6. G = CURVE_G /\ Q = _public
  BY TimesStart DEF _public
<1> HIDE DEF G, Q, T
<1>7. G = ApplyZ(G, 1) /\ Q = ApplyZ(Q, 1)
  BY <1>3, ApplyZOne
<1>8. ~ Eq(1, 0)
  <2>1. 1 \in 1 .. CURVE_P - 1
    BY <1>1
  <2> QED BY <2>1, InvPRight
<1> DEFINE one == 1
<1>9. w \in Int /\ ~ Eq(w, 0) /\ XYcZ_add(G, Q).sum = ApplyZ(Plus(G, Q), w)
  <2>1. one \in Int /\ ~ Eq(one, 0) /\ G = ApplyZ(G, one) /\ Q = ApplyZ(Q, one)
        /\ w = one * (Q[1] - G[1])
    BY <1>7, <1>8
  <2> HIDE DEF one, w, n
  <2>2. SharedZ(G, Q, one, G, Q, w)
    BY <1>3, <1>4, <2>1, Zenon DEF SharedZ
  <2> QED BY <2>1, <2>2, AddStands
<1>10. w = Q[1] - G[1] /\ n = w % CURVE_P
  <2>1. Q[1] \in Int /\ G[1] \in Int
    BY <1>3, PointNumbers
  <2> QED BY <2>1
<1> HIDE DEF w, n
<1>11. n \in 1 .. CURVE_P - 1 /\ Eq(w, n) /\ n \in Int
  <2>1. n \in 0 .. CURVE_P - 1 /\ Eq(w, n) /\ n \in Int
    BY <1>9, <1>10, EqRemainder
  <2>2. n # 0
    BY <1>9, <2>1
  <2> QED BY <1>1, <2>1, <2>2
<1> DEFINE inv == InvP[n]
<1>12. inv \in Int /\ Eq(n * inv, 1)
  <2>1. inv \in 1 .. CURVE_P - 1 /\ Eq(n * inv, 1)
    BY <1>11, InvPRight
  <2> HIDE DEF inv
  <2> QED BY <1>1, <2>1
<1>13. Eq(w * inv, 1)
  <2> HIDE DEF inv
  <2> DEFINE e == w * inv
             f == n * inv
  <2>1. Eq(e, f)
    BY <1>9, <1>11, <1>12, EqTimes
  <2>2. e \in Int /\ f \in Int /\ 1 \in Int /\ Eq(f, 1)
    BY <1>9, <1>11, <1>12
  <2> HIDE DEF e, f
  <2>3. Eq(e, 1)
    BY <2>1, <2>2, EqVia
  <2> QED BY <2>3 DEF e
<1>14. ApplyZ(ApplyZ(T, w), inv) = T
  <2> HIDE DEF inv
  <2> QED BY <1>3, <1>9, <1>12, <1>13, ApplyZBack
<1>15. sum' = ApplyZ(XYcZ_add(G, Q).sum, inv)
  BY <1>6 DEF AddG, n, inv
<1> QED BY <1>5, <1>9, <1>14, <1>15 DEF T

\* The multiple that the loop has reached.
LEMMA PassedIs == Passed = PassedAt(u1, u2, secret, i)
BY DEF Passed, PassedAt

\* The loop begins with the highest bit of u1 and u2.
LEMMA LoopStarts ==
  ASSUME EcInv, StartLoop
  PROVE  InLoop'
<1> DEFINE n1 == NumBits(u1)
           n2 == NumBits(u2)
           n == Larger(n1, n2)
           j == n - 1
           m == BitsAt(u1, u2, secret, j)
<1>1. /\ Ready /\ sum = Times[1 + secret] /\ secret \in 2 .. CURVE_N - 2
      /\ point' = Points(j) /\ i' = n - 2 /\ z' = 1 /\ secret' = secret /\ u1' = u1 /\ u2' = u2
  BY DEF EcInv, StartLoop, ecArgs
<1>2. u1 \in Nat /\ u2 \in Nat /\ u2 > 0 /\ CURVE_N \in Nat /\ CURVE_P \in Nat /\ CURVE_P > 4
  <2>1. u2 \in 1 .. CURVE_N - 1 /\ u1 \in Nat /\ u2 \in Nat
    BY <1>1, ReadyNumbers
  <2> QED BY <2>1, CurveNumbers
<1>3. /\ n1 \in Nat /\ u1 < Power(2, n1) /\ (u1 > 0 => n1 > 0 /\ Power(2, n1 - 1) <= u1)
      /\ n2 \in Nat /\ u2 < Power(2, n2) /\ n2 > 0 /\ Power(2, n2 - 1) <= u2
  BY <1>2, NumBitsRight
<1> HIDE DEF n1, n2
<1>4. n \in Nat /\ n > 0 /\ n1 <= n /\ n2 <= n /\ (n = n1 \/ n = n2)
  BY <1>3 DEF Larger
<1> HIDE DEF n
<1>5. j \in Nat /\ n - 2 \in Nat \cup {-1} /\ (n - 2) + 1 = j
  BY <1>4
<1>6. \A k \in Nat : k <= n => Power(2, k) \in Nat /\ Power(2, n) \in Nat /\ Power(2, k) <= Power(2, n)
  <2>1. 2 \in Nat /\ 2 > 1 /\ 2 > 0
    OBVIOUS
  <2> QED BY <1>4, <2>1, PowerMonotone, PowerPositive
<1>7. u1 < Power(2, n) /\ u2 < Power(2, n)
  <2> DEFINE p1 == Power(2, n1)
             p2 == Power(2, n2)
             p == Power(2, n)
  <2>1. p1 \in Nat /\ p2 \in Nat /\ p \in Nat /\ p1 <= p /\ p2 <= p
    BY <1>3, <1>4, <1>6
  <2>2. u1 < p1 /\ u2 < p2
    BY <1>3
  <2> HIDE DEF p1, p2, p
  <2>3. u1 < p /\ u2 < p
    BY <1>2, <2>1, <2>2
  <2> QED BY <2>3 DEF p
<1>8. /\ u1 \div Power(2, j) = BitOf(u1, j) /\ (Power(2, j) <= u1 => BitOf(u1, j) = 1)
      /\ u2 \div Power(2, j) = BitOf(u2, j) /\ (Power(2, j) <= u2 => BitOf(u2, j) = 1)
  BY <1>2, <1>4, <1>7, TopBit
<1>9. BitOf(u1, j) = 1 \/ BitOf(u2, j) = 1
  <2>1. CASE n = n2
    BY <1>3, <1>8, <2>1
  <2>2. CASE n = n1 /\ n # n2
    <3>1. u1 > 0
      <4> SUFFICES ASSUME u1 = 0
                   PROVE  FALSE
        BY <1>2
      <4> DEFINE p == Power(2, j)
      <4>1. NumBits(0) \in 0 .. 0
        <5>1. NumBits(0) = 0
          <6>1. Power(2, 0) > 0
            BY PowerSteps
          <6> QED BY <6>1 DEF NumBits
        <5> QED BY <5>1
      <4> QED BY <1>3, <1>4, <2>2, <4>1 DEF n1
    <3> QED BY <1>3, <1>8, <2>2, <3>1
  <2> QED BY <1>4, <2>1, <2>2
<1> HIDE DEF j
<1>10. m \in 0 .. CURVE_N - 1 /\ m # 0 /\ Points(j) = Times[m]
  <2>1. m \in 0 .. CURVE_N - 1 /\ (m = 0 <=> BitOf(u1, j) = 0 /\ BitOf(u2, j) = 0)
    <3>1. u1 \in Nat /\ u2 \in Nat /\ secret \in 2 .. CURVE_N - 2 /\ j \in Nat
      BY <1>1, <1>2, <1>5
    <3>2. /\ BitsAt(u1, u2, secret, j) \in 0 .. CURVE_N - 1
          /\ BitsAt(u1, u2, secret, j) = 0 <=> BitOf(u1, j) = 0 /\ BitOf(u2, j) = 0
      BY <3>1, BitsRange, Zenon
    <3> QED BY <3>2, Zenon
  <2>2. Points(j) = Times[m]
    BY <1>1, <1>5, PointsAre
  <2> QED BY <1>9, <2>1, <2>2
<1>11. Passed' = m
  <2>1. Passed' = ((u1 \div Power(2, j)) + (u2 \div Power(2, j)) * secret) % CURVE_N
    BY <1>1, <1>5 DEF Passed
  <2>2. Passed' = m % CURVE_N
    BY <1>8, <2>1 DEF BitsAt
  <2> HIDE DEF m
  <2> QED BY <1>10, <2>2, BelowN
<1> HIDE DEF m
<1>12. m \in 1 .. CURVE_N - 1
  BY <1>2, <1>10
<1>13. Times[m] \in Coordinates
  BY <1>12, TimesGroup
<1>14. point' = Times[m] /\ point' = ApplyZ(Times[m], 1)
  BY <1>1, <1>10, <1>13, ApplyZOne
<1>15. z' \in 0 .. CURVE_P - 1
  BY <1>1, <1>2
<1> QED BY <1>1, <1>5, <1>10, <1>11, <1>13, <1>14, <1>15 DEF InLoop

\* A number that is not 0 below the prime.
LEMMA NotZero ==
  ASSUME NEW x \in 0 .. CURVE_P - 1, x # 0
  PROVE  x \in 1 .. CURVE_P - 1 /\ x \in Int /\ ~ Eq(x, 0)
<1>1. CURVE_P \in Nat
  BY CurveNumbers
<1>2. x \in 1 .. CURVE_P - 1 /\ x \in Int
  BY <1>1
<1> QED BY <1>2, InvPRight

\* The doubled point and its z, in a loop that has met no exception.
LEMMA Doubles ==
  ASSUME NEW k \in 1 .. CURVE_N - 1, NEW zz \in 0 .. CURVE_P - 1, zz # 0,
         NEW p, p = ApplyZ(Times[k], zz)
  PROVE  LET double == DoubleJacobian(p, zz) IN
           /\ double.z \in 0 .. CURVE_P - 1 /\ double.z # 0
           /\ (k + k) % CURVE_N \in 1 .. CURVE_N - 1
           /\ double.point = ApplyZ(Times[(k + k) % CURVE_N], double.z)
<1> DEFINE T == Times[k]
           w == (p[2] * zz) % CURVE_P
           k2 == (k + k) % CURVE_N
<1>1. T \in Coordinates /\ (2 * T[2]) % CURVE_P # 0
  BY TimesGroup, NotOpposite
<1>2. zz \in Int /\ ~ Eq(zz, 0)
  BY NotZero
<1>3. k \in 0 .. CURVE_N - 1 /\ CURVE_N \in Nat
  BY CurveNumbers
<1>4. Plus(T, T) = Times[k2] /\ k2 \in 0 .. CURVE_N - 1
  BY <1>3, TimesGroup
<1> HIDE DEF T
<1>5. p = ApplyZ(T, zz)
  BY DEF T
<1>6. /\ w \in 0 .. CURVE_P - 1 /\ w # 0 /\ Plus(T, T) \in Coordinates
      /\ DoubleJacobian(p, zz) = [point |-> ApplyZ(Plus(T, T), w), z |-> w]
  BY <1>1, <1>2, <1>5, DoubleStands
<1>7. k2 # 0
  <2>1. Times[k2] # Infinity
    BY <1>4, <1>6, NoInfinity
  <2> HIDE DEF k2
  <2> QED BY <2>1, TimesStart
<1>8. k2 \in 1 .. CURVE_N - 1
  <2> HIDE DEF k2
  <2> QED BY <1>3, <1>4, <1>7
<1> HIDE DEF w, k2
<1>9. DoubleJacobian(p, zz).point = ApplyZ(Times[k2], w) /\ DoubleJacobian(p, zz).z = w
  BY <1>4, <1>6
<1> QED BY <1>6, <1>8, <1>9 DEF k2

\* The addition of the next point, unless it has the same x.
LEMMA Adds ==
  ASSUME NEW k \in 1 .. CURVE_N - 1, NEW m \in 1 .. CURVE_N - 1,
         NEW zz \in 0 .. CURVE_P - 1, zz # 0,
         NEW p, p = ApplyZ(Times[k], zz), NEW t, t = ApplyZ(Times[m], zz),
         NEW w, w = (zz * (p[1] - t[1])) % CURVE_P, w # 0
  PROVE  /\ (k + m) % CURVE_N \in 1 .. CURVE_N - 1
         /\ XYcZ_add(t, p).sum = ApplyZ(Times[(k + m) % CURVE_N], w)
<1> DEFINE T == Times[k]
           M == Times[m]
           w1 == zz * (p[1] - t[1])
           k2 == (k + m) % CURVE_N
<1>1. T \in Coordinates /\ M \in Coordinates
  BY TimesGroup
<1>2. zz \in Int /\ ~ Eq(zz, 0)
  BY NotZero
<1>3. k \in 0 .. CURVE_N - 1 /\ m \in 0 .. CURVE_N - 1 /\ CURVE_N \in Nat /\ k + m = m + k
      /\ CURVE_P \in Nat /\ CURVE_P > 4
  BY CurveNumbers
<1>4. Plus(M, T) = Times[k2] /\ k2 \in 0 .. CURVE_N - 1
  <2>1. Plus(M, T) = Times[(m + k) % CURVE_N] /\ (m + k) % CURVE_N \in 0 .. CURVE_N - 1
    BY <1>3, TimesGroup
  <2> QED BY <1>3, <2>1
<1> HIDE DEF T, M
<1>5. p = ApplyZ(T, zz) /\ t = ApplyZ(M, zz)
  BY DEF T, M
<1>6. p \in Coordinates /\ t \in Coordinates
  BY <1>1, <1>2, <1>5, ApplyZIs
<1>7. p[1] \in Int /\ t[1] \in Int
  BY <1>6, PointNumbers
<1>8. M[1] # T[1]
  <2> SUFFICES ASSUME M[1] = T[1]
               PROVE  FALSE
    OBVIOUS
  <2>1. p[1] = t[1]
    BY <1>5 DEF ApplyZ
  <2>2. p[1] - t[1] = 0
    BY <1>7, <2>1
  <2>3. zz * 0 = 0 /\ 0 % CURVE_P = 0
    BY <1>2, <1>3
  <2>4. w = (zz * 0) % CURVE_P
    BY <2>2
  <2> QED BY <2>3, <2>4
<1>9. SharedZ(M, T, zz, t, p, w1)
  BY <1>1, <1>2, <1>5, <1>8, Zenon DEF SharedZ
<1>10. w1 \in Int /\ Plus(M, T) \in Coordinates /\ XYcZ_add(t, p).sum = ApplyZ(Plus(M, T), w1)
  BY <1>9, AddStands
<1>11. w = w1 % CURVE_P
  OBVIOUS
<1> HIDE DEF w1
<1>12. w \in Int /\ Eq(w1, w)
  BY <1>10, <1>11, EqRemainder
<1>13. ApplyZ(Plus(M, T), w1) = ApplyZ(Plus(M, T), w)
  BY <1>10, <1>12, ApplyZSame
<1>14. k2 # 0
  <2>1. Times[k2] # Infinity
    BY <1>4, <1>10, NoInfinity
  <2> HIDE DEF k2
  <2> QED BY <2>1, TimesStart
<1>15. k2 \in 1 .. CURVE_N - 1
  <2> HIDE DEF k2
  <2> QED BY <1>3, <1>4, <1>14
<1> HIDE DEF k2
<1>16. XYcZ_add(t, p).sum = ApplyZ(Times[k2], w)
  BY <1>4, <1>10, <1>13
<1> QED BY <1>15, <1>16 DEF k2

\* A round of the loop.
LEMMA LoopGoesOn ==
  ASSUME EcInv, DoubleAndAdd
  PROVE  InLoop'
<1> DEFINE double == DoubleJacobian(point, z)
           d == double.point
           dz == double.z
           m == BitsAt(u1, u2, secret, i)
           Q == Points(i)
           t == ApplyZ(Q, dz)
           add == XYcZ_add(t, d).sum
           w == (dz * (d[1] - t[1])) % CURVE_P
<1>1. /\ Ready /\ sum = Times[1 + secret] /\ secret \in 2 .. CURVE_N - 2 /\ InLoop /\ i >= 0
      /\ i' = i - 1 /\ secret' = secret /\ u1' = u1 /\ u2' = u2
  BY DEF EcInv, DoubleAndAdd, ecArgs
<1>2. IF Q = << >> THEN point' = d /\ z' = dz ELSE point' = add /\ z' = w
  BY DEF DoubleAndAdd
<1>3. /\ i \in Nat /\ point \in Coordinates /\ z \in 0 .. CURVE_P - 1
      /\ (z # 0 => Passed # 0 /\ point = ApplyZ(Times[Passed], z))
  BY <1>1 DEF InLoop
<1>4. /\ u1 \in Nat /\ u2 \in Nat
      /\ CURVE_N \in Nat /\ CURVE_N > 3 /\ CURVE_P \in Nat /\ CURVE_P > 4
  BY <1>1, ReadyNumbers, CurveNumbers
<1>5. m \in 0 .. CURVE_N - 1 /\ Q = Times[m]
  BY <1>1, <1>3, PointsAre
<1>6. i' \in Nat \cup {-1}
  BY <1>1, <1>3
<1>7. Passed' = PassedAt(u1, u2, secret, i - 1)
  BY <1>1 DEF Passed, PassedAt
<1>8. Q = << >> <=> m = 0
  <2> HIDE DEF m
  <2> QED BY <1>5, TimesInfinity DEF Infinity
<1>9. Q # << >> => m \in 1 .. CURVE_N - 1 /\ Q \in Coordinates
  <2> HIDE DEF m
  <2>1. Q # << >> => m \in 1 .. CURVE_N - 1
    BY <1>4, <1>5, <1>8
  <2> QED BY <1>5, <2>1, TimesGroup
<1>10. ASSUME NEW p \in Coordinates, NEW zz \in Int, Q # << >>
       PROVE  /\ ApplyZ(Q, zz) \in Coordinates
              /\ XYcZ_add(ApplyZ(Q, zz), p).sum \in Coordinates
              /\ p[1] - ApplyZ(Q, zz)[1] \in Int
  <2> HIDE DEF Q
  <2>1. ApplyZ(Q, zz) \in Coordinates
    BY <1>9, <1>10, ApplyZIs
  <2>2. XYcZ_add(ApplyZ(Q, zz), p).sum \in Coordinates
    BY <2>1, AddType
  <2>3. p[1] \in Int /\ ApplyZ(Q, zz)[1] \in Int
    BY <2>1, PointNumbers
  <2> QED BY <2>1, <2>2, <2>3
<1>11. CASE z = 0
  <2>1. d = point /\ dz = 0
    BY <1>11 DEF DoubleJacobian
  <2> HIDE DEF Q, double
  <2>2. CASE Q = << >>
    <3>1. point' = point /\ z' = 0
      BY <1>2, <2>1, <2>2
    <3>2. z' \in 0 .. CURVE_P - 1
      BY <1>4, <3>1
    <3> QED BY <1>3, <1>6, <3>1, <3>2 DEF InLoop
  <2>3. CASE Q # << >>
    <3> DEFINE e == d[1] - t[1]
    <3>1. 0 \in Int /\ d \in Coordinates
      BY <1>3, <2>1
    <3>2. add \in Coordinates /\ e \in Int
      BY <1>10, <2>1, <2>3, <3>1
    <3>3. w = (dz * e) % CURVE_P
      OBVIOUS
    <3> HIDE DEF e, w, add
    <3>4. w = 0
      BY <1>4, <2>1, <3>2, <3>3
    <3>5. point' = add /\ z' = 0 /\ z' \in 0 .. CURVE_P - 1
      BY <1>2, <1>4, <2>3, <3>4
    <3> QED BY <1>6, <3>2, <3>5 DEF InLoop
  <2> QED BY <2>2, <2>3
<1>12. CASE z # 0
  <2> DEFINE k == Passed
             k2 == (k + k) % CURVE_N
  <2>1. k = PassedAt(u1, u2, secret, i)
    BY PassedIs
  <2>2. /\ PassedAt(u1, u2, secret, i) \in 0 .. CURVE_N - 1
        /\ PassedAt(u1, u2, secret, i - 1)
             = (((PassedAt(u1, u2, secret, i) + PassedAt(u1, u2, secret, i)) % CURVE_N) + m) % CURVE_N
    BY <1>1, <1>3, <1>4, PassedNext
  <2>3. k \in 0 .. CURVE_N - 1 /\ k # 0 /\ point = ApplyZ(Times[k], z)
        /\ Passed' = (k2 + m) % CURVE_N
    BY <1>3, <1>7, <1>12, <2>1, <2>2
  <2> HIDE DEF k, m, Q, double
  <2>4. k \in 1 .. CURVE_N - 1
    BY <1>4, <2>3
  <2>5. dz \in 0 .. CURVE_P - 1 /\ dz # 0 /\ k2 \in 1 .. CURVE_N - 1 /\ d = ApplyZ(Times[k2], dz)
    BY <1>3, <1>12, <2>3, <2>4, Doubles DEF double
  <2> HIDE DEF k2
  <2>6. dz \in Int /\ Times[k2] \in Coordinates /\ k2 \in 0 .. CURVE_N - 1
    BY <1>4, <2>5, TimesGroup
  <2>7. d \in Coordinates
    BY <2>5, <2>6, ApplyZIs
  <2>8. CASE Q = << >>
    <3>1. point' = d /\ z' = dz /\ m = 0
      BY <1>2, <1>8, <2>8
    <3>2. Passed' = k2
      <4>1. k2 + 0 = k2
        BY <1>4, <2>6
      <4> QED BY <2>3, <2>6, <3>1, <4>1, BelowN
    <3>3. Passed' # 0 /\ point' = ApplyZ(Times[Passed'], z')
      BY <2>5, <3>1, <3>2
    <3> QED BY <1>6, <2>5, <2>7, <3>1, <3>3 DEF InLoop
  <2>9. CASE Q # << >>
    <3> DEFINE e == d[1] - t[1]
               k3 == (k2 + m) % CURVE_N
    <3>1. m \in 1 .. CURVE_N - 1
      BY <1>9, <2>9
    <3>2. add \in Coordinates /\ e \in Int
      BY <1>10, <2>6, <2>7, <2>9
    <3>3. w \in 0 .. CURVE_P - 1
      <4>1. dz * e \in Int
        <5> HIDE DEF e
        <5> QED BY <2>6, <3>2
      <4> QED BY <4>1, EqMod
    <3>4. point' = add /\ z' = w
      BY <1>2, <2>9
    <3>5. ASSUME w # 0
          PROVE  k3 \in 1 .. CURVE_N - 1 /\ add = ApplyZ(Times[k3], w)
      <4>1. t = ApplyZ(Times[m], dz)
        BY <1>5
      <4> QED BY <2>5, <3>1, <3>5, <4>1, Adds
    <3> HIDE DEF add, w, k3
    <3>6. k3 \in 1 .. CURVE_N - 1 => k3 # 0
      OBVIOUS
    <3>7. Passed' = k3
      BY <2>3 DEF k3
    <3>8. z' # 0 => Passed' # 0 /\ point' = ApplyZ(Times[Passed'], z')
      BY <3>4, <3>5, <3>6, <3>7
    <3> QED BY <1>6, <3>2, <3>3, <3>4, <3>8 DEF InLoop
  <2> QED BY <2>8, <2>9
<1> QED BY <1>11, <1>12

\* The affine point of a loop that has met no exception.
LEMMA LoopPoint ==
  ASSUME EcInv, epc = "loop", z # 0
  PROVE  ApplyZ(point, InvP[z]) = Times[Passed] /\ Passed \in 1 .. CURVE_N - 1
<1> DEFINE inv == InvP[z]
<1>1. InLoop /\ Ready /\ secret \in 2 .. CURVE_N - 2
  BY DEF EcInv
<1>2. i \in Nat \cup {-1} /\ z \in 0 .. CURVE_P - 1 /\ Passed # 0 /\ point = ApplyZ(Times[Passed], z)
  BY <1>1 DEF InLoop
<1>3. Passed \in 0 .. CURVE_N - 1
  <2> DEFINE h1 == u1 \div Power(2, i + 1)
             h2 == u2 \div Power(2, i + 1)
  <2>1. u1 \in Nat /\ u2 \in Nat /\ i + 1 \in Nat /\ secret \in Int
    BY <1>1, <1>2, ReadyNumbers, CurveNumbers
  <2>2. h1 \in Nat /\ h2 \in Nat
    BY <2>1, NextBit
  <2> HIDE DEF h1, h2
  <2>3. h1 + h2 * secret \in Int
    BY <2>1, <2>2
  <2>4. Passed = (h1 + h2 * secret) % CURVE_N
    BY DEF Passed, h1, h2
  <2> QED BY <2>3, <2>4, ModN
<1>4. Passed \in 1 .. CURVE_N - 1 /\ z \in Int /\ z \in 1 .. CURVE_P - 1
  <2> HIDE DEF Passed
  <2> QED BY <1>2, <1>3, CurveNumbers
<1>5. Times[Passed] \in Coordinates
  BY <1>4, TimesGroup
<1>6. inv \in Int /\ Eq(z * inv, 1)
  <2>1. inv \in 1 .. CURVE_P - 1 /\ Eq(z * inv, 1)
    BY <1>4, InvPRight
  <2> HIDE DEF inv
  <2> QED BY <2>1, CurveNumbers
<1> HIDE DEF inv
<1>7. ApplyZ(ApplyZ(Times[Passed], z), inv) = Times[Passed]
  BY <1>4, <1>5, <1>6, ApplyZBack
<1> QED BY <1>2, <1>4, <1>7 DEF inv

\* The number of the point that ECDSA compares.
LEMMA NumberCompared ==
  ASSUME EcInv, epc = "loop", i = -1
  PROVE  Passed = ((hash + r * secret) * InvN[s]) % CURVE_N
<1> DEFINE inv == InvN[s]
           e == hash * inv
           f == r * inv
           g == f * secret
<1>1. Ready /\ secret \in 2 .. CURVE_N - 2 /\ hash \in Int /\ CURVE_N \in Nat
  BY CurveNumbers DEF EcInv
<1>2. r \in Int /\ inv \in Int /\ u1 = e % CURVE_N /\ u2 = f % CURVE_N /\ secret \in Int
  BY <1>1, InvNRight DEF Ready
<1>3. u1 \in Nat /\ u2 \in Nat
  BY <1>1, ReadyNumbers
<1>4. Passed = (u1 + u2 * secret) % CURVE_N
  <2>1. i + 1 = 0 /\ Power(2, 0) = 1
    BY PowerSteps
  <2>2. u1 \div 1 = u1 /\ u2 \div 1 = u2
    BY <1>3
  <2> QED BY <2>1, <2>2 DEF Passed
<1> HIDE DEF inv
<1>5. e \in Int /\ f \in Int /\ g \in Int /\ (hash + r * secret) * inv = e + g
  BY <1>1, <1>2
<1>6. u2 * secret \in Int /\ (u2 * secret) % CURVE_N = g % CURVE_N
  <2> HIDE DEF e, f
  <2>1. ((f % CURVE_N) * secret) % CURVE_N = (f * secret) % CURVE_N
    BY <1>2, <1>5, ModN
  <2> QED BY <1>2, <1>3, <2>1 DEF f
<1> DEFINE q == u2 * secret
<1> HIDE DEF e, f, g, q
<1>7. q \in Int /\ q % CURVE_N = g % CURVE_N
  BY <1>6 DEF q
<1>8. (u1 + q) % CURVE_N = (e + q) % CURVE_N
  BY <1>2, <1>5, <1>7, ModN
<1>9. (q + e) % CURVE_N = (g + e) % CURVE_N
  <2>1. ((q % CURVE_N) + e) % CURVE_N = (q + e) % CURVE_N
    BY <1>5, <1>7, ModN
  <2>2. ((g % CURVE_N) + e) % CURVE_N = (g + e) % CURVE_N
    BY <1>5, ModN
  <2> QED BY <1>7, <2>1, <2>2
<1>10. q + e = e + q /\ g + e = e + g
  BY <1>5, <1>7
<1>11. (u1 + q) % CURVE_N = (e + g) % CURVE_N
  BY <1>8, <1>9, <1>10
<1>12. Passed = (e + g) % CURVE_N
  BY <1>4, <1>11 DEF q
<1> QED BY <1>5, <1>12 DEF inv

\* The comparison decides as ECDSA does, or z is 0 and it rejects.
LEMMA CompareRight ==
  ASSUME EcInv, Compare
  PROVE  VerdictRight'
<1> DEFINE x == ApplyZ(point, InvP[z])[1]
           c == IF x >= CURVE_N THEN x - CURVE_N ELSE x
<1>1. /\ Ready /\ InLoop /\ epc = "loop" /\ i = -1 /\ r \in 1 .. CURVE_N - 1 /\ s \in 1 .. CURVE_N - 1
      /\ point \in Coordinates /\ z \in 0 .. CURVE_P - 1
      /\ CURVE_N \in Nat /\ CURVE_N > 3 /\ CURVE_P \in Nat /\ CURVE_P > 4 /\ CURVE_P < 2 * CURVE_N
  <2>1. InLoop /\ Ready /\ epc = "loop" /\ i < 0
    BY DEF EcInv, Compare
  <2> QED BY <2>1, CurveNumbers DEF InLoop, Ready
<1>2. epc' = IF c = r THEN "accept" ELSE "reject"
  BY DEF Compare, Verdict
<1>3. secret' = secret /\ hash' = hash /\ r' = r /\ s' = s /\ z' = z
  BY DEF Compare, ecArgs
<1>4. Valid(secret, hash, r, s)' <=> Valid(secret, hash, r, s)
  BY <1>3 DEF Valid
<1>5. CASE z = 0
  <2>1. InvP[0] = 0
    BY <1>1 DEF InvP, InverseMod
  <2>2. x = 0
    <3>1. x = (point[1] * ((0 * 0) % CURVE_P)) % CURVE_P
      BY <1>5, <2>1 DEF ApplyZ
    <3>2. (0 * 0) % CURVE_P = 0
      BY <1>1
    <3>3. point[1] * 0 = 0
      BY <1>1, PointNumbers
    <3> QED BY <3>1, <3>2, <3>3
  <2> HIDE DEF x
  <2>3. c = 0
    BY <1>1, <2>2
  <2>4. epc' = "reject"
    BY <1>1, <1>2, <2>3
  <2> QED BY <1>3, <1>5, <2>4 DEF VerdictRight
<1>6. CASE z # 0
  <2> DEFINE k == Passed
             T == Times[k]
  <2>1. ApplyZ(point, InvP[z]) = T /\ k \in 1 .. CURVE_N - 1
    BY <1>1, <1>6, LoopPoint
  <2>2. T \in Coordinates /\ T # Infinity
    BY <2>1, TimesGroup
  <2>3. Valid(secret, hash, r, s) <=> T # Infinity /\ T[1] % CURVE_N = r
    <3>1. k = ((hash + r * secret) * InvN[s]) % CURVE_N
      BY <1>1, NumberCompared
    <3> HIDE DEF k
    <3> QED BY <1>1, <3>1 DEF Valid
  <2>4. x = T[1] /\ x \in 0 .. CURVE_P - 1
    BY <2>1, <2>2 DEF Coordinates
  <2> HIDE DEF x, T
  <2>5. c = x % CURVE_N
    <3>1. CASE x >= CURVE_N
      <4>1. x = (x - CURVE_N) + CURVE_N /\ x - CURVE_N \in 0 .. CURVE_N - 1
        BY <1>1, <2>4, <3>1
      <4>2. x % CURVE_N = x - CURVE_N
        BY <1>1, <2>4, <4>1
      <4> QED BY <3>1, <4>2
    <3>2. CASE ~ x >= CURVE_N
      BY <1>1, <2>4, <3>2
    <3> QED BY <3>1, <3>2
  <2> HIDE DEF c
  <2>6. Valid(secret, hash, r, s) <=> c = r
    BY <2>2, <2>3, <2>4, <2>5
  <2> QED BY <1>2, <1>4, <2>6 DEF VerdictRight
<1> QED BY <1>5, <1>6

\* The verification begins with arguments of its types.
LEMMA EcStart == EcInit => EcInv
<1> SUFFICES ASSUME EcInit
             PROVE  EcInv
  OBVIOUS
<1>1. epc = "check" /\ secret \in Secrets
  BY DEF EcInit
<1>2. secret \in 2 .. CURVE_N - 2 /\ Signatures(secret) \subseteq Nat \X Nat \X Nat
  BY <1>1, SecretAssumption
<1>3. PICK signature \in Signatures(secret) :
        hash = signature[1] /\ r = signature[2] /\ s = signature[3]
  BY DEF EcInit
<1>4. signature \in Nat \X Nat \X Nat
  BY <1>2
<1>5. hash \in Nat /\ r \in Nat /\ s \in Nat
  BY <1>3, <1>4
<1> QED BY <1>1, <1>2, <1>5 DEF EcInv, VerdictRight

\* Every step of it keeps the invariant.
LEMMA EcStep == EcInv /\ [EcNext]_ecVars => EcInv'
<1> SUFFICES ASSUME EcInv, [EcNext]_ecVars
             PROVE  EcInv'
  OBVIOUS
<1>1. /\ secret \in 2 .. CURVE_N - 2 /\ hash \in Nat /\ r \in Nat /\ s \in Nat
      /\ (epc \in {"sum", "start", "loop"} => Ready)
      /\ (epc \in {"start", "loop"} => sum = Times[1 + secret])
      /\ (epc = "loop" => InLoop) /\ VerdictRight
  BY DEF EcInv
<1>2. CASE CheckSignature
  <2>1. epc' = "reject" /\ (r = 0 \/ s = 0 \/ r >= CURVE_N \/ s >= CURVE_N)
        /\ secret' = secret /\ hash' = hash /\ r' = r /\ s' = s
    BY <1>2 DEF CheckSignature, Verdict, ecArgs
  <2>2. ~ (r \in 1 .. CURVE_N - 1 /\ s \in 1 .. CURVE_N - 1)
    BY <1>1, <2>1, CurveNumbers
  <2>3. ~ Valid(secret, hash, r, s)'
    BY <2>1, <2>2 DEF Valid
  <2> QED BY <1>1, <2>1, <2>3 DEF EcInv, VerdictRight
<1>3. CASE ComputeU
  <2>1. Ready' /\ epc' = "sum" /\ secret' = secret /\ hash' = hash /\ r' = r /\ s' = s
    BY <1>3 DEF ComputeU, Ready, ecArgs
  <2> QED BY <1>1, <2>1 DEF EcInv, VerdictRight
<1>4. CASE AddG
  <2>1. sum' = Times[1 + secret]
    BY <1>4, AddGRight
  <2>2. epc = "sum" /\ epc' = "start" /\ secret' = secret /\ hash' = hash /\ r' = r /\ s' = s
        /\ u1' = u1 /\ u2' = u2
    BY <1>4 DEF AddG, ecArgs
  <2>3. Ready'
    BY <1>1, <2>2 DEF Ready
  <2> QED BY <1>1, <2>1, <2>2, <2>3 DEF EcInv, VerdictRight
<1>5. CASE StartLoop
  <2>1. InLoop'
    BY <1>5, LoopStarts
  <2>2. epc = "start" /\ epc' = "loop" /\ secret' = secret /\ hash' = hash /\ r' = r /\ s' = s
        /\ u1' = u1 /\ u2' = u2 /\ sum' = sum
    BY <1>5 DEF StartLoop, ecArgs
  <2>3. Ready'
    BY <1>1, <2>2 DEF Ready
  <2> QED BY <1>1, <2>1, <2>2, <2>3 DEF EcInv, VerdictRight
<1>6. CASE DoubleAndAdd
  <2>1. InLoop'
    BY <1>6, LoopGoesOn
  <2>2. epc = "loop" /\ epc' = epc /\ secret' = secret /\ hash' = hash /\ r' = r /\ s' = s
        /\ u1' = u1 /\ u2' = u2 /\ sum' = sum
    BY <1>6 DEF DoubleAndAdd, ecArgs
  <2>3. Ready'
    BY <1>1, <2>2 DEF Ready
  <2> QED BY <1>1, <2>1, <2>2, <2>3 DEF EcInv, VerdictRight
<1>7. CASE Compare
  <2>1. VerdictRight'
    BY <1>7, CompareRight
  <2>2. epc' \in {"accept", "reject"} /\ secret' = secret /\ hash' = hash /\ r' = r /\ s' = s
    BY <1>7 DEF Compare, Verdict, ecArgs
  <2> QED BY <1>1, <2>1, <2>2 DEF EcInv
<1>8. CASE UNCHANGED ecVars
  <2>1. /\ epc' = epc /\ secret' = secret /\ hash' = hash /\ r' = r /\ s' = s
        /\ u1' = u1 /\ u2' = u2 /\ sum' = sum /\ point' = point /\ z' = z /\ i' = i
    BY <1>8 DEF ecVars, ecArgs
  <2>2. Ready' <=> Ready
    BY <2>1 DEF Ready
  <2>3. InLoop' <=> InLoop
    BY <2>1 DEF InLoop, Passed
  <2>4. VerdictRight' <=> VerdictRight
    BY <2>1 DEF VerdictRight, Valid
  <2> QED BY <1>1, <2>1, <2>2, <2>3, <2>4 DEF EcInv
<1> QED BY <1>2, <1>3, <1>4, <1>5, <1>6, <1>7, <1>8 DEF EcNext

(***************************************************************************)
(* In every round of uECC_verify() the point is the multiple of the        *)
(* generator that the bits passed so far stand for, for every curve of a   *)
(* prime order, key and signature, unless z has become 0                   *)
(* (uECC.c:1213-1230).                                                     *)
(***************************************************************************)
THEOREM SumTracked == EcSpec => []TracksTheSum
<1>1. EcInv => TracksTheSum
  BY LoopPoint DEF TracksTheSum
<1> QED BY <1>1, EcStart, EcStep, PTL DEF EcSpec

(***************************************************************************)
(* What uECC_verify() accepts is a valid signature of the hash with the    *)
(* key, and what it rejects is none, or z has become 0 (uECC.c:1097-1242). *)
(***************************************************************************)
THEOREM VerdictProved == EcSpec => []VerdictRight
<1>1. EcInv => VerdictRight
  BY DEF EcInv
<1> QED BY <1>1, EcStart, EcStep, PTL DEF EcSpec

-----------------------------------------------------------------------------
(* The ladder: sums and differences of points that share a Z.              *)

\* The negative of a point.
Opposite(p, q) == p[1] = q[1] /\ Eq(p[2] + q[2], 0)

\* A pair is not empty.
LEMMA PairNotInfinity ==
  ASSUME NEW x, NEW y
  PROVE  <<x, y>> # Infinity
BY DEF Infinity

\* Points that add up to infinity.
LEMMA PlusInfinity ==
  ASSUME NEW p \in Coordinates, NEW q \in Coordinates, Plus(p, q) = Infinity
  PROVE  Opposite(p, q)
<1>1. p # Infinity /\ q # Infinity
  BY NoInfinity
<1>2. p[1] = q[1] /\ (p[2] + q[2]) % CURVE_P = 0
  BY <1>1, PairNotInfinity, Zenon DEF Plus
<1>3. p[2] + q[2] \in Int
  BY PointNumbers
<1> QED BY <1>2, <1>3, EqRemainder DEF Opposite

\* The negative of a multiple of the generator.
LEMMA TimesOpposite ==
  ASSUME NEW k \in 1 .. CURVE_N - 1
  PROVE  CURVE_N - k \in 1 .. CURVE_N - 1 /\ Opposite(Times[k], Times[CURVE_N - k])
<1> DEFINE l == CURVE_N - k
<1>1. CURVE_N \in Nat /\ l \in 1 .. CURVE_N - 1 /\ k + l = CURVE_N
      /\ k \in 0 .. CURVE_N - 1 /\ l \in 0 .. CURVE_N - 1
  BY CurveNumbers
<1> HIDE DEF l
<1>2. Times[k] \in Coordinates /\ Times[l] \in Coordinates
  BY <1>1, TimesGroup
<1>3. (k + l) % CURVE_N = 0
  BY <1>1, SumIsOrder
<1>4. Plus(Times[k], Times[l]) = Infinity
  BY <1>1, <1>3, TimesGroup, TimesStart
<1>5. Opposite(Times[k], Times[l])
  BY <1>2, <1>4, PlusInfinity
<1> QED BY <1>1, <1>5 DEF l

\* XYcZ_addC() is XYcZ_add(), once with q and once with its opposite.
LEMMA AddCIs ==
  ASSUME NEW p \in Coordinates, NEW q \in Coordinates, NEW q2 \in Coordinates,
         Opposite(q, q2)
  PROVE  /\ XYcZ_addC(p, q).sum = XYcZ_add(p, q).sum
         /\ XYcZ_addC(p, q).diff = XYcZ_add(p, q2).sum
<1> DEFINE X1 == p[1]
           Y1 == p[2]
           X2 == q[1]
           Y2 == q[2]
           T2 == q2[2]
           A == ((X2 - X1) * (X2 - X1)) % CURVE_P
           B == (X1 * A) % CURVE_P
           C == (X2 * A) % CURVE_P
           C2 == (X2 * (X2 - X1) * (X2 - X1)) % CURVE_P
           E == (Y1 * (C - B)) % CURVE_P
           dy == (T2 - Y1) % CURVE_P
           sy == (Y2 + Y1) % CURVE_P
           x3 == (dy * dy - B - C) % CURVE_P
           x4 == (sy * sy - B - C2) % CURVE_P
           y3 == (dy * (B - x3) - E) % CURVE_P
           y4 == (sy * (x4 - B) - E) % CURVE_P
<1>1. /\ XYcZ_addC(p, q).sum = XYcZ_add(p, q).sum
      /\ XYcZ_addC(p, q).diff = <<x4, y4>>
  BY DEF XYcZ_addC, XYcZ_add
<1>2. XYcZ_add(p, q2).sum = <<x3, y3>>
  BY DEF XYcZ_add, Opposite
<1>3. X1 \in Int /\ Y1 \in Int /\ X2 \in Int /\ Y2 \in Int /\ T2 \in Int /\ Eq(Y2 + T2, 0)
  BY PointNumbers DEF Opposite
<1> HIDE DEF X1, Y1, X2, Y2, T2
<1>4. A \in Int /\ Eq(A, (X2 - X1) * (X2 - X1))
  <2>1. (X2 - X1) * (X2 - X1) \in Int
    BY <1>3
  <2> QED BY <2>1, EqRemainder
<1> HIDE DEF A
<1>5. C = C2
  <2> DEFINE f == X2 * A
             g == X2 * ((X2 - X1) * (X2 - X1))
  <2>1. f \in Int /\ g \in Int /\ (X2 - X1) * (X2 - X1) \in Int
        /\ X2 * (X2 - X1) * (X2 - X1) = g
    BY <1>3, <1>4
  <2>2. Eq(f, g)
    BY <1>3, <1>4, <2>1, EqTimes
  <2> HIDE DEF f, g
  <2>3. f % CURVE_P = g % CURVE_P
    BY <2>1, <2>2, EqRemainder
  <2> QED BY <2>1, <2>3 DEF f, g
<1>6. B \in Int /\ C \in Int /\ E \in Int
  BY <1>3, <1>4, CurveNumbers
<1> HIDE DEF B, C, C2, E
<1>7. dy \in Int /\ sy \in Int /\ Eq(dy, T2 - Y1) /\ Eq(sy, Y2 + Y1)
  <2>1. T2 - Y1 \in Int /\ Y2 + Y1 \in Int
    BY <1>3
  <2> QED BY <2>1, EqRemainder
<1> HIDE DEF dy, sy
<1>8. Eq(sy, - dy)
  <2>1. Y2 + Y1 \in Int /\ T2 - Y1 \in Int /\ - dy \in Int /\ Y2 + T2 \in Int /\ 0 - dy = - dy
        /\ (Y2 + T2) - (T2 - Y1) = Y2 + Y1 /\ 0 \in Int
    BY <1>3, <1>7
  <2>2. Eq(T2 - Y1, dy)
    BY <1>7, <2>1, EqRules
  <2>3. Eq(Y2 + Y1, - dy)
    BY <1>3, <1>7, <2>1, <2>2, EqMinus
  <2> QED BY <1>7, <2>1, <2>3, EqVia
<1>9. x3 = x4
  <2> DEFINE f == dy * dy
             g == sy * sy
  <2>1. f \in Int /\ g \in Int /\ - dy \in Int /\ (- dy) * (- dy) = f
    BY <1>7
  <2>2. Eq(g, f)
    BY <1>7, <1>8, <2>1, EqOperations
  <2> HIDE DEF f, g
  <2>3. B + C \in Int /\ f - (B + C) = f - B - C /\ g - (B + C) = g - B - C
        /\ f - B - C \in Int /\ g - B - C \in Int /\ Eq(B + C, B + C)
    BY <1>6, <2>1, EqRules
  <2>4. Eq(g - (B + C), f - (B + C))
    BY <2>1, <2>2, <2>3, EqMinus
  <2>5. Eq(g - B - C, f - B - C)
    BY <2>3, <2>4
  <2>6. (g - B - C) % CURVE_P = (f - B - C) % CURVE_P
    BY <2>3, <2>5, EqRemainder
  <2> QED BY <1>5, <2>6 DEF f, g
<1>10. x3 \in Int
  BY <1>6, <1>7, CurveNumbers
<1>11. y3 = y4
  <2> HIDE DEF x3
  <2> DEFINE f == dy * (B - x3)
             g == sy * (x3 - B)
  <2>1. f \in Int /\ g \in Int /\ - dy \in Int /\ x3 - B \in Int /\ (- dy) * (x3 - B) = f
    BY <1>6, <1>7, <1>10
  <2>2. Eq(g, f)
    BY <1>7, <1>8, <2>1, EqTimes
  <2> HIDE DEF f, g
  <2>3. Eq(g - E, f - E) /\ g - E \in Int /\ f - E \in Int
    BY <1>6, <2>1, <2>2, EqMinus, EqRules
  <2>4. (g - E) % CURVE_P = (f - E) % CURVE_P
    BY <2>3, EqRemainder
  <2>5. y4 = (sy * (x3 - B) - E) % CURVE_P
    BY <1>9
  <2> QED BY <2>4, <2>5 DEF f, g
<1> QED BY <1>1, <1>2, <1>9, <1>11

\* Opposite points stay opposite when they are scaled.
LEMMA ScaledOpposite ==
  ASSUME NEW p \in Coordinates, NEW q \in Coordinates, Opposite(p, q), NEW zz \in Int
  PROVE  Opposite(ApplyZ(p, zz), ApplyZ(q, zz))
<1> DEFINE s1 == ApplyZ(p, zz)
           s2 == ApplyZ(q, zz)
           c == zz * (zz * zz)
           y == p[2]
           t == q[2]
           f == y * c
           g == t * c
           Y == s1[2]
           T == s2[2]
<1>1. p[1] = q[1] /\ Eq(y + t, 0)
  BY DEF Opposite
<1>2. s1 \in Coordinates /\ s2 \in Coordinates /\ s1[1] = s2[1]
  <2>1. s1[1] = s2[1]
    BY <1>1 DEF ApplyZ
  <2> QED BY <2>1, ApplyZIs
<1>3. /\ c \in Int /\ y \in Int /\ t \in Int /\ f \in Int /\ g \in Int /\ 0 * c = 0
      /\ Y \in Int /\ T \in Int /\ y + t \in Int /\ (y + t) * c = f + g /\ 0 \in Int
  <2>1. y \in Int /\ t \in Int /\ c \in Int /\ Y \in Int /\ T \in Int
    BY <1>2, PointNumbers
  <2> HIDE DEF c, y, t, Y, T
  <2> QED BY <2>1
<1>4. Eq(Y, f) /\ Eq(T, g)
  BY ApplyZIs
<1> HIDE DEF c, y, t, Y, T
<1>5. Eq((y + t) * c, 0 * c)
  BY <1>1, <1>3, EqTimes
<1> HIDE DEF f, g
<1>6. Eq(f + g, 0) /\ f + g \in Int /\ Y + T \in Int
  BY <1>3, <1>5
<1>7. Eq(Y + T, f + g)
  BY <1>3, <1>4, EqOperations
<1>8. Eq(Y + T, 0)
  BY <1>3, <1>6, <1>7, EqVia
<1> QED BY <1>2, <1>8 DEF Opposite, Y, T

\* Sum and difference of two points that share a Z and have a different x.
LEMMA AddCStands ==
  ASSUME NEW P1, NEW P2, NEW N2 \in Coordinates, NEW zz, NEW p, NEW q, NEW w,
         SharedZ(P1, P2, zz, p, q, w), Opposite(P2, N2)
  PROVE  /\ w \in Int /\ (~ Eq(zz, 0) => ~ Eq(w, 0))
         /\ Plus(P1, P2) \in Coordinates /\ Plus(P1, N2) \in Coordinates
         /\ XYcZ_addC(p, q).sum = ApplyZ(Plus(P1, P2), w)
         /\ XYcZ_addC(p, q).diff = ApplyZ(Plus(P1, N2), w)
<1> DEFINE q2 == ApplyZ(N2, zz)
<1>1. /\ P1 \in Coordinates /\ P2 \in Coordinates /\ P1[1] # P2[1] /\ zz \in Int
      /\ p = ApplyZ(P1, zz) /\ q = ApplyZ(P2, zz) /\ w = zz * (q[1] - p[1])
  BY Zenon DEF SharedZ
<1>2. N2[1] = P2[1] /\ Eq(P2[2] + N2[2], 0)
  BY Zenon DEF Opposite
<1>3. p \in Coordinates /\ q \in Coordinates /\ q2 \in Coordinates
  BY <1>1, ApplyZIs
<1>4. q2[1] = q[1]
  BY <1>1, <1>2 DEF ApplyZ
<1>5. Opposite(q, q2)
  BY <1>1, ScaledOpposite
<1> HIDE DEF q2
<1>6. SharedZ(P1, N2, zz, p, q2, w)
  <2>1. P1[1] # N2[1] /\ w = zz * (q2[1] - p[1])
    BY <1>1, <1>2, <1>4
  <2>2. q2 = ApplyZ(N2, zz)
    BY DEF q2
  <2> QED BY <1>1, <2>1, <2>2, Zenon DEF SharedZ
<1>7. /\ w \in Int /\ (~ Eq(zz, 0) => ~ Eq(w, 0)) /\ Plus(P1, P2) \in Coordinates
      /\ XYcZ_add(p, q).sum = ApplyZ(Plus(P1, P2), w)
  BY AddStands
<1>8. Plus(P1, N2) \in Coordinates /\ XYcZ_add(p, q2).sum = ApplyZ(Plus(P1, N2), w)
  <2>1. /\ w \in Int /\ (~ Eq(zz, 0) => ~ Eq(w, 0)) /\ Plus(P1, N2) \in Coordinates
        /\ XYcZ_add(p, q2).sum = ApplyZ(Plus(P1, N2), w)
    BY <1>6, AddStands, SMTT(40)
  <2> QED BY <2>1
<1>9. XYcZ_addC(p, q).sum = XYcZ_add(p, q).sum /\ XYcZ_addC(p, q).diff = XYcZ_add(p, q2).sum
  BY <1>3, <1>5, AddCIs, Zenon
<1> QED BY <1>7, <1>8, <1>9

-----------------------------------------------------------------------------
(* What the ladder makes of points with the same x.                        *)

\* Remainders of zero.
LEMMA ZeroRemainder ==
  ASSUME NEW x \in Int, Eq(x, 0)
  PROVE  x % CURVE_P = 0
<1>1. 0 % CURVE_P = 0 /\ 0 \in 0 .. CURVE_P - 1 /\ 0 \in Int
  BY CurveNumbers
<1> QED BY <1>1, EqRemainder

\* Points of the curve y^2 = x^3, which has no multiple of the generator.
Cusp(p) == p \in Coordinates /\ Eq(p[2] * p[2], p[1] * (p[1] * p[1]))

\* The point <<0, 0>>.
LEMMA ZeroPoint ==
  /\ <<0, 0>> \in Coordinates /\ Cusp(<<0, 0>>) /\ Opposite(<<0, 0>>, <<0, 0>>)
  /\ 0 % CURVE_P = 0
<1>1. CURVE_P \in Nat /\ CURVE_P > 4 /\ 0 \in 0 .. CURVE_P - 1 /\ 0 % CURVE_P = 0
  BY CurveNumbers
<1>2. <<0, 0>> \in Coordinates /\ <<0, 0>>[1] = 0 /\ <<0, 0>>[2] = 0
  BY <1>1 DEF Coordinates
<1>3. Eq(0, 0) /\ 0 + 0 = 0 /\ 0 * 0 = 0
  BY EqRules
<1> QED BY <1>1, <1>2, <1>3 DEF Cusp, Opposite

\* Numbers that are reduced to 0.
LEMMA ZeroPair ==
  ASSUME NEW x \in Int, NEW y \in Int, Eq(x, 0), Eq(y, 0)
  PROVE  <<x % CURVE_P, y % CURVE_P>> = <<0, 0>>
BY ZeroRemainder

\* XYcZ_add() of a point of the cusp and <<0, 0>>, in this order.
LEMMA CuspFirst ==
  ASSUME NEW p, Cusp(p), NEW q, q = <<0, 0>>
  PROVE  XYcZ_add(p, q).sum = <<0, 0>> /\ Cusp(XYcZ_add(p, q).same)
<1> DEFINE x1 == p[1]
           y1 == p[2]
           A == ((0 - x1) * (0 - x1)) % CURVE_P
           B == (x1 * A) % CURVE_P
           C == (0 * A) % CURVE_P
           dy == (0 - y1) % CURVE_P
           E == (y1 * (C - B)) % CURVE_P
           x3 == (dy * dy - B - C) % CURVE_P
           y3 == (dy * (B - x3) - E) % CURVE_P
           a3 == x1 * (x1 * x1)
<1>1. XYcZ_add(p, q).sum = <<x3, y3>> /\ XYcZ_add(p, q).same = <<B, E>>
  BY DEF XYcZ_add
<1>2. p \in Coordinates /\ x1 \in Int /\ y1 \in Int /\ Eq(y1 * y1, a3)
  BY PointNumbers DEF Cusp
<1> HIDE DEF x1, y1
<1>3. A \in Int /\ Eq(A, x1 * x1) /\ x1 * x1 \in Int /\ a3 \in Int /\ y1 * y1 \in Int
  <2>1. (0 - x1) * (0 - x1) = x1 * x1 /\ x1 * x1 \in Int /\ a3 \in Int /\ y1 * y1 \in Int
    BY <1>2
  <2> QED BY <2>1, EqRemainder
<1> HIDE DEF A
<1>4. C = 0
  <2>1. 0 * A = 0
    BY <1>3
  <2> QED BY <2>1, ZeroPoint
<1>5. B \in Int /\ Eq(B, a3)
  <2>1. x1 * A \in Int
    BY <1>2, <1>3
  <2>2. Eq(x1 * A, a3)
    BY <1>2, <1>3, EqTimes
  <2>3. Eq(B, x1 * A) /\ B \in Int
    BY <2>1, EqRemainder
  <2> QED BY <1>3, <2>1, <2>2, <2>3, EqVia
<1>6. dy \in Int /\ Eq(dy, - y1)
  <2>1. 0 - y1 \in Int /\ 0 - y1 = - y1
    BY <1>2
  <2> QED BY <2>1, EqRemainder
<1>7. E \in Int /\ Eq(E, - (y1 * B))
  <2>1. y1 * (C - B) = - (y1 * B) /\ - (y1 * B) \in Int
    BY <1>2, <1>4, <1>5
  <2> QED BY <2>1, EqRemainder
<1> HIDE DEF B, C, dy, E, a3
<1>8. x3 = 0 /\ Eq(dy * dy, a3)
  <2> DEFINE f == dy * dy
             g == y1 * y1
  <2>1. f \in Int /\ g \in Int /\ - y1 \in Int /\ (- y1) * (- y1) = g /\ f - B - C = f - B
        /\ f - B \in Int
    BY <1>2, <1>4, <1>5, <1>6
  <2>2. Eq(f, g)
    BY <1>6, <2>1, EqOperations
  <2>3. Eq(g, a3)
    BY <1>2
  <2> HIDE DEF f, g
  <2>4. Eq(f, a3)
    BY <1>3, <2>1, <2>2, <2>3, EqVia
  <2>5. Eq(f - B, a3 - a3) /\ a3 - a3 = 0
    BY <1>3, <1>5, <2>1, <2>4, EqMinus
  <2>6. (f - B - C) % CURVE_P = 0
    BY <2>1, <2>5, ZeroRemainder
  <2> QED BY <2>4, <2>6 DEF f
<1> HIDE DEF x3
<1>9. y3 = 0
  <2> DEFINE f == dy * B
             g == (- y1) * B
  <2>1. f \in Int /\ g \in Int /\ - y1 \in Int /\ - (y1 * B) = g /\ dy * (B - x3) = f
    BY <1>2, <1>5, <1>6, <1>8
  <2>2. Eq(f, g)
    BY <1>5, <1>6, <2>1, EqTimes
  <2>3. Eq(E, g)
    BY <1>7, <2>1
  <2> HIDE DEF f, g
  <2>4. Eq(f - E, g - g) /\ g - g = 0 /\ f - E \in Int
    BY <1>7, <2>1, <2>2, <2>3, EqMinus
  <2>5. (f - E) % CURVE_P = 0
    BY <2>4, ZeroRemainder
  <2> QED BY <2>1, <2>5
<1>10. <<B, E>> \in Coordinates
  <2>1. y1 * (C - B) \in Int /\ x1 * A \in Int
    BY <1>2, <1>3, <1>4, <1>5
  <2> QED BY <2>1, PointNumbers DEF B, E
<1>11. Eq(E * E, B * (B * B))
  <2> DEFINE f == y1 * y1
             g == B * B
             h == y1 * B
             e == E * E
  <2>1. /\ f \in Int /\ g \in Int /\ h \in Int /\ - h \in Int /\ e \in Int /\ a3 * g \in Int
        /\ f * g \in Int /\ B * g \in Int /\ (- h) * (- h) = f * g
    BY <1>2, <1>3, <1>5, <1>7
  <2>2. Eq(E, - h)
    BY <1>7
  <2>3. Eq(e, (- h) * (- h))
    BY <1>7, <2>1, <2>2, EqOperations
  <2>4. Eq(f, a3) /\ Eq(a3, B)
    BY <1>2, <1>3, <1>5, EqRules
  <2> HIDE DEF f, g, h, e
  <2>5. Eq(f, B)
    BY <1>3, <1>5, <2>1, <2>4, EqVia
  <2>6. Eq(f * g, B * g)
    BY <1>5, <2>1, <2>5, EqTimes
  <2>7. Eq(e, B * g)
    BY <2>1, <2>3, <2>6, EqVia
  <2> QED BY <2>7 DEF e, g
<1> QED BY <1>1, <1>8, <1>9, <1>10, <1>11 DEF Cusp

\* The other order.
LEMMA CuspSecond ==
  ASSUME NEW p, p = <<0, 0>>, NEW q, Cusp(q)
  PROVE  XYcZ_add(p, q).sum = <<0, 0>>
<1> DEFINE x1 == q[1]
           y1 == q[2]
           A == ((x1 - 0) * (x1 - 0)) % CURVE_P
           B == (0 * A) % CURVE_P
           C == (x1 * A) % CURVE_P
           dy == (y1 - 0) % CURVE_P
           E == (0 * (C - B)) % CURVE_P
           x3 == (dy * dy - B - C) % CURVE_P
           y3 == (dy * (B - x3) - E) % CURVE_P
           a3 == x1 * (x1 * x1)
<1>1. XYcZ_add(p, q).sum = <<x3, y3>>
  BY DEF XYcZ_add
<1>2. q \in Coordinates /\ x1 \in Int /\ y1 \in Int /\ Eq(y1 * y1, a3)
  BY PointNumbers DEF Cusp
<1> HIDE DEF x1, y1
<1>3. A \in Int /\ Eq(A, x1 * x1) /\ x1 * x1 \in Int /\ a3 \in Int /\ y1 * y1 \in Int
  <2>1. (x1 - 0) * (x1 - 0) = x1 * x1 /\ x1 * x1 \in Int /\ a3 \in Int /\ y1 * y1 \in Int
    BY <1>2
  <2> QED BY <2>1, EqRemainder
<1> HIDE DEF A
<1>4. B = 0
  <2>1. 0 * A = 0
    BY <1>3
  <2> QED BY <2>1, ZeroPoint
<1>5. C \in Int /\ Eq(C, a3)
  <2>1. x1 * A \in Int
    BY <1>2, <1>3
  <2>2. Eq(x1 * A, a3)
    BY <1>2, <1>3, EqTimes
  <2>3. Eq(C, x1 * A) /\ C \in Int
    BY <2>1, EqRemainder
  <2> QED BY <1>3, <2>1, <2>2, <2>3, EqVia
<1> HIDE DEF B, C
<1>6. E = 0
  <2>1. 0 * (C - B) = 0
    BY <1>4, <1>5
  <2> QED BY <2>1, ZeroPoint
<1>7. dy \in Int /\ Eq(dy, y1)
  <2>1. y1 - 0 \in Int /\ y1 - 0 = y1
    BY <1>2
  <2> QED BY <2>1, EqRemainder
<1> HIDE DEF dy, E, a3
<1>8. x3 = 0
  <2> DEFINE f == dy * dy
             g == y1 * y1
  <2>1. f \in Int /\ g \in Int /\ f - B - C = f - C /\ f - C \in Int
    BY <1>2, <1>4, <1>5, <1>7
  <2>2. Eq(f, g)
    BY <1>2, <1>7, <2>1, EqOperations
  <2>3. Eq(g, a3)
    BY <1>2
  <2> HIDE DEF f, g
  <2>4. Eq(f, a3)
    BY <1>3, <2>1, <2>2, <2>3, EqVia
  <2>5. Eq(f - C, a3 - a3) /\ a3 - a3 = 0
    BY <1>3, <1>5, <2>1, <2>4, EqMinus
  <2>6. (f - B - C) % CURVE_P = 0
    BY <2>1, <2>5, ZeroRemainder
  <2> QED BY <2>6 DEF f
<1> HIDE DEF x3
<1>9. y3 = 0
  <2>1. dy * (B - x3) - E = 0
    BY <1>4, <1>6, <1>7, <1>8
  <2> QED BY <2>1, ZeroPoint
<1> QED BY <1>1, <1>8, <1>9

\* XYcZ_addC() of such points, in either order.
LEMMA CuspBoth ==
  ASSUME NEW p, NEW q,
         (Cusp(p) /\ q = <<0, 0>>) \/ (p = <<0, 0>> /\ Cusp(q))
  PROVE  XYcZ_addC(p, q).sum = <<0, 0>> /\ XYcZ_addC(p, q).diff = <<0, 0>>
<1>1. ASSUME Cusp(p), q = <<0, 0>>
      PROVE  XYcZ_addC(p, q).sum = <<0, 0>> /\ XYcZ_addC(p, q).diff = <<0, 0>>
  <2>1. p \in Coordinates /\ q \in Coordinates /\ Opposite(q, q)
    BY <1>1, ZeroPoint DEF Cusp
  <2>2. XYcZ_add(p, q).sum = <<0, 0>>
    BY <1>1, CuspFirst
  <2> QED BY <2>1, <2>2, AddCIs
<1>2. ASSUME p = <<0, 0>>, Cusp(q)
      PROVE  XYcZ_addC(p, q).sum = <<0, 0>> /\ XYcZ_addC(p, q).diff = <<0, 0>>
  <2> DEFINE y1 == q[2]
             t == (- y1) % CURVE_P
             q2 == <<q[1], t>>
  <2>1. p \in Coordinates /\ q \in Coordinates /\ Eq(y1 * y1, q[1] * (q[1] * q[1]))
    BY <1>2, ZeroPoint DEF Cusp
  <2>2. q[1] \in Int /\ y1 \in Int /\ - y1 \in Int /\ q[1] \in 0 .. CURVE_P - 1
        /\ q[1] * (q[1] * q[1]) \in Int
    <3>1. q[1] \in 0 .. CURVE_P - 1 /\ q[1] \in Int /\ y1 \in Int
      BY <2>1, PointNumbers DEF Coordinates
    <3> HIDE DEF y1
    <3> QED BY <3>1
  <2>3. t \in Int /\ t \in 0 .. CURVE_P - 1 /\ Eq(t, - y1)
    BY <2>2, EqRemainder
  <2>4. q2 \in Coordinates /\ q2[1] = q[1] /\ q2[2] = t
    BY <2>2, <2>3 DEF Coordinates
  <2> HIDE DEF q2
  <2>5. Opposite(q, q2)
    <3> HIDE DEF y1, t
    <3>1. Eq(y1, y1) /\ y1 + (- y1) = 0
      BY <2>2, EqRules
    <3>2. Eq(y1 + t, y1 + (- y1))
      BY <2>2, <2>3, <3>1, EqOperations
    <3>3. Eq(q[2] + q2[2], 0)
      BY <2>4, <3>1, <3>2 DEF y1
    <3> QED BY <2>4, <3>3 DEF Opposite
  <2>6. Cusp(q2)
    <3> DEFINE f == t * t
               g == y1 * y1
    <3>1. f \in Int /\ g \in Int /\ (- y1) * (- y1) = g
      BY <2>2, <2>3
    <3>2. Eq(f, g)
      BY <2>2, <2>3, <3>1, EqOperations
    <3> HIDE DEF f, g
    <3>3. Eq(f, q[1] * (q[1] * q[1]))
      BY <2>1, <2>2, <3>1, <3>2, EqVia DEF g
    <3> QED BY <2>4, <3>3 DEF Cusp, f
  <2>7. XYcZ_add(p, q).sum = <<0, 0>> /\ XYcZ_add(p, q2).sum = <<0, 0>>
    BY <1>2, <2>6, CuspSecond
  <2> QED BY <2>1, <2>4, <2>5, <2>7, AddCIs
<1> QED BY <1>1, <1>2

\* XYcZ_addC() of opposite points.
LEMMA AddCOpposite ==
  ASSUME NEW p \in Coordinates, NEW q \in Coordinates, Opposite(p, q)
  PROVE  XYcZ_addC(p, q).diff = <<0, 0>> /\ Cusp(XYcZ_addC(p, q).sum)
<1> DEFINE x1 == p[1]
           y1 == p[2]
           t == q[2]
           A == ((x1 - x1) * (x1 - x1)) % CURVE_P
           B == (x1 * A) % CURVE_P
           C2 == (x1 * (x1 - x1) * (x1 - x1)) % CURVE_P
           dy == (t - y1) % CURVE_P
           sy == (t + y1) % CURVE_P
           E == (y1 * (B - B)) % CURVE_P
           x3 == (dy * dy - B - B) % CURVE_P
           y3 == (dy * (B - x3) - E) % CURVE_P
           x4 == (sy * sy - B - C2) % CURVE_P
           y4 == (sy * (x4 - B) - E) % CURVE_P
<1>1. /\ XYcZ_addC(p, q).sum = <<x3, y3>>
      /\ XYcZ_addC(p, q).diff = <<x4, y4>>
  BY DEF XYcZ_addC, XYcZ_add, Opposite
<1>2. x1 \in Int /\ y1 \in Int /\ t \in Int /\ Eq(y1 + t, 0)
  BY PointNumbers DEF Opposite
<1> HIDE DEF x1, y1, t
<1>3. A = 0 /\ C2 = 0
  <2>1. (x1 - x1) * (x1 - x1) = 0 /\ x1 * (x1 - x1) * (x1 - x1) = 0
    BY <1>2
  <2> QED BY <2>1, ZeroPoint
<1> HIDE DEF A
<1>4. B = 0
  <2>1. x1 * A = 0
    BY <1>2, <1>3
  <2> QED BY <2>1, ZeroPoint
<1> HIDE DEF B, C2
<1>5. E = 0
  <2>1. y1 * (B - B) = 0
    BY <1>2, <1>4
  <2> QED BY <2>1, ZeroPoint
<1>6. dy \in Int /\ sy = 0
  <2>1. t + y1 = y1 + t /\ y1 + t \in Int /\ t - y1 \in Int
    BY <1>2
  <2> QED BY <1>2, <2>1, ZeroRemainder, EqRemainder
<1> HIDE DEF E, dy, sy
<1>7. x4 = 0
  <2>1. sy * sy - B - C2 = 0
    BY <1>3, <1>4, <1>6
  <2> QED BY <2>1, ZeroPoint
<1> HIDE DEF x4
<1>8. y4 = 0
  <2>1. sy * (x4 - B) - E = 0
    BY <1>4, <1>5, <1>6, <1>7
  <2> QED BY <2>1, ZeroPoint
<1>9. x3 \in Int /\ Eq(x3, dy * dy) /\ dy * dy \in Int
  <2>1. dy * dy - B - B = dy * dy /\ dy * dy \in Int
    BY <1>4, <1>6
  <2> QED BY <2>1, EqRemainder
<1> HIDE DEF x3
<1>10. y3 \in Int /\ Eq(y3, - (dy * x3)) /\ - (dy * x3) \in Int
  <2>1. dy * (B - x3) - E = - (dy * x3) /\ - (dy * x3) \in Int
    BY <1>4, <1>5, <1>6, <1>9
  <2> QED BY <2>1, EqRemainder
<1>11. <<x3, y3>> \in Coordinates
  <2>1. dy * dy - B - B \in Int /\ dy * (B - x3) - E \in Int
    BY <1>4, <1>5, <1>6, <1>9
  <2> QED BY <2>1, PointNumbers DEF x3
<1> HIDE DEF y3
<1>12. Eq(y3 * y3, x3 * (x3 * x3))
  <2> DEFINE f == dy * dy
             g == x3 * x3
             h == - (dy * x3)
             e == y3 * y3
  <2>1. f \in Int /\ g \in Int /\ h \in Int /\ e \in Int /\ h * h = f * g /\ f * g \in Int
        /\ x3 * g \in Int
    BY <1>6, <1>9, <1>10
  <2>2. Eq(e, h * h)
    BY <1>10, <2>1, EqOperations
  <2>3. Eq(f, x3)
    BY <1>9, EqRules
  <2> HIDE DEF f, g, h, e
  <2>4. Eq(f * g, x3 * g)
    BY <1>9, <2>1, <2>3, EqTimes
  <2>5. Eq(e, x3 * g)
    BY <2>1, <2>2, <2>4, EqVia
  <2> QED BY <2>5 DEF e, g
<1> QED BY <1>1, <1>7, <1>8, <1>11, <1>12 DEF Cusp

\* One of the points of the ladder is <<0, 0>>, the other on the cusp.
PointsLost(points) ==
  \E j \in 1 .. 2 : points[j] = <<0, 0>> /\ Cusp(points[3 - j])

\* The points after a round.
LEMMA RungIs ==
  ASSUME NEW to \in 1 .. 2, NEW diff, NEW sum1
  PROVE  /\ Rung(to, diff, sum1)[to] = XYcZ_add(sum1, diff).sum
         /\ Rung(to, diff, sum1)[3 - to] = XYcZ_add(sum1, diff).same
         /\ 3 - to \in 1 .. 2 /\ 3 - to # to /\ 3 - (3 - to) = to
         /\ Rung(to, diff, sum1) \in [1 .. 2 -> {XYcZ_add(sum1, diff).sum, XYcZ_add(sum1, diff).same}]
BY DEF Rung

\* After a round with opposite points.
LEMMA OppositeRung ==
  ASSUME NEW to \in 1 .. 2, NEW p \in Coordinates, NEW q \in Coordinates, Opposite(p, q)
  PROVE  PointsLost(Rung(to, XYcZ_addC(p, q).diff, XYcZ_addC(p, q).sum))
<1> DEFINE diff == XYcZ_addC(p, q).diff
           sum1 == XYcZ_addC(p, q).sum
           both == XYcZ_add(sum1, diff)
           rung == Rung(to, diff, sum1)
<1>1. diff = <<0, 0>> /\ Cusp(sum1)
  BY AddCOpposite
<1> HIDE DEF diff, sum1
<1>2. both.sum = <<0, 0>> /\ Cusp(both.same)
  BY <1>1, CuspFirst
<1>3. rung[to] = both.sum /\ rung[3 - to] = both.same /\ 3 - to \in 1 .. 2
  BY RungIs
<1> HIDE DEF both, rung
<1>4. rung[to] = <<0, 0>> /\ Cusp(rung[3 - to])
  BY <1>2, <1>3
<1>5. PointsLost(rung)
  BY <1>4 DEF PointsLost
<1> QED BY <1>5 DEF rung, diff, sum1

\* Then the last bit makes <<0, 0>> of both points.
LEMMA LostLast ==
  ASSUME NEW points, PointsLost(points), NEW to \in 1 .. 2
  PROVE  LET added == XYcZ_addC(points[to], points[3 - to]) IN
           added.sum = <<0, 0>> /\ added.diff = <<0, 0>>
<1>1. PICK j \in 1 .. 2 : points[j] = <<0, 0>> /\ Cusp(points[3 - j])
  BY DEF PointsLost
<1>2. \/ to = j
      \/ to = 3 - j /\ 3 - to = j
  OBVIOUS
<1> DEFINE p == points[to]
           q == points[3 - to]
<1>3. (Cusp(p) /\ q = <<0, 0>>) \/ (p = <<0, 0>> /\ Cusp(q))
  BY <1>1, <1>2
<1> HIDE DEF p, q
<1>4. XYcZ_addC(p, q).sum = <<0, 0>> /\ XYcZ_addC(p, q).diff = <<0, 0>>
  BY <1>3, CuspBoth
<1> QED BY <1>4 DEF p, q

\* XYcZ_add() of <<0, 0>> to itself.
LEMMA ZeroAdd ==
  /\ XYcZ_add(<<0, 0>>, <<0, 0>>).sum = <<0, 0>>
  /\ XYcZ_add(<<0, 0>>, <<0, 0>>).same = <<0, 0>>
  /\ ApplyZ(<<0, 0>>, 0) = <<0, 0>>
<1>0. 0 * 0 = 0 /\ 0 - 0 = 0 /\ 0 % CURVE_P = 0
  BY ZeroPoint
<1>1. XYcZ_add(<<0, 0>>, <<0, 0>>).sum = <<0, 0>>
  BY ZeroPoint, CuspFirst
<1>2. XYcZ_add(<<0, 0>>, <<0, 0>>).same = <<0, 0>>
  BY <1>0 DEF XYcZ_add
<1>3. ApplyZ(<<0, 0>>, 0) = <<0, 0>>
  BY <1>0 DEF ApplyZ
<1> QED BY <1>1, <1>2, <1>3

-----------------------------------------------------------------------------
(* The bits of the regularized key.                                        *)

\* The value of the highest bit of the order.
HALF == Power(2, num_n_bits - 1)

\* The order and its bits.
LEMMA OrderBits ==
  /\ num_n_bits \in Nat /\ num_n_bits > 0 /\ num_n_bits - 1 \in Nat
  /\ HALF \in Nat /\ FULL \in Nat /\ FULL = 2 * HALF
  /\ CURVE_N \in Nat /\ CURVE_N > 3 /\ CURVE_N % 2 # 0
  /\ HALF <= CURVE_N /\ CURVE_N + 1 < FULL
<1>1. CURVE_N \in Nat /\ CURVE_N > 3 /\ CURVE_N % 2 # 0
  BY CurveNumbers
<1>2. /\ num_n_bits \in Nat /\ num_n_bits > 0 /\ HALF <= CURVE_N
  BY <1>1, NumBitsRight DEF num_n_bits, HALF
<1>3. num_n_bits - 1 \in Nat /\ (num_n_bits - 1) + 1 = num_n_bits
  BY <1>2
<1>4. HALF \in Nat /\ FULL = 2 * HALF
  BY <1>3, PowerSteps DEF HALF, FULL
<1>5. CURVE_N + 1 < FULL
  BY MultAssumption
<1> QED BY <1>1, <1>2, <1>3, <1>4, <1>5

\* What the ladder has passed of a regularized key k before bit b: the implied
\* bit and those above b.
Prefix(k, j) == Power(2, (num_n_bits - 1) - j) + (k \div Power(2, j + 1))

\* It begins with the implied bit.
LEMMA PrefixStart ==
  ASSUME NEW k \in Nat, k < FULL
  PROVE  Prefix(k, num_n_bits - 1) = 1
<1>1. (num_n_bits - 1) - (num_n_bits - 1) = 0 /\ (num_n_bits - 1) + 1 = num_n_bits
  BY OrderBits
<1>2. Power(2, 0) = 1
  BY PowerSteps
<1>3. k \div FULL = 0
  BY OrderBits
<1> QED BY <1>1, <1>2, <1>3 DEF Prefix, FULL

\* Every round appends a bit.
LEMMA PrefixNext ==
  ASSUME NEW k \in Nat, NEW j \in Nat, j <= num_n_bits - 1
  PROVE  /\ Prefix(k, j) \in Nat /\ BitOf(k, j) \in 0 .. 1
         /\ j > 0 => Prefix(k, j - 1) = 2 * Prefix(k, j) + BitOf(k, j)
         /\ j = 0 => FULL + k = 2 * Prefix(k, j) + BitOf(k, j)
<1> DEFINE e == (num_n_bits - 1) - j
           f == Power(2, e)
           lower == k \div Power(2, j)
           upper == k \div Power(2, j + 1)
           one == BitOf(k, j)
<1>1. num_n_bits - 1 \in Nat /\ e \in Nat /\ FULL = 2 * HALF
  BY OrderBits
<1>2. lower \in Nat /\ upper \in Nat /\ one \in 0 .. 1 /\ lower = 2 * upper + one
  BY NextBit
<1>3. f \in Nat /\ Power(2, e + 1) = 2 * f
  BY <1>1, PowerSteps
<1>4. Prefix(k, j) = f + upper
  BY DEF Prefix
<1>5. j > 0 => Prefix(k, j - 1) = 2 * f + lower
  <2> SUFFICES ASSUME j > 0
               PROVE  Prefix(k, j - 1) = 2 * f + lower
    OBVIOUS
  <2>1. (num_n_bits - 1) - (j - 1) = e + 1 /\ (j - 1) + 1 = j
    BY <1>1
  <2>2. Prefix(k, j - 1) = Power(2, e + 1) + lower
    BY <2>1 DEF Prefix
  <2> QED BY <1>3, <2>2
<1>6. j = 0 => f = HALF /\ lower = k
  <2> SUFFICES ASSUME j = 0
               PROVE  f = HALF /\ lower = k
    OBVIOUS
  <2>1. e = num_n_bits - 1 /\ Power(2, 0) = 1 /\ k \div 1 = k
    BY <1>1, PowerSteps
  <2> QED BY <2>1 DEF HALF
<1> HIDE DEF e, f, lower, upper, one
<1>7. 2 * (f + upper) + one = 2 * f + lower /\ f + upper \in Nat
  BY <1>2, <1>3
<1>8. BitOf(k, j) = one
  BY DEF one
<1>9. j = 0 => FULL + k = 2 * f + lower
  BY <1>1, <1>6, OrderBits
<1> QED BY <1>2, <1>4, <1>5, <1>7, <1>8, <1>9

\* It stays below the order until the last bit, and twice it until the one before.
LEMMA PrefixBelow ==
  ASSUME NEW k \in Nat, k < FULL, NEW j \in Nat, j > 0, j <= num_n_bits - 1
  PROVE  /\ Prefix(k, j) > 0 /\ Prefix(k, j) < CURVE_N
         /\ j > 1 => 2 * Prefix(k, j) + 1 < CURVE_N
<1> DEFINE e == (num_n_bits - 1) - j
           f == Power(2, e)
           g == Power(2, j + 1)
           upper == k \div g
<1>1. num_n_bits - 1 \in Nat /\ e \in Nat /\ j + 1 \in Nat /\ (j + 1) + e = num_n_bits
  BY OrderBits
<1>2. f \in Nat /\ f > 0 /\ g \in Nat /\ g > 0 /\ Power(2, e + 1) = 2 * f
  BY <1>1, PowerSteps, PowerPositive
<1>3. FULL = g * f
  BY <1>1, PowerOfSum DEF FULL
<1>4. e + 1 <= num_n_bits - 1 /\ e + 1 \in Nat
  BY <1>1
<1>5. 2 * f <= HALF
  BY <1>1, <1>2, <1>4, PowerMonotone DEF HALF
<1>6. j > 1 => 4 * f <= HALF
  <2> SUFFICES ASSUME j > 1
               PROVE  4 * f <= HALF
    OBVIOUS
  <2>1. e + 2 <= num_n_bits - 1 /\ e + 2 \in Nat /\ (e + 1) + 1 = e + 2
    BY <1>1
  <2>2. Power(2, e + 2) = 2 * Power(2, e + 1)
    BY <1>4, <2>1, PowerSteps
  <2>3. Power(2, e + 2) <= HALF
    BY <1>1, <2>1, PowerMonotone DEF HALF
  <2> DEFINE h == Power(2, e + 2)
             h1 == Power(2, e + 1)
  <2>4. h = 2 * h1 /\ h1 = 2 * f /\ h <= HALF
    BY <1>2, <2>2, <2>3
  <2> HIDE DEF h, h1, f
  <2> QED BY <1>2, <2>4
<1>7. Prefix(k, j) = f + upper
  BY DEF Prefix
<1> HIDE DEF e, f, g
<1>8. upper \in Nat /\ upper < f
  <2>1. upper \in Nat /\ g * upper <= k
    BY <1>2
  <2>2. g * upper < g * f
    BY <1>2, <1>3, <2>1
  <2> HIDE DEF upper
  <2> QED BY <1>2, <2>1, <2>2
<1> HIDE DEF upper
<1> QED BY <1>2, <1>5, <1>6, <1>7, <1>8, OrderBits

\* regularize_k(): the key plus once or twice the order, with the bit implied.
LEMMA RegularizedIs ==
  ASSUME NEW k \in 0 .. CURVE_N - 1
  PROVE  /\ Regularized(k) \in Nat /\ Regularized(k) < FULL
         /\ \/ FULL + Regularized(k) = k + CURVE_N
            \/ FULL + Regularized(k) = k + 2 * CURVE_N /\ k + CURVE_N < FULL
<1> DEFINE k0 == (k + CURVE_N) % FULL
<1>0. k \in Nat /\ k < CURVE_N /\ CURVE_N \in Nat /\ FULL \in Nat /\ HALF \in Nat /\ FULL = 2 * HALF
      /\ HALF <= CURVE_N /\ CURVE_N + 1 < FULL /\ FULL > 0
  BY OrderBits
<1>1. CASE k + CURVE_N >= FULL
  <2> DEFINE rest == k + CURVE_N - FULL
  <2>1. rest \in 0 .. FULL - 1 /\ k + CURVE_N = 1 * FULL + rest /\ k + CURVE_N \in Int /\ 1 \in Int
    BY <1>0, <1>1
  <2> HIDE DEF rest
  <2>2. k0 = rest
    BY <1>0, <2>1, RemainderUnique
  <2>3. Regularized(k) = rest
    BY <1>1, <2>2 DEF Regularized
  <2>4. FULL + rest = k + CURVE_N
    BY <1>0, <2>1
  <2> QED BY <1>0, <2>1, <2>3, <2>4
<1>2. CASE ~ (k + CURVE_N >= FULL)
  <2> DEFINE rest == k + 2 * CURVE_N - FULL
  <2>1. /\ rest \in 0 .. FULL - 1 /\ (k + CURVE_N) + CURVE_N = 1 * FULL + rest
        /\ k + CURVE_N = 0 * FULL + (k + CURVE_N) /\ k + CURVE_N \in 0 .. FULL - 1
        /\ (k + CURVE_N) + CURVE_N \in Int /\ k + CURVE_N \in Int /\ 1 \in Int /\ 0 \in Int
    BY <1>0, <1>2
  <2> HIDE DEF rest
  <2>2. k0 = k + CURVE_N
    BY <1>0, <2>1, RemainderUnique
  <2>3. (k0 + CURVE_N) % FULL = rest
    BY <1>0, <2>1, <2>2, RemainderUnique
  <2>4. Regularized(k) = rest
    BY <1>2, <2>3 DEF Regularized
  <2>5. FULL + rest = k + 2 * CURVE_N /\ k + CURVE_N < FULL
    BY <1>0, <1>2, <2>1
  <2> QED BY <1>0, <2>1, <2>4, <2>5
<1> QED BY <1>1, <1>2

-----------------------------------------------------------------------------
(* A round of the ladder.                                                  *)

\* Multiples of the generator that are neither the same nor opposite, scaled
\* by the same number.
LEMMA TimesShare ==
  ASSUME NEW j \in 1 .. CURVE_N - 1, NEW k \in 1 .. CURVE_N - 1, j # k, j + k # CURVE_N,
         NEW zz \in Int, NEW p, p = ApplyZ(Times[j], zz), NEW q, q = ApplyZ(Times[k], zz),
         NEW w, w = zz * (q[1] - p[1])
  PROVE  SharedZ(Times[j], Times[k], zz, p, q, w)
<1>1. Times[j] \in Coordinates /\ Times[k] \in Coordinates
  BY TimesGroup
<1>2. Times[j][1] # Times[k][1]
  BY SameX
<1> QED BY <1>1, <1>2, Zenon DEF SharedZ

\* XYcZ_add() and XYcZ_addC() on them.
LEMMA TimesAdd ==
  ASSUME NEW j \in 1 .. CURVE_N - 1, NEW k \in 1 .. CURVE_N - 1, j # k, j + k # CURVE_N,
         NEW zz \in Int, ~ Eq(zz, 0),
         NEW p, p = ApplyZ(Times[j], zz), NEW q, q = ApplyZ(Times[k], zz),
         NEW w, w = zz * (q[1] - p[1])
  PROVE  /\ w \in Int /\ ~ Eq(w, 0)
         /\ XYcZ_add(p, q).same = ApplyZ(Times[j], w)
         /\ XYcZ_add(p, q).sum = ApplyZ(Times[(j + k) % CURVE_N], w)
         /\ XYcZ_addC(p, q).sum = ApplyZ(Times[(j + k) % CURVE_N], w)
         /\ XYcZ_addC(p, q).diff = ApplyZ(Times[(j + (CURVE_N - k)) % CURVE_N], w)
<1> DEFINE l == CURVE_N - k
           P1 == Times[j]
           P2 == Times[k]
           N2 == Times[l]
<1>1. SharedZ(P1, P2, zz, p, q, w)
  BY TimesShare
<1>2. l \in 1 .. CURVE_N - 1 /\ Opposite(P2, N2) /\ N2 \in Coordinates
  BY TimesOpposite, TimesGroup
<1>3. /\ Plus(P1, P2) = Times[(j + k) % CURVE_N]
      /\ Plus(P1, N2) = Times[(j + l) % CURVE_N]
  <2>1. j \in 0 .. CURVE_N - 1 /\ k \in 0 .. CURVE_N - 1 /\ l \in 0 .. CURVE_N - 1
    BY <1>2
  <2> QED BY <2>1, TimesGroup
<1> HIDE DEF P1, P2, N2
<1>4. /\ w \in Int /\ (~ Eq(zz, 0) => ~ Eq(w, 0))
      /\ XYcZ_add(p, q).same = ApplyZ(P1, w)
      /\ XYcZ_add(p, q).sum = ApplyZ(Plus(P1, P2), w)
  BY <1>1, AddStands
<1>5. /\ XYcZ_addC(p, q).sum = ApplyZ(Plus(P1, P2), w)
      /\ XYcZ_addC(p, q).diff = ApplyZ(Plus(P1, N2), w)
  BY <1>1, <1>2, AddCStands
<1> QED BY <1>3, <1>4, <1>5 DEF P1, l

\* What one bit adds to twice a number, and the difference of the points.
Increment(set) == IF set THEN 1 ELSE 0

Difference(set) == IF set THEN 1 ELSE CURVE_N - 1

\* The numbers of the points in a round.
LEMMA RoundNumbers ==
  ASSUME NEW k \in 1 .. CURVE_N - 2, k + k + 1 # CURVE_N, NEW set \in BOOLEAN
  PROVE  LET s0 == (k + (k + 1)) % CURVE_N
             next == (2 * k + Increment(set)) % CURVE_N
             d == Difference(set)
         IN  /\ s0 \in 1 .. CURVE_N - 1 /\ d \in 1 .. CURVE_N - 1
             /\ s0 # d /\ s0 + d # CURVE_N /\ next \in 1 .. CURVE_N - 2
             /\ set => s0 = next /\ (s0 + d) % CURVE_N = next + 1
             /\ ~ set => s0 = next + 1 /\ (s0 + d) % CURVE_N = next
<1> DEFINE n == CURVE_N
           c == IF 2 * k + 1 < n THEN 0 ELSE 1
           rest == 2 * k + 1 - c * n
           one == Increment(set)
           next == rest - 1 + one
           d == Difference(set)
           after == IF set THEN next + 1 ELSE next
<1>1. n \in Nat /\ n > 3 /\ n % 2 # 0 /\ k \in Nat /\ k > 0 /\ k <= n - 2
  BY CurveNumbers
<1>2. one \in 0 .. 1 /\ (one = 1 <=> set) /\ d = IF set THEN 1 ELSE n - 1
  BY DEF Increment, Difference
<1> HIDE DEF n, one, d
<1>3. 2 * k # n /\ 2 * k + 1 # n
  BY <1>1 DEF n
<1>4. c \in Int /\ rest \in 1 .. n - 1 /\ rest # 1 /\ rest # n - 1 /\ 2 * k + 1 = c * n + rest
  <2>1. CASE 2 * k + 1 < n
    <3>1. c = 0 /\ rest = 2 * k + 1
      BY <1>1, <2>1
    <3> HIDE DEF c, rest
    <3> QED BY <1>1, <1>3, <2>1, <3>1
  <2>2. CASE ~ (2 * k + 1 < n)
    <3>1. c = 1 /\ rest = 2 * k + 1 - n
      BY <1>1, <2>2
    <3> HIDE DEF c, rest
    <3> QED BY <1>1, <1>3, <2>2, <3>1
  <2> QED BY <2>1, <2>2
<1> HIDE DEF c, rest
<1>5. (k + (k + 1)) % n = rest
  <2>1. k + (k + 1) = c * n + rest /\ k + (k + 1) \in Int
    BY <1>1, <1>4
  <2> QED BY <1>1, <1>4, <2>1, RemainderUnique
<1>6. next \in 1 .. n - 2 /\ next \in 0 .. n - 1 /\ (set => next = rest) /\ (~ set => rest = next + 1)
  BY <1>1, <1>2, <1>4
<1>7. (2 * k + one) % n = next
  <2>1. 2 * k + one = c * n + next /\ 2 * k + one \in Int
    <3>1. 2 * k + 1 = c * n + rest /\ c * n \in Int
      BY <1>1, <1>4
    <3> DEFINE m == c * n
    <3> HIDE DEF m
    <3>2. 2 * k + 1 = m + rest /\ m \in Int
      BY <3>1 DEF m
    <3>3. 2 * k + one = m + next
      BY <1>1, <1>2, <1>4, <3>2
    <3> QED BY <1>1, <1>2, <3>3 DEF m
  <2> HIDE DEF next
  <2> QED BY <1>1, <1>4, <1>6, <2>1, RemainderUnique
<1>8. (rest + d) % n = after
  <2> HIDE DEF next
  <2>1. CASE set
    <3>1. rest + d = 0 * n + after /\ after \in 0 .. n - 1 /\ rest + d \in Int /\ 0 \in Int
      BY <1>1, <1>2, <1>4, <1>6, <2>1
    <3> HIDE DEF after
    <3> QED BY <1>1, <3>1, RemainderUnique
  <2>2. CASE ~ set
    <3>1. rest + d = 1 * n + after /\ after \in 0 .. n - 1 /\ rest + d \in Int /\ 1 \in Int
      BY <1>1, <1>2, <1>4, <1>6, <2>2
    <3> HIDE DEF after
    <3> QED BY <1>1, <3>1, RemainderUnique
  <2> QED BY <2>1, <2>2
<1>9. d \in 1 .. n - 1 /\ rest # d /\ rest + d # n
  BY <1>1, <1>2, <1>4
<1> HIDE DEF next
<1> QED BY <1>4, <1>5, <1>6, <1>7, <1>8, <1>9 DEF n, d, one

\* The points of the ladder, k and k + 1 times the generator and scaled alike.
OnTrack(points, k, zz) ==
  /\ k \in 1 .. CURVE_N - 2 /\ zz \in Int /\ ~ Eq(zz, 0)
  /\ points = <<ApplyZ(Times[k], zz), ApplyZ(Times[k + 1], zz)>>

\* The additions of a round: sum and difference first.
LEMMA FirstAdd ==
  ASSUME NEW points, NEW k, NEW zz, OnTrack(points, k, zz), k + k + 1 # CURVE_N,
         NEW set \in BOOLEAN
  PROVE  LET to == Doubled(set)
             added == XYcZ_addC(points[to], points[3 - to])
         IN  \E w \in Int :
               /\ ~ Eq(w, 0)
               /\ added.sum = ApplyZ(Times[(k + (k + 1)) % CURVE_N], w)
               /\ added.diff = ApplyZ(Times[Difference(set)], w)
<1>1. /\ k \in 1 .. CURVE_N - 2 /\ zz \in Int /\ ~ Eq(zz, 0)
      /\ points[1] = ApplyZ(Times[k], zz) /\ points[2] = ApplyZ(Times[k + 1], zz)
  BY DEF OnTrack
<1>2. CURVE_N \in Nat /\ CURVE_N > 3
  BY CurveNumbers
<1>3. k \in 1 .. CURVE_N - 1 /\ k + 1 \in 1 .. CURVE_N - 1 /\ k # k + 1
      /\ k + (k + 1) # CURVE_N /\ (k + 1) + k # CURVE_N /\ (k + 1) + k = k + (k + 1)
  BY <1>1, <1>2
<1>4. CASE set
  <2> DEFINE p == points[2]
             q == points[1]
             w == zz * (q[1] - p[1])
  <2>1. Doubled(set) = 2 /\ 3 - 2 = 1 /\ Difference(set) = 1
    BY <1>4 DEF Doubled, Difference
  <2>2. ((k + 1) + (CURVE_N - k)) % CURVE_N = 1
    <3>1. (k + 1) + (CURVE_N - k) = 1 * CURVE_N + 1 /\ (k + 1) + (CURVE_N - k) \in Int
          /\ 1 \in 0 .. CURVE_N - 1 /\ CURVE_N > 0 /\ 1 \in Int
      BY <1>1, <1>2
    <3> QED BY <1>2, <3>1, RemainderUnique
  <2>3. p = ApplyZ(Times[k + 1], zz) /\ q = ApplyZ(Times[k], zz)
    BY <1>1
  <2>4. w = zz * (q[1] - p[1])
    OBVIOUS
  <2> HIDE DEF w, p, q
  <2>5. /\ w \in Int /\ ~ Eq(w, 0)
        /\ XYcZ_addC(p, q).sum = ApplyZ(Times[((k + 1) + k) % CURVE_N], w)
        /\ XYcZ_addC(p, q).diff = ApplyZ(Times[((k + 1) + (CURVE_N - k)) % CURVE_N], w)
    BY <1>1, <1>3, <2>3, <2>4, TimesAdd
  <2>6. /\ XYcZ_addC(p, q).sum = ApplyZ(Times[(k + (k + 1)) % CURVE_N], w)
        /\ XYcZ_addC(p, q).diff = ApplyZ(Times[Difference(set)], w)
    BY <1>3, <2>1, <2>2, <2>5
  <2> QED BY <2>1, <2>5, <2>6 DEF p, q
<1>5. CASE ~ set
  <2> DEFINE p == points[1]
             q == points[2]
             w == zz * (q[1] - p[1])
  <2>1. Doubled(set) = 1 /\ 3 - 1 = 2 /\ Difference(set) = CURVE_N - 1
    BY <1>5 DEF Doubled, Difference
  <2>2. (k + (CURVE_N - (k + 1))) % CURVE_N = CURVE_N - 1
    <3>1. k + (CURVE_N - (k + 1)) = CURVE_N - 1 /\ CURVE_N - 1 \in 0 .. CURVE_N - 1
      BY <1>1, <1>2
    <3> QED BY <3>1, BelowN
  <2>3. p = ApplyZ(Times[k], zz) /\ q = ApplyZ(Times[k + 1], zz)
    BY <1>1
  <2>4. w = zz * (q[1] - p[1])
    OBVIOUS
  <2> HIDE DEF w, p, q
  <2>5. /\ w \in Int /\ ~ Eq(w, 0)
        /\ XYcZ_addC(p, q).sum = ApplyZ(Times[(k + (k + 1)) % CURVE_N], w)
        /\ XYcZ_addC(p, q).diff = ApplyZ(Times[(k + (CURVE_N - (k + 1))) % CURVE_N], w)
    BY <1>1, <1>3, <2>3, <2>4, TimesAdd
  <2>6. XYcZ_addC(p, q).diff = ApplyZ(Times[Difference(set)], w)
    BY <2>1, <2>2, <2>5
  <2> QED BY <2>1, <2>5, <2>6 DEF p, q
<1> QED BY <1>4, <1>5

\* Then the sum of those two.
LEMMA SecondAdd ==
  ASSUME NEW k \in 1 .. CURVE_N - 2, k + k + 1 # CURVE_N, NEW set \in BOOLEAN,
         NEW w \in Int, ~ Eq(w, 0),
         NEW sum1, sum1 = ApplyZ(Times[(k + (k + 1)) % CURVE_N], w),
         NEW diff, diff = ApplyZ(Times[Difference(set)], w),
         NEW w2, w2 = w * (diff[1] - sum1[1])
  PROVE  OnTrack(Rung(Doubled(set), diff, sum1), (2 * k + Increment(set)) % CURVE_N, w2)
<1> DEFINE s0 == (k + (k + 1)) % CURVE_N
           d == Difference(set)
           next == (2 * k + Increment(set)) % CURVE_N
           to == Doubled(set)
           rung == Rung(to, diff, sum1)
<1>1. /\ s0 \in 1 .. CURVE_N - 1 /\ d \in 1 .. CURVE_N - 1
      /\ s0 # d /\ s0 + d # CURVE_N /\ next \in 1 .. CURVE_N - 2
      /\ set => s0 = next /\ (s0 + d) % CURVE_N = next + 1
      /\ ~ set => s0 = next + 1 /\ (s0 + d) % CURVE_N = next
  BY RoundNumbers
<1>2. sum1 = ApplyZ(Times[s0], w) /\ diff = ApplyZ(Times[d], w)
  OBVIOUS
<1> HIDE DEF s0, d, next
<1>3. /\ w2 \in Int /\ ~ Eq(w2, 0)
      /\ XYcZ_add(sum1, diff).same = ApplyZ(Times[s0], w2)
      /\ XYcZ_add(sum1, diff).sum = ApplyZ(Times[(s0 + d) % CURVE_N], w2)
  BY <1>1, <1>2, TimesAdd
<1>4. rung = [j \in 1 .. 2 |-> IF j = to THEN XYcZ_add(sum1, diff).sum
                                ELSE XYcZ_add(sum1, diff).same]
  BY Zenon DEF Rung
<1>5. rung = <<ApplyZ(Times[next], w2), ApplyZ(Times[next + 1], w2)>>
  <2>1. CASE set
    <3>1. to = 2
      BY <2>1 DEF Doubled
    <3> DEFINE x == ApplyZ(Times[next], w2)
               y == ApplyZ(Times[next + 1], w2)
    <3>2. XYcZ_add(sum1, diff).same = x /\ XYcZ_add(sum1, diff).sum = y
      BY <1>1, <1>3, <2>1
    <3> HIDE DEF x, y, to, rung
    <3>3. rung = [j \in 1 .. 2 |-> IF j = 2 THEN y ELSE x]
      BY <1>4, <3>1, <3>2
    <3>4. rung = <<x, y>>
      BY <3>3
    <3> QED BY <3>4 DEF x, y
  <2>2. CASE ~ set
    <3>1. to = 1
      BY <2>2 DEF Doubled
    <3> DEFINE x == ApplyZ(Times[next], w2)
               y == ApplyZ(Times[next + 1], w2)
    <3>2. XYcZ_add(sum1, diff).sum = x /\ XYcZ_add(sum1, diff).same = y
      BY <1>1, <1>3, <2>2
    <3> HIDE DEF x, y, to, rung
    <3>3. rung = [j \in 1 .. 2 |-> IF j = 1 THEN x ELSE y]
      BY <1>4, <3>1, <3>2
    <3>4. rung = <<x, y>>
      BY <3>3
    <3> QED BY <3>4 DEF x, y
  <2> QED BY <2>1, <2>2
<1> HIDE DEF rung
<1>6. OnTrack(rung, next, w2)
  BY <1>1, <1>3, <1>5, Zenon DEF OnTrack
<1> QED BY <1>6 DEF rung, next, to

-----------------------------------------------------------------------------
(* The last bit.                                                           *)

\* What the last Z is computed from: e is the difference of the x of the two
\* points, X and Y are the coordinates of the one that is the generator or its
\* opposite, scaled by w.
LastTerms(e, X, Y, gx, gy, w, sign, w2) ==
  /\ e \in Int /\ X \in Int /\ Y \in Int /\ gx \in Int /\ gy \in Int /\ w \in Int
  /\ sign \in {-1, 1} /\ w2 \in Int /\ w2 = sign * (w * e)
  /\ ~ Eq(w2, 0) /\ ~ Eq(gx, 0) /\ ~ Eq(gy, 0) /\ ~ Eq(w, 0)
  /\ Times2(X, gx, w) /\ Times3(Y, sign * gy, w)

\* It has an inverse.
LEMMA LastNotZero ==
  ASSUME NEW e, NEW X, NEW Y, NEW gx, NEW gy, NEW w, NEW sign, NEW w2,
         LastTerms(e, X, Y, gx, gy, w, sign, w2)
  PROVE  (e * Y * gx) % CURVE_P \in 1 .. CURVE_P - 1
<1>1. /\ e \in Int /\ X \in Int /\ Y \in Int /\ gx \in Int /\ gy \in Int /\ w \in Int
      /\ sign \in {-1, 1} /\ w2 \in Int /\ w2 = sign * (w * e)
      /\ ~ Eq(w2, 0) /\ ~ Eq(gx, 0) /\ ~ Eq(gy, 0) /\ ~ Eq(w, 0)
      /\ Eq(Y, (sign * gy) * (w * (w * w)))
  BY Zenon DEF LastTerms, Times3
<1>2. ~ Eq(e, 0)
  <2> SUFFICES ASSUME Eq(e, 0)
               PROVE  FALSE
    OBVIOUS
  <2> DEFINE c == sign * w
  <2>1. c \in Int /\ c * e = w2 /\ c * 0 = 0 /\ 0 \in Int
    BY <1>1
  <2> HIDE DEF c
  <2>2. Eq(c * e, c * 0)
    BY <1>1, <2>1, EqTimes
  <2> QED BY <1>1, <2>1, <2>2
<1>3. ~ Eq(sign * gy, 0) /\ sign * gy \in Int
  <2>1. CASE sign = 1
    <3>1. sign * gy = gy
      BY <1>1, <2>1
    <3> QED BY <1>1, <3>1
  <2>2. CASE sign = -1
    <3>1. sign * gy = - gy /\ - gy \in Int /\ (-1) * (- gy) = gy /\ (-1) * 0 = 0
          /\ -1 \in Int /\ 0 \in Int
      BY <1>1, <2>2
    <3> SUFFICES ASSUME Eq(- gy, 0)
                 PROVE  FALSE
      BY <3>1
    <3>2. Eq((-1) * (- gy), (-1) * 0)
      BY <3>1, EqTimes
    <3> QED BY <1>1, <3>1, <3>2
  <2> QED BY <1>1, <2>1, <2>2
<1> DEFINE c == w * (w * w)
           f == (sign * gy) * c
<1>4. ~ Eq(c, 0) /\ c \in Int
  <2>1. ~ Eq(w * w, 0) /\ w * w \in Int
    BY <1>1, NotZeroTimes
  <2> QED BY <1>1, <2>1, NotZeroTimes
<1>5. ~ Eq(f, 0) /\ f \in Int /\ Eq(Y, f)
  <2> DEFINE s1 == sign * gy
  <2>1. s1 \in Int /\ ~ Eq(s1, 0) /\ f = s1 * c
    BY <1>3
  <2> HIDE DEF c, f, s1
  <2>2. s1 * c \in Int
    BY <1>4, <2>1
  <2>3. ~ Eq(s1 * c, 0)
    BY <1>4, <2>1, NotZeroTimes
  <2> QED BY <1>1, <2>1, <2>2, <2>3 DEF c, f
<1> HIDE DEF f
<1>6. ~ Eq(Y, 0)
  <2> SUFFICES ASSUME Eq(Y, 0)
               PROVE  FALSE
    OBVIOUS
  <2>1. Eq(f, Y) /\ 0 \in Int
    BY <1>1, <1>5, EqRules
  <2>2. Eq(f, 0)
    BY <1>1, <1>5, <2>1, EqVia
  <2> QED BY <1>5, <2>2
<1>7. ~ Eq(e * Y * gx, 0) /\ e * Y * gx \in Int
  <2>1. ~ Eq(e * Y, 0) /\ e * Y \in Int
    BY <1>1, <1>2, <1>6, NotZeroTimes
  <2> QED BY <1>1, <2>1, NotZeroTimes
<1>8. (e * Y * gx) % CURVE_P # 0
  <2> DEFINE g == e * Y * gx
  <2>1. g \in Int /\ ~ Eq(g, 0)
    BY <1>7
  <2> HIDE DEF g
  <2>2. g % CURVE_P # 0
    BY <2>1, EqRemainder
  <2> QED BY <2>2 DEF g
<1> QED BY <1>7, <1>8, EqRemainder

\* And inverse_Z is the inverse of the Z that the points would have.
LEMMA LastInverse ==
  ASSUME NEW e, NEW X, NEW Y, NEW gx, NEW gy, NEW w, NEW sign, NEW w2,
         LastTerms(e, X, Y, gx, gy, w, sign, w2),
         NEW inv \in Int, Eq(((e * Y * gx) % CURVE_P) * inv, 1)
  PROVE  (inv * gy * X) % CURVE_P \in Int /\ Eq(w2 * ((inv * gy * X) % CURVE_P), 1)
<1>1. /\ e \in Int /\ X \in Int /\ Y \in Int /\ gx \in Int /\ gy \in Int /\ w \in Int
      /\ sign \in {-1, 1} /\ w2 \in Int /\ w2 = sign * (w * e)
      /\ Eq(X, gx * (w * w)) /\ Eq(Y, (sign * gy) * (w * (w * w)))
  BY Zenon DEF LastTerms, Times2, Times3
<1> DEFINE x2 == gx * (w * w)
           y3 == (sign * gy) * (w * (w * w))
           a1 == e * Y * gx
           a2 == e * y3 * gx
           b1 == inv * gy * X
           b2 == inv * gy * x2
<1>2. x2 \in Int /\ y3 \in Int /\ a1 \in Int /\ a2 \in Int /\ b1 \in Int /\ b2 \in Int
  <2>1. x2 \in Int /\ y3 \in Int
    BY <1>1
  <2> HIDE DEF x2, y3
  <2> QED BY <1>1, <2>1
<1>3. w2 * b2 = a2 * inv
  BY <1>1
<1>4. Eq(a1, a2)
  <2>1. Eq(Y, y3)
    BY <1>1
  <2> HIDE DEF y3
  <2>2. Eq(e * Y, e * y3) /\ e * Y \in Int /\ e * y3 \in Int
    BY <1>1, <1>2, <2>1, EqTimes
  <2> QED BY <1>1, <2>2, EqTimes
<1>5. Eq(b1, b2)
  <2>1. Eq(X, x2) /\ inv * gy \in Int
    BY <1>1
  <2> HIDE DEF x2
  <2> QED BY <1>1, <1>2, <2>1, EqTimes
<1> DEFINE am == a1 % CURVE_P
           bm == b1 % CURVE_P
<1> HIDE DEF x2, y3, a1, a2, b1, b2
<1>6. am \in Int /\ bm \in Int /\ Eq(am, a1) /\ Eq(a1, am) /\ Eq(bm, b1)
  BY <1>2, EqRemainder
<1>7. Eq(am * inv, 1)
  BY DEF a1
<1> HIDE DEF am, bm
<1>8. Eq(w2 * bm, w2 * b2) /\ w2 * bm \in Int /\ w2 * b2 \in Int
  <2>1. Eq(bm, b2)
    BY <1>2, <1>5, <1>6, EqVia
  <2>2. w2 \in Int
    BY <1>1
  <2>3. w2 * bm \in Int /\ w2 * b2 \in Int
    BY <1>2, <1>6, <2>2
  <2>4. Eq(w2 * bm, w2 * b2)
    BY <1>2, <1>6, <2>1, <2>2, EqTimes
  <2> QED BY <2>3, <2>4
<1>9. Eq(a2 * inv, am * inv) /\ a2 * inv \in Int /\ am * inv \in Int
  <2>1. Eq(a2, a1)
    BY <1>2, <1>4, EqRules
  <2>2. Eq(a2, am)
    BY <1>2, <1>6, <2>1, EqVia
  <2> QED BY <1>2, <1>6, <2>2, EqTimes
<1>10. Eq(w2 * bm, am * inv)
  BY <1>3, <1>8, <1>9, EqVia
<1>11. Eq(w2 * bm, 1)
  BY <1>7, <1>8, <1>9, <1>10, EqVia
<1> QED BY <1>6, <1>11 DEF bm, b1

\* The point that a bit leaves as the difference: the generator or its opposite.
LEMMA DifferenceIs ==
  ASSUME NEW set \in BOOLEAN
  PROVE  /\ Times[Difference(set)] \in Coordinates
         /\ Times[Difference(set)][1] = CURVE_G[1]
         /\ Eq(Times[Difference(set)][2], (IF set THEN 1 ELSE -1) * CURVE_G[2])
         /\ CURVE_G \in Coordinates /\ CURVE_G[1] \in Int /\ CURVE_G[2] \in Int
         /\ ~ Eq(CURVE_G[1], 0) /\ ~ Eq(CURVE_G[2], 0)
<1>1. CURVE_N \in Nat /\ CURVE_N > 3 /\ 1 \in 1 .. CURVE_N - 1 /\ CURVE_N - 1 \in 1 .. CURVE_N - 1
  BY CurveNumbers
<1>2. Times[1] = CURVE_G /\ Times[1] \in Coordinates /\ Times[CURVE_N - 1] \in Coordinates
  BY <1>1, TimesStart, TimesGroup
<1>3. Opposite(Times[1], Times[CURVE_N - 1])
  BY <1>1, TimesOpposite
<1>4. CURVE_G \in Coordinates /\ CURVE_G[1] \in Int /\ CURVE_G[2] \in Int
  BY <1>2, PointNumbers
<1>5. ~ Eq(CURVE_G[2], 0)
  <2>1. (2 * CURVE_G[2]) % CURVE_P # 0
    BY <1>1, <1>2, NotOpposite
  <2> QED BY <1>4, <2>1, TangentIs
<1>6. ~ Eq(CURVE_G[1], 0)
  <2>1. CURVE_G[1] \in 0 .. CURVE_P - 1 /\ CURVE_G[1] # 0
    BY <1>4, MultAssumption DEF Coordinates
  <2> QED BY <2>1, NotZero
<1>7. CASE set
  <2>1. Difference(set) = 1 /\ 1 * CURVE_G[2] = CURVE_G[2]
    BY <1>4, <1>7 DEF Difference
  <2>2. Eq(CURVE_G[2], CURVE_G[2])
    BY <1>4, EqRules
  <2> QED BY <1>2, <1>4, <1>5, <1>6, <1>7, <2>1, <2>2
<1>8. CASE ~ set
  <2> DEFINE T == Times[CURVE_N - 1]
             y == CURVE_G[2]
             t == T[2]
  <2>1. Difference(set) = CURVE_N - 1
    BY <1>8 DEF Difference
  <2>2. T[1] = CURVE_G[1] /\ Eq(y + t, 0) /\ T \in Coordinates /\ t \in Int /\ y \in Int
    BY <1>2, <1>3, <1>4, PointNumbers DEF Opposite
  <2> HIDE DEF T, y, t
  <2>3. Eq(t, - y)
    <3>1. Eq(y, y) /\ y + t \in Int /\ (y + t) - y = t /\ 0 - y = - y /\ 0 \in Int
      BY <2>2, EqRules
    <3>2. Eq((y + t) - y, 0 - y)
      BY <2>2, <3>1, EqMinus
    <3> QED BY <3>1, <3>2
  <2>4. (-1) * y = - y
    BY <2>2
  <2> QED BY <1>4, <1>5, <1>6, <1>8, <2>1, <2>2, <2>3, <2>4 DEF T, y, t
<1> QED BY <1>7, <1>8

\* The affine point that the last bit computes.
LastPoint(points, set) ==
  LET to == Doubled(set)
      added == XYcZ_addC(points[to], points[3 - to])
      Q == [j \in 1 .. 2 |-> IF j = to THEN added.diff ELSE added.sum]
      zz == ((Q[2][1] - Q[1][1]) * Q[to][2] * CURVE_G[1]) % CURVE_P
      inverse_Z == (InvP[zz] * CURVE_G[2] * Q[to][1]) % CURVE_P
  IN  ApplyZ(Rung(to, added.diff, added.sum)[1], inverse_Z)

\* It is the multiple that all the bits stand for.
LEMMA LastOnTrack ==
  ASSUME NEW points, NEW k, NEW zz, OnTrack(points, k, zz), k + k + 1 # CURVE_N,
         NEW set \in BOOLEAN
  PROVE  LET next == (2 * k + Increment(set)) % CURVE_N IN
           next \in 1 .. CURVE_N - 2 /\ LastPoint(points, set) = Times[next]
<1> DEFINE to == Doubled(set)
           next == (2 * k + Increment(set)) % CURVE_N
           added == XYcZ_addC(points[to], points[3 - to])
           sum1 == added.sum
           diff == added.diff
           sign == IF set THEN 1 ELSE -1
           X == diff[1]
           Y == diff[2]
           e == IF set THEN X - sum1[1] ELSE sum1[1] - X
           gx == CURVE_G[1]
           gy == CURVE_G[2]
<1>1. k \in 1 .. CURVE_N - 2
  BY DEF OnTrack
<1>2. PICK w \in Int : /\ ~ Eq(w, 0)
                       /\ sum1 = ApplyZ(Times[(k + (k + 1)) % CURVE_N], w)
                       /\ diff = ApplyZ(Times[Difference(set)], w)
  BY FirstAdd
<1>3. (k + (k + 1)) % CURVE_N \in 1 .. CURVE_N - 1 /\ Times[(k + (k + 1)) % CURVE_N] \in Coordinates
  BY <1>1, RoundNumbers, TimesGroup
<1>4. /\ LastPoint(points, set)
           = ApplyZ(Rung(to, diff, sum1)[1],
                    (InvP[(e * Y * gx) % CURVE_P] * gy * X) % CURVE_P)
  <2> DEFINE Q == [j \in 1 .. 2 |-> IF j = to THEN added.diff ELSE added.sum]
  <2>1. (to = 2 /\ set) \/ (to = 1 /\ ~ set)
    BY DEF Doubled
  <2>2. Q[to] = diff /\ Q[2][1] - Q[1][1] = e
    <3> HIDE DEF to, added
    <3>1. CASE to = 2 /\ set
      <4>1. Q[2] = diff /\ Q[1] = sum1
        BY <3>1
      <4> HIDE DEF Q
      <4> QED BY <3>1, <4>1
    <3>2. CASE to = 1 /\ ~ set
      <4>1. Q[1] = diff /\ Q[2] = sum1
        BY <3>2
      <4> HIDE DEF Q
      <4> QED BY <3>2, <4>1
    <3> QED BY <2>1, <3>1, <3>2
  <2> HIDE DEF e
  <2>3. LastPoint(points, set)
          = ApplyZ(Rung(to, diff, sum1)[1],
                   (InvP[((Q[2][1] - Q[1][1]) * Q[to][2] * gx) % CURVE_P] * gy * Q[to][1]) % CURVE_P)
    BY Zenon DEF LastPoint
  <2> QED BY <2>2, <2>3
<1> HIDE DEF added, sum1, diff
<1>5. diff \in Coordinates /\ sum1 \in Coordinates
  BY <1>2, <1>3, DifferenceIs, ApplyZIs
<1>6. X \in Int /\ Y \in Int /\ sum1[1] \in Int /\ gx \in Int /\ gy \in Int
  BY <1>5, DifferenceIs, PointNumbers
<1> DEFINE w2 == w * (X - sum1[1])
<1>7. OnTrack(Rung(to, diff, sum1), next, w2)
  <2>1. w2 = w * (diff[1] - sum1[1])
    OBVIOUS
  <2> HIDE DEF w2
  <2> QED BY <1>1, <1>2, <2>1, SecondAdd
<1>8. LastTerms(e, X, Y, gx, gy, w, sign, w2)
  <2>1. w2 \in Int /\ ~ Eq(w2, 0)
    BY <1>7, Zenon DEF OnTrack
  <2>2. e \in Int /\ sign \in {-1, 1} /\ w2 = sign * (w * e)
    <3>1. CASE set
      <4>1. e = X - sum1[1] /\ sign = 1
        BY <3>1
      <4> HIDE DEF e, sign, X
      <4> QED BY <1>2, <1>6, <4>1
    <3>2. CASE ~ set
      <4>1. e = sum1[1] - X /\ sign = -1
        BY <3>2
      <4> HIDE DEF e, sign, X
      <4> QED BY <1>2, <1>6, <4>1
    <3> QED BY <3>1, <3>2
  <2>3. ~ Eq(gx, 0) /\ ~ Eq(gy, 0) /\ ~ Eq(w, 0)
    BY <1>2, DifferenceIs
  <2>4. Times2(X, gx, w)
    BY <1>2, DifferenceIs, ApplyZIs DEF Times2
  <2>5. Times3(Y, sign * gy, w)
    <3> DEFINE y == Times[Difference(set)][2]
               c == w * (w * w)
               s1 == sign * gy
    <3>1. Eq(Y, y * c)
      BY <1>2, DifferenceIs, ApplyZIs
    <3>2. Eq(y, s1) /\ y \in Int
      BY DifferenceIs, PointNumbers
    <3>3. s1 \in Int /\ c \in Int
      BY <1>2, <1>6, <2>2
    <3> HIDE DEF y, c, s1
    <3>4. Eq(y * c, s1 * c) /\ y * c \in Int /\ s1 * c \in Int
      BY <3>2, <3>3, EqTimes
    <3>5. Eq(Y, s1 * c)
      BY <1>6, <3>1, <3>4, EqVia
    <3> QED BY <3>5 DEF Times3, s1, c
  <2> HIDE DEF e, sign, X, Y, gx, gy, w2
  <2> QED BY <1>2, <1>6, <2>1, <2>2, <2>3, <2>4, <2>5, Zenon DEF LastTerms
<1> HIDE DEF e, sign, X, Y, gx, gy, w2
<1> DEFINE last == (e * Y * gx) % CURVE_P
           inv == InvP[last]
           back == (inv * gy * X) % CURVE_P
<1>9. last \in 1 .. CURVE_P - 1
  BY <1>8, LastNotZero
<1>10. inv \in Int /\ Eq(last * inv, 1)
  <2>1. inv \in 1 .. CURVE_P - 1 /\ Eq(last * inv, 1)
    BY <1>9, InvPRight
  <2> QED BY <2>1
<1>11. back \in Int /\ Eq(w2 * back, 1)
  <2> HIDE DEF inv
  <2> QED BY <1>8, <1>10, LastInverse
<1>12. Rung(to, diff, sum1)[1] = ApplyZ(Times[next], w2) /\ next \in 1 .. CURVE_N - 2 /\ w2 \in Int
  BY <1>7 DEF OnTrack
<1>13. Times[next] \in Coordinates
  BY <1>12, CurveNumbers, TimesGroup
<1> HIDE DEF next
<1>14. ApplyZ(ApplyZ(Times[next], w2), back) = Times[next]
  BY <1>11, <1>12, <1>13, ApplyZBack
<1>15. LastPoint(points, set) = ApplyZ(Rung(to, diff, sum1)[1], back)
  BY <1>4
<1>16. LastPoint(points, set) = Times[next]
  BY <1>12, <1>14, <1>15
<1> QED BY <1>12, <1>16 DEF next

\* Of lost points it makes <<0, 0>>.
LEMMA LastLost ==
  ASSUME NEW points, PointsLost(points), NEW set \in BOOLEAN
  PROVE  LastPoint(points, set) = <<0, 0>>
<1> DEFINE to == Doubled(set)
           added == XYcZ_addC(points[to], points[3 - to])
           sum1 == added.sum
           diff == added.diff
           Q == [j \in 1 .. 2 |-> IF j = to THEN diff ELSE sum1]
           zz == ((Q[2][1] - Q[1][1]) * Q[to][2] * CURVE_G[1]) % CURVE_P
           back == (InvP[zz] * CURVE_G[2] * Q[to][1]) % CURVE_P
           rung == Rung(to, diff, sum1)
<1>1. to \in 1 .. 2
  BY DEF Doubled
<1>2. sum1 = <<0, 0>> /\ diff = <<0, 0>>
  BY <1>1, LostLast
<1>3. LastPoint(points, set) = ApplyZ(rung[1], back)
  BY DEF LastPoint
<1> HIDE DEF to, sum1, diff
<1>4. Q[to] = <<0, 0>> /\ Q[2][1] - Q[1][1] = 0
  BY <1>1, <1>2
<1>5. CURVE_G[1] \in Int /\ CURVE_G[2] \in Int /\ 0 \in 0 .. CURVE_P - 1
  BY DifferenceIs, CurveNumbers
<1>6. zz = 0
  <2>1. (0 * 0 * CURVE_G[1]) % CURVE_P = 0
    <3>1. 0 * 0 * CURVE_G[1] = 0
      BY <1>5
    <3> QED BY <3>1, ZeroPoint
  <2>2. Q[to][2] = 0
    BY <1>4
  <2> HIDE DEF Q
  <2>3. zz = (0 * 0 * CURVE_G[1]) % CURVE_P
    BY <1>4, <2>2
  <2> HIDE DEF zz
  <2> QED BY <2>1, <2>3
<1>7. back = 0
  <2>1. InvP[0] = 0
    BY <1>5 DEF InvP, InverseMod
  <2>2. 0 * CURVE_G[2] * 0 = 0
    BY <1>5
  <2>3. back = (InvP[zz] * CURVE_G[2] * Q[to][1]) % CURVE_P
    OBVIOUS
  <2> HIDE DEF Q, zz, back
  <2> QED BY <1>4, <1>6, <2>1, <2>2, <2>3, ZeroPoint
<1>8. rung[1] = <<0, 0>>
  <2>1. XYcZ_add(sum1, diff).sum = <<0, 0>>
    BY <1>2, ZeroAdd
  <2>2. XYcZ_add(sum1, diff).same = <<0, 0>>
    BY <1>2, ZeroAdd
  <2> QED BY <1>1, <2>1, <2>2 DEF Rung
<1> QED BY <1>3, <1>7, <1>8, ZeroAdd

-----------------------------------------------------------------------------
(* The private keys that the ladder refuses.                               *)

RefusedKeys == {0, 1, CURVE_N - 2, CURVE_N - 1}

\* The order is more than its highest bit: it is odd.
LEMMA HalfBelow == HALF < CURVE_N
<1> DEFINE m == num_n_bits - 2
<1>1. /\ num_n_bits \in Nat /\ num_n_bits > 0 /\ HALF \in Nat /\ FULL = 2 * HALF
      /\ CURVE_N \in Nat /\ CURVE_N > 3 /\ CURVE_N % 2 # 0
      /\ HALF <= CURVE_N /\ CURVE_N + 1 < FULL
  BY OrderBits
<1>2. num_n_bits # 1
  <2> SUFFICES ASSUME num_n_bits = 1
               PROVE  FALSE
    OBVIOUS
  <2>1. HALF = Power(2, 0) /\ Power(2, 0) = 1
    BY PowerSteps DEF HALF
  <2> QED BY <1>1, <2>1
<1>3. m \in Nat /\ m + 1 = num_n_bits - 1
  BY <1>1, <1>2
<1> HIDE DEF m
<1>4. HALF = 2 * Power(2, m) /\ Power(2, m) \in Nat
  BY <1>3, PowerSteps DEF HALF
<1> DEFINE f == Power(2, m)
<1> HIDE DEF f
<1>5. HALF = 2 * f /\ f \in Nat
  BY <1>4 DEF f
<1>6. HALF % 2 = 0
  BY <1>5
<1>7. HALF # CURVE_N
  BY <1>1, <1>6
<1> QED BY <1>1, <1>7

\* Before the last bit the prefix is below the order, and before the last two
\* even twice it.
LEMMA EarlyNumbers ==
  ASSUME NEW d \in 0 .. CURVE_N - 1, NEW k, k = Regularized(d),
         NEW j \in 1 .. num_n_bits - 1
  PROVE  LET K == Prefix(k, j) IN
           /\ K \in 1 .. CURVE_N - 1 /\ K % CURVE_N = K
           /\ Prefix(k, j - 1) = 2 * K + BitOf(k, j)
           /\ K + K + 1 = CURVE_N => j - 1 = 0 /\ d \in RefusedKeys
<1> DEFINE n == CURVE_N
           K == Prefix(k, j)
           L == Prefix(k, j - 1)
           b0 == BitOf(k, 0)
           b1 == BitOf(k, j)
           m == FULL + k
<1>1. /\ j \in Nat /\ j > 0 /\ j <= num_n_bits - 1 /\ num_n_bits - 1 \in Nat
      /\ n \in Nat /\ n > 3 /\ FULL \in Nat
  BY OrderBits
<1>2. /\ k \in Nat /\ k < FULL /\ (m = d + n \/ m = d + 2 * n)
  BY RegularizedIs
<1>3. K \in Nat /\ b1 \in 0 .. 1 /\ L = 2 * K + b1
  <2>1. j \in Nat /\ j <= num_n_bits - 1 /\ k \in Nat
    BY <1>1, <1>2
  <2>2. K \in Nat /\ b1 \in 0 .. 1 /\ (j > 0 => L = 2 * K + b1)
    BY <2>1, PrefixNext, Zenon
  <2> QED BY <1>1, <2>2
<1>4. K > 0 /\ K < n /\ (j > 1 => 2 * K + 1 < n)
  BY <1>1, <1>2, PrefixBelow
<1>5. j = 1 => m = 2 * L + b0 /\ b0 \in 0 .. 1
  <2>1. 0 \in Nat /\ 0 <= num_n_bits - 1
    BY <1>1
  <2>2. b0 \in 0 .. 1 /\ m = 2 * Prefix(k, 0) + b0
    BY <1>2, <2>1, PrefixNext
  <2> QED BY <2>2
<1> HIDE DEF n, K, L, b0, b1, m
<1>6. K \in 1 .. n - 1 /\ K % n = K
  <2>1. K \in 0 .. n - 1
    BY <1>1, <1>3, <1>4
  <2> QED BY <1>1, <1>3, <1>4, <2>1, BelowN DEF n
<1>7. ASSUME K + K + 1 = n
      PROVE  j - 1 = 0 /\ d \in {0, 1, n - 2, n - 1}
  <2>1. j = 1
    BY <1>1, <1>3, <1>4, <1>7
  <2>2. m = 2 * L + b0 /\ b0 \in 0 .. 1
    BY <1>5, <2>1
  <2>3. d \in Nat /\ d < n
    BY <1>1 DEF n
  <2> QED BY <1>1, <1>2, <1>3, <1>7, <2>1, <2>2, <2>3
<1> QED BY <1>3, <1>6, <1>7 DEF K, L, b1, n, RefusedKeys

\* At the last bit the number is the key, which is not refused on track.
LEMMA LastNumbers ==
  ASSUME NEW d \in 0 .. CURVE_N - 1, NEW sc, sc = Regularized(d),
         NEW k, k = Prefix(sc, 0) % CURVE_N
  PROVE  /\ (2 * k + BitOf(sc, 0)) % CURVE_N = d
         /\ k \in 1 .. CURVE_N - 2 => k + k + 1 # CURVE_N /\ d \notin RefusedKeys
<1> DEFINE n == CURVE_N
           K == Prefix(sc, 0)
           b0 == BitOf(sc, 0)
           m == FULL + sc
<1>1. /\ num_n_bits - 1 \in Nat /\ 0 \in Nat /\ 0 <= num_n_bits - 1
      /\ n \in Nat /\ n > 3 /\ n % 2 # 0 /\ FULL \in Nat /\ HALF \in Nat /\ FULL = 2 * HALF
      /\ HALF < n /\ n + 1 < FULL /\ d \in Nat /\ d < n
  BY OrderBits, HalfBelow
<1>2. /\ sc \in Nat /\ sc < FULL
      /\ (m = d + n \/ (m = d + 2 * n /\ d + n < FULL))
  BY RegularizedIs
<1>3. K \in Nat /\ b0 \in 0 .. 1 /\ m = 2 * K + b0 /\ m \in Nat /\ m >= FULL
  <2>1. 0 \in Nat /\ 0 <= num_n_bits - 1 /\ sc \in Nat
    BY <1>1, <1>2
  <2>2. K \in Nat /\ b0 \in 0 .. 1 /\ FULL + sc = 2 * K + b0
    BY <2>1, PrefixNext, Zenon
  <2>3. m \in Nat /\ m >= FULL
    BY <1>1, <1>2
  <2> QED BY <2>2, <2>3
<1>4. k \in 0 .. n - 1 /\ (K = k \/ K = k + n)
  <2> DEFINE q == K \div n
  <2>1. /\ k = K % n /\ q \in Nat /\ K % n \in 0 .. n - 1 /\ K = n * q + (K % n)
    BY <1>1, <1>3
  <2>2. K < 2 * n
    BY <1>1, <1>2, <1>3
  <2> HIDE DEF q, K, n
  <2>3. K = n * q + k /\ k \in Nat /\ k < n
    BY <2>1, <1>1
  <2>4. q < 2
    <3> SUFFICES ASSUME q >= 2
                 PROVE  FALSE
      BY <2>1
    <3>1. n * q >= n * 2
      BY <1>1, <2>1
    <3> DEFINE p == n * q
    <3>2. p \in Nat
      BY <1>1, <2>1
    <3> HIDE DEF p
    <3> QED BY <1>1, <2>2, <2>3, <3>1, <3>2 DEF p
  <2>5. q = 0 \/ q = 1
    BY <2>1, <2>4
  <2>6. n * 0 = 0 /\ n * 1 = n
    BY <1>1
  <2> QED BY <2>1, <2>3, <2>5, <2>6, <1>1
<1>5. (2 * k + b0) % n = d
  <2> HIDE DEF K, m, n, b0
  <2> DEFINE t == 2 * k + b0
  <2>1. t \in Int /\ (m = t \/ m = t + 2 * n)
    BY <1>1, <1>3, <1>4
  <2> HIDE DEF t
  <2>2. \/ t = 1 * n + d
        \/ t = 2 * n + d
        \/ t = (-1) * n + d
        \/ t = 0 * n + d
    BY <1>1, <1>2, <2>1
  <2>3. d \in 0 .. n - 1 /\ n > 0
    BY <1>1
  <2>4. t % n = d
    BY <1>1, <2>1, <2>2, <2>3, RemainderUnique
  <2> QED BY <2>4 DEF t
<1> HIDE DEF K, m, n, b0
<1>6. ASSUME k \in 1 .. n - 2
      PROVE  k + k + 1 # n /\ d \notin {0, 1, n - 2, n - 1}
  <2>1. k + k + 1 # n
    BY <1>1, <1>2, <1>3, <1>4, <1>6
  <2>2. d # 0 /\ d # 1
    BY <1>1, <1>2, <1>3, <1>4, <1>6
  <2>3. d # n - 2 /\ d # n - 1
    BY <1>1, <1>2, <1>3, <1>4, <1>6
  <2> QED BY <2>1, <2>2, <2>3
<1> QED BY <1>5, <1>6 DEF b0, n, RefusedKeys

(***************************************************************************)
(* The inductive invariant: before bit b of the ladder its points are k    *)
(* and k + 1 times the generator with a common Z, k being what the bits    *)
(* passed so far stand for modulo the order.  Only when two of them are    *)
(* opposite they get lost, in the last round but one, and the key is one   *)
(* of the four that are refused (uECC.c:862-972).                          *)
(***************************************************************************)
InLadder ==
  /\ scalar = Regularized(private_key) /\ bit \in 0 .. num_n_bits - 1
  /\ \/ \E zz : OnTrack(R, Prefix(scalar, bit) % CURVE_N, zz)
     \/ bit = 0 /\ private_key \in RefusedKeys /\ PointsLost(R)

KeyInv ==
  /\ private_key \in 0 .. CURVE_N - 1 /\ initial_Z \in 1 .. CURVE_P - 1
  /\ kpc = "ladder" => InLadder
  /\ PublicKeyRight

\* The ladder begins with P and 2P.
LEMMA LadderBegins ==
  ASSUME KeyInv, BeginMult
  PROVE  InLadder'
<1> DEFINE zz == initial_Z
           p == ApplyZ(CURVE_G, zz)
           w == (p[2] * zz) % CURVE_P
           double == DoubleJacobian(p, zz)
           top == num_n_bits - 1
<1>1. /\ scalar' = Regularized(private_key) /\ private_key' = private_key /\ bit' = top
      /\ R' = <<ApplyZ(CURVE_G, double.z), double.point>>
      /\ private_key \in 0 .. CURVE_N - 1 /\ zz \in 1 .. CURVE_P - 1
  BY DEF KeyInv, BeginMult
<1>2. CURVE_N \in Nat /\ CURVE_N > 3 /\ CURVE_P \in Nat /\ 1 \in 1 .. CURVE_N - 1
      /\ 1 \in 0 .. CURVE_N - 1 /\ 1 \in 1 .. CURVE_N - 2 /\ 1 + 1 = 2
  BY CurveNumbers
<1>3. /\ Times[1] = CURVE_G /\ CURVE_G \in Coordinates /\ (2 * CURVE_G[2]) % CURVE_P # 0
      /\ Plus(CURVE_G, CURVE_G) = Times[2]
  <2>1. (1 + 1) % CURVE_N = 2
    <3>1. 2 \in 0 .. CURVE_N - 1
      BY <1>2
    <3> QED BY <1>2, <3>1, BelowN
  <2>2. Plus(Times[1], Times[1]) = Times[(1 + 1) % CURVE_N]
    BY <1>2, TimesGroup
  <2> QED BY <1>2, <2>1, <2>2, TimesStart, TimesGroup, NotOpposite
<1>4. zz \in Int /\ ~ Eq(zz, 0)
  BY <1>1, NotZero
<1> HIDE DEF zz
<1>5. /\ w \in Int /\ ~ Eq(w, 0)
      /\ double = [point |-> ApplyZ(Times[2], w), z |-> w]
  <2>1. p = ApplyZ(CURVE_G, zz) /\ w = (p[2] * zz) % CURVE_P
    OBVIOUS
  <2> HIDE DEF p, w
  <2>2. /\ w \in 0 .. CURVE_P - 1 /\ ~ Eq(w, 0)
        /\ DoubleJacobian(p, zz) = [point |-> ApplyZ(Plus(CURVE_G, CURVE_G), w), z |-> w]
    BY <1>3, <1>4, <2>1, DoubleStands
  <2> QED BY <1>2, <1>3, <2>2
<1> HIDE DEF p, w, double
<1>6. R' = <<ApplyZ(Times[1], w), ApplyZ(Times[2], w)>>
  <2>1. double.z = w /\ double.point = ApplyZ(Times[2], w)
    BY <1>5
  <2> QED BY <1>1, <1>3, <2>1
<1>7. OnTrack(R', 1, w)
  BY <1>2, <1>5, <1>6 DEF OnTrack
<1>8. Prefix(scalar', top) % CURVE_N = 1
  <2>1. scalar' \in Nat /\ scalar' < FULL
    BY <1>1, RegularizedIs
  <2>2. Prefix(scalar', top) = 1
    BY <2>1, PrefixStart
  <2> QED BY <1>2, <2>2, BelowN
<1>9. top \in 0 .. num_n_bits - 1
  BY OrderBits
<1>10. OnTrack(R', Prefix(scalar', bit') % CURVE_N, w)
  BY <1>1, <1>7, <1>8
<1> QED BY <1>1, <1>9, <1>10 DEF InLadder, Prefix

\* A round of the ladder.
LEMMA LadderGoesOn ==
  ASSUME KeyInv, Ladder
  PROVE  InLadder'
<1> DEFINE set == TestBit(scalar, bit)
           to == Doubled(set)
           added == XYcZ_addC(R[to], R[3 - to])
           k == Prefix(scalar, bit)
           next == (2 * k + Increment(set)) % CURVE_N
<1>1. /\ kpc = "ladder" /\ bit > 0 /\ bit' = bit - 1
      /\ R' = Rung(to, added.diff, added.sum)
      /\ scalar' = scalar /\ private_key' = private_key
      /\ InLadder /\ private_key \in 0 .. CURVE_N - 1
  BY DEF KeyInv, Ladder
<1>2. /\ scalar = Regularized(private_key) /\ bit \in 1 .. num_n_bits - 1
      /\ bit - 1 \in 0 .. num_n_bits - 1
  BY <1>1, OrderBits DEF InLadder
<1>3. PICK zz : OnTrack(R, k % CURVE_N, zz)
  BY <1>1 DEF InLadder
<1>4. /\ k \in 1 .. CURVE_N - 1 /\ k % CURVE_N = k
      /\ Prefix(scalar, bit - 1) = 2 * k + BitOf(scalar, bit)
      /\ k + k + 1 = CURVE_N => bit - 1 = 0 /\ private_key \in RefusedKeys
  BY <1>1, <1>2, EarlyNumbers
<1>5. OnTrack(R, k, zz)
  BY <1>3, <1>4
<1>6. set \in BOOLEAN /\ BitOf(scalar, bit) = Increment(set)
  BY DEF BitOf, Increment, TestBit
<1>7. Prefix(scalar', bit') % CURVE_N = next
  BY <1>1, <1>4, <1>6
<1>8. k \in 1 .. CURVE_N - 2 /\ k \in Int
  BY <1>5 DEF OnTrack
<1> HIDE DEF set, k
<1>9. CASE k + k + 1 # CURVE_N
  <2>1. PICK w \in Int : /\ ~ Eq(w, 0)
                         /\ added.sum = ApplyZ(Times[(k + (k + 1)) % CURVE_N], w)
                         /\ added.diff = ApplyZ(Times[Difference(set)], w)
    BY <1>5, <1>6, <1>9, FirstAdd
  <2> DEFINE sum1 == added.sum
             diff == added.diff
             w2 == w * (diff[1] - sum1[1])
  <2>2. /\ sum1 = ApplyZ(Times[(k + (k + 1)) % CURVE_N], w)
        /\ diff = ApplyZ(Times[Difference(set)], w)
        /\ R' = Rung(to, diff, sum1)
    BY <1>1, <2>1
  <2> HIDE DEF sum1, diff
  <2>3. OnTrack(Rung(to, diff, sum1), next, w2)
    BY <1>6, <1>8, <1>9, <2>1, <2>2, SecondAdd
  <2> HIDE DEF w2
  <2>4. OnTrack(R', Prefix(scalar', bit') % CURVE_N, w2)
    BY <1>7, <2>2, <2>3
  <2> QED BY <1>1, <1>2, <2>4 DEF InLadder, Prefix
<1>10. CASE k + k + 1 = CURVE_N
  <2>1. bit' = 0 /\ private_key' \in RefusedKeys'
    BY <1>1, <1>4, <1>10 DEF RefusedKeys
  <2> DEFINE P1 == Times[k]
             P2 == Times[k + 1]
  <2>2. /\ P1 \in Coordinates /\ P2 \in Coordinates /\ Opposite(P1, P2)
    <3>1. k \in 1 .. CURVE_N - 1 /\ CURVE_N - k = k + 1
      BY <1>4, <1>8, <1>10, CurveNumbers
    <3> QED BY <3>1, TimesOpposite, TimesGroup
  <2>3. zz \in Int /\ R[1] = ApplyZ(P1, zz) /\ R[2] = ApplyZ(P2, zz)
    BY <1>5 DEF OnTrack
  <2> HIDE DEF P1, P2
  <2>4. R[1] \in Coordinates /\ R[2] \in Coordinates /\ Opposite(R[1], R[2])
    BY <2>2, <2>3, ApplyZIs, ScaledOpposite
  <2>5. Opposite(R[2], R[1])
    <3>1. R[2][2] + R[1][2] = R[1][2] + R[2][2]
      BY <2>4, PointNumbers
    <3> QED BY <2>4, <3>1 DEF Opposite
  <2>6. to \in 1 .. 2 /\ ((to = 1 /\ 3 - to = 2) \/ (to = 2 /\ 3 - to = 1))
    BY DEF Doubled
  <2> DEFINE p == R[to]
             q == R[3 - to]
  <2>7. p \in Coordinates /\ q \in Coordinates /\ Opposite(p, q)
    BY <2>4, <2>5, <2>6
  <2> HIDE DEF p, q, to
  <2>8. PointsLost(Rung(to, XYcZ_addC(p, q).diff, XYcZ_addC(p, q).sum))
    BY <2>6, <2>7, OppositeRung
  <2>9. R' = Rung(to, XYcZ_addC(p, q).diff, XYcZ_addC(p, q).sum)
    BY <1>1 DEF p, q
  <2>10. PointsLost(R')
    BY <2>8, <2>9
  <2> QED BY <1>1, <1>2, <2>1, <2>10 DEF InLadder, PointsLost
<1> QED BY <1>9, <1>10

\* The last bit.
LEMMA LadderEnds ==
  ASSUME KeyInv, LastBit
  PROVE  PublicKeyRight'
<1> DEFINE set == TestBit(scalar, 0)
           k == Prefix(scalar, 0) % CURVE_N
           final == LastPoint(R, set)
<1>1. /\ kpc = "ladder" /\ bit = 0 /\ InLadder /\ private_key \in 0 .. CURVE_N - 1
      /\ public_key' = final /\ private_key' = private_key
      /\ kpc' = IF final = <<0, 0>> THEN "refused" ELSE "done"
  BY DEF KeyInv, LastBit, LastPoint
<1>2. scalar = Regularized(private_key)
  BY <1>1 DEF InLadder
<1>3. set \in BOOLEAN /\ BitOf(scalar, 0) = Increment(set)
  BY DEF BitOf, Increment, TestBit
<1>4. /\ (2 * k + BitOf(scalar, 0)) % CURVE_N = private_key
      /\ k \in 1 .. CURVE_N - 2 => k + k + 1 # CURVE_N /\ private_key \notin RefusedKeys
  BY <1>1, <1>2, LastNumbers
<1> HIDE DEF set, k, final
<1>5. ASSUME NEW zz, OnTrack(R, k, zz)
      PROVE  /\ final = Times[private_key] /\ private_key \notin RefusedKeys
             /\ final # <<0, 0>>
  <2>1. k \in 1 .. CURVE_N - 2
    BY <1>5 DEF OnTrack
  <2>2. private_key \in 1 .. CURVE_N - 2 /\ final = Times[private_key]
    BY <1>3, <1>4, <1>5, <2>1, LastOnTrack DEF final
  <2>3. private_key \in 1 .. CURVE_N - 1
    BY <2>2, CurveNumbers
  <2>4. (2 * Times[private_key][2]) % CURVE_P # 0
    BY <2>3, NotOpposite
  <2>5. (2 * 0) % CURVE_P = 0
    BY ZeroPoint
  <2>6. final # <<0, 0>>
    BY <2>2, <2>4, <2>5
  <2> QED BY <1>4, <2>1, <2>2, <2>6
<1>6. ASSUME private_key \in RefusedKeys, PointsLost(R)
      PROVE  final = <<0, 0>>
  BY <1>3, <1>6, LastLost DEF final
<1>7. (\E zz : OnTrack(R, k, zz)) \/ (private_key \in RefusedKeys /\ PointsLost(R))
  BY <1>1 DEF InLadder, k
<1>8. CASE \E zz : OnTrack(R, k, zz)
  <2>1. /\ final = Times[private_key] /\ private_key \notin RefusedKeys
        /\ final # <<0, 0>>
    BY <1>5, <1>8
  <2>2. kpc' = "done" /\ public_key' = Times[private_key']
    BY <1>1, <2>1
  <2> QED BY <1>1, <2>1, <2>2 DEF PublicKeyRight, RefusedKeys
<1>9. CASE private_key \in RefusedKeys /\ PointsLost(R)
  <2>1. kpc' = "refused"
    BY <1>1, <1>6, <1>9
  <2> QED BY <1>1, <1>9, <2>1 DEF PublicKeyRight, RefusedKeys
<1> QED BY <1>7, <1>8, <1>9

\* The computation begins with a private key below the order.
LEMMA KeyStart == KeyInit => KeyInv
<1> SUFFICES ASSUME KeyInit
             PROVE  KeyInv
  OBVIOUS
<1>1. private_key \in 0 .. CURVE_N - 1
  BY MultAssumption DEF KeyInit
<1>2. initial_Z \in 1 .. CURVE_P - 1
  BY CurveNumbers DEF KeyInit
<1>3. kpc # "ladder" /\ PublicKeyRight
  BY DEF KeyInit, PublicKeyRight
<1> QED BY <1>1, <1>2, <1>3 DEF KeyInv

\* Every step keeps the invariant.
LEMMA KeyStep == KeyInv /\ [KeyNext]_keyVars => KeyInv'
<1> SUFFICES ASSUME KeyInv, [KeyNext]_keyVars
             PROVE  KeyInv'
  OBVIOUS
<1>1. CASE DrawZ
  <2>1. PICK random \in RandomWords :
          LET masked == random % Power(2, NumBits(CURVE_P)) IN
            IF masked # 0 /\ masked < CURVE_P
              THEN initial_Z' = masked /\ kpc' = "begin" /\ UNCHANGED tries
              ELSE tries' = tries + 1 /\ UNCHANGED <<initial_Z, kpc>>
    BY <1>1 DEF DrawZ
  <2> DEFINE size == Power(2, NumBits(CURVE_P))
             masked == random % size
  <2>2. random \in Nat /\ size \in Nat /\ size > 0 /\ CURVE_P \in Nat
    <3>1. random \in 0 .. FULL - 1
      BY MultAssumption
    <3>2. CURVE_P \in Nat /\ FULL \in Nat
      BY CurveNumbers, OrderBits
    <3>3. NumBits(CURVE_P) \in Nat
      BY <3>2, NumBitsRight
    <3>4. size \in Nat /\ size > 0
      BY <3>3, PowerPositive
    <3>5. random \in Nat
      BY <3>1, <3>2
    <3> QED BY <3>2, <3>4, <3>5
  <2> HIDE DEF size
  <2>3. masked \in Nat
    BY <2>2
  <2>4. initial_Z' \in 1 .. CURVE_P - 1 /\ kpc' \in {"begin", "draw"}
    <3>1. CASE masked # 0 /\ masked < CURVE_P
      <4>1. initial_Z' = masked /\ kpc' = "begin"
        BY <2>1, <3>1 DEF size
      <4> HIDE DEF masked
      <4> QED BY <2>2, <2>3, <3>1, <4>1
    <3>2. CASE ~ (masked # 0 /\ masked < CURVE_P)
      <4>1. initial_Z' = initial_Z /\ kpc' = kpc /\ kpc = "draw"
        BY <1>1, <2>1, <3>2 DEF size, DrawZ
      <4> QED BY <4>1 DEF KeyInv
    <3> QED BY <3>1, <3>2
  <2> HIDE DEF masked
  <2>5. private_key' = private_key
    BY <1>1 DEF DrawZ
  <2> QED BY <2>4, <2>5 DEF KeyInv, PublicKeyRight
<1>2. CASE NoRandom
  BY <1>2 DEF NoRandom, KeyInv, PublicKeyRight
<1>3. CASE BeginMult
  <2>1. InLadder' /\ kpc' = "ladder" /\ private_key' = private_key /\ initial_Z' = initial_Z
    BY <1>3, LadderBegins DEF BeginMult
  <2> QED BY <2>1 DEF KeyInv, PublicKeyRight
<1>4. CASE Ladder
  <2>1. InLadder' /\ kpc' = "ladder" /\ private_key' = private_key /\ initial_Z' = initial_Z
    BY <1>4, LadderGoesOn DEF Ladder
  <2> QED BY <2>1 DEF KeyInv, PublicKeyRight
<1>5. CASE LastBit
  <2>1. PublicKeyRight' /\ kpc' # "ladder" /\ private_key' = private_key /\ initial_Z' = initial_Z
    BY <1>5, LadderEnds DEF LastBit
  <2> QED BY <2>1 DEF KeyInv
<1>6. CASE UNCHANGED keyVars
  <2>1. InLadder => InLadder'
    BY <1>6 DEF keyVars, InLadder, RefusedKeys, Prefix, PointsLost
  <2> QED BY <1>6, <2>1 DEF keyVars, KeyInv, PublicKeyRight
<1> QED BY <1>1, <1>2, <1>3, <1>4, <1>5, <1>6 DEF KeyNext

(***************************************************************************)
(* For every curve of the form of secp256k1 and every initial Z: a public  *)
(* key that is returned is the generator times the private key, and only   *)
(* 0, 1, n - 2 and n - 1 are refused (uECC.c:862-972).                     *)
(***************************************************************************)
THEOREM PublicKeyProved == KeySpec => []PublicKeyRight
<1>1. KeyInv => PublicKeyRight
  BY DEF KeyInv
<1> QED BY <1>1, KeyStart, KeyStep, PTL DEF KeySpec

-----------------------------------------------------------------------------
(* Fermat's little theorem, for the prime of the curve: the rows of Pascal's *)
(* triangle are the digits of the powers of 1 + x to the base x.             *)

\* The row that follows a row.
NextRow(row) == [k \in Nat |-> row[k] + (IF k = 0 THEN 0 ELSE row[k - 1])]

\* The rows up to n.
Pascal(C, n) ==
  /\ C \in [0 .. n -> [Nat -> Nat]]
  /\ C[0] = [k \in Nat |-> IF k = 0 THEN 1 ELSE 0]
  /\ \A m \in 0 .. n - 1 : C[m + 1] = NextRow(C[m])

\* They exist.
LEMMA PascalExists ==
  ASSUME NEW n \in Nat
  PROVE  \E C : Pascal(C, n)
<1> DEFINE A == [Nat -> Nat]
           start == [k \in Nat |-> IF k = 0 THEN 1 ELSE 0]
           step == [m \in 1 .. n |-> [row \in A |-> NextRow(row)]]
<1>1. start \in A
  OBVIOUS
<1>2. ASSUME NEW row \in A
      PROVE  NextRow(row) \in A
  <2>1. ASSUME NEW k \in Nat
        PROVE  row[k] + (IF k = 0 THEN 0 ELSE row[k - 1]) \in Nat
    <3>1. CASE k = 0
      BY <3>1
    <3>2. CASE k # 0
      <4>1. k - 1 \in Nat
        BY <3>2
      <4>2. row[k] \in Nat /\ row[k - 1] \in Nat
        BY <4>1
      <4> QED BY <3>2, <4>2
    <3> QED BY <3>1, <3>2
  <2> QED BY <2>1 DEF NextRow
<1>3. step \in [1 .. n -> [A -> A]]
  BY <1>2
<1>4. \A m \in 1 .. n : \A row \in A : step[m][row] = NextRow(row)
  OBVIOUS
<1> HIDE DEF step, start, A
<1>5. PICK C : Unfolds(C, n, A, start, step)
  BY <1>1, <1>3, Recursion
<1>6. C \in [0 .. n -> A] /\ C[0] = start /\ \A k \in 1 .. n : C[k] = step[k][C[k - 1]]
  BY <1>5 DEF Unfolds
<1>7. ASSUME NEW m \in 0 .. n - 1
      PROVE  C[m + 1] = NextRow(C[m])
  <2>1. m + 1 \in 1 .. n /\ (m + 1) - 1 = m /\ m \in 0 .. n
    OBVIOUS
  <2>2. C[m] \in A /\ C[m + 1] = step[m + 1][C[m]]
    BY <1>6, <2>1
  <2> QED BY <1>4, <2>1, <2>2
<1>8. Pascal(C, n)
  BY <1>6, <1>7 DEF Pascal, A, start
<1> QED BY <1>8

\* A row from the row before it.
LEMMA PascalSteps ==
  ASSUME NEW n \in Nat, NEW C, Pascal(C, n), NEW m \in 0 .. n - 1
  PROVE  /\ C[m] \in [Nat -> Nat] /\ C[m + 1] \in [Nat -> Nat]
         /\ C[m + 1][0] = C[m][0]
         /\ \A k \in Nat : C[m + 1][k + 1] = C[m][k + 1] + C[m][k]
<1>1. m \in 0 .. n /\ m + 1 \in 0 .. n
  OBVIOUS
<1>2. C[m] \in [Nat -> Nat] /\ C[m + 1] \in [Nat -> Nat] /\ C[m + 1] = NextRow(C[m])
  BY <1>1 DEF Pascal
<1>3. C[m + 1][0] = C[m][0]
  <2>1. C[m + 1][0] = C[m][0] + 0 /\ C[m][0] \in Nat
    BY <1>2 DEF NextRow
  <2> QED BY <2>1
<1>4. ASSUME NEW k \in Nat
      PROVE  C[m + 1][k + 1] = C[m][k + 1] + C[m][k]
  <2>1. k + 1 \in Nat /\ k + 1 # 0 /\ (k + 1) - 1 = k
    OBVIOUS
  <2> QED BY <1>2, <2>1 DEF NextRow
<1> QED BY <1>2, <1>3, <1>4

\* A row begins and ends with 1.
LEMMA PascalEnds ==
  ASSUME NEW n \in Nat, NEW C, Pascal(C, n)
  PROVE  \A m \in 0 .. n : /\ C[m][0] = 1 /\ C[m][m] = 1
                           /\ \A k \in Nat : k > m => C[m][k] = 0
<1> DEFINE Ends(m) == /\ C[m][0] = 1 /\ C[m][m] = 1
                      /\ \A k \in Nat : k > m => C[m][k] = 0
           T == {m \in Nat : m <= n => Ends(m)}
<1>1. 0 \in T
  <2>1. Ends(0)
    BY DEF Pascal
  <2> HIDE DEF Ends
  <2> QED BY <2>1
<1>2. ASSUME NEW m \in Nat, m \in T
      PROVE  m + 1 \in T
  <2> SUFFICES ASSUME m + 1 <= n
               PROVE  Ends(m + 1)
    <3> HIDE DEF Ends
    <3> QED OBVIOUS
  <2>1. m \in 0 .. n - 1 /\ Ends(m)
    BY <1>2
  <2>2. /\ C[m] \in [Nat -> Nat] /\ C[m + 1][0] = C[m][0]
        /\ \A k \in Nat : C[m + 1][k + 1] = C[m][k + 1] + C[m][k]
    BY <2>1, PascalSteps
  <2>3. C[m + 1][m + 1] = 1
    <3>1. C[m][m + 1] = 0 /\ C[m][m] = 1
      BY <2>1
    <3> QED BY <2>2, <3>1
  <2>4. ASSUME NEW k \in Nat, k > m + 1
        PROVE  C[m + 1][k] = 0
    <3>1. k - 1 \in Nat /\ (k - 1) + 1 = k /\ k - 1 > m /\ k > m
      BY <2>4
    <3>2. C[m][k] = 0 /\ C[m][k - 1] = 0
      BY <2>1, <3>1
    <3>3. C[m + 1][k] = C[m][k] + C[m][k - 1]
      BY <2>2, <3>1
    <3> QED BY <3>2, <3>3
  <2> QED BY <2>1, <2>2, <2>3, <2>4
<1>3. T = Nat
  <2> HIDE DEF T
  <2>1. T \in SUBSET Nat
    BY DEF T
  <2> QED BY <1>1, <1>2, <2>1, Induction
<1>4. ASSUME NEW m \in 0 .. n
      PROVE  Ends(m)
  <2>1. m \in T /\ m <= n
    BY <1>3
  <2> HIDE DEF Ends
  <2> QED BY <2>1
<1> QED BY <1>4

\* The step of the next lemma: what is known of the row before, and the next row.
AbsorbedTwice(m, k, c, d, lower, upper, entry) ==
  /\ m \in Nat /\ k \in Nat /\ c \in Nat /\ d \in Nat /\ lower \in Nat /\ upper \in Nat
  /\ k * c = (m + 1) * lower
  /\ (k + 1) * d = (m + 1) * upper
  /\ c = upper + lower /\ entry = d + c

\* As the binomial coefficients do.
LEMMA AbsorbNext ==
  ASSUME NEW m, NEW k, NEW c, NEW d, NEW lower, NEW upper, NEW entry,
         AbsorbedTwice(m, k, c, d, lower, upper, entry)
  PROVE  (k + 1) * entry = (m + 2) * c
<1>1. /\ m \in Nat /\ k \in Nat /\ c \in Nat /\ d \in Nat /\ lower \in Nat /\ upper \in Nat
      /\ k * c = (m + 1) * lower
      /\ (k + 1) * d = (m + 1) * upper
      /\ c = upper + lower /\ entry = d + c
  BY Zenon DEF AbsorbedTwice
<1>2. (k + 1) * entry = (k + 1) * d + (k + 1) * c
  BY <1>1
<1>3. (k + 1) * c = k * c + c
  BY <1>1
<1>4. (m + 1) * c = (m + 1) * upper + (m + 1) * lower
  BY <1>1
<1>5. (m + 2) * c = (m + 1) * c + c
  BY <1>1
<1> QED BY <1>1, <1>2, <1>3, <1>4, <1>5

\* k times an entry is the number of its row times the entry above it.
LEMMA PascalAbsorbs ==
  ASSUME NEW n \in Nat, NEW C, Pascal(C, n)
  PROVE  \A m \in 0 .. n - 1 : \A k \in Nat : (k + 1) * C[m + 1][k + 1] = (m + 1) * C[m][k]
<1> DEFINE Absorbs(m) == \A k \in Nat : (k + 1) * C[m + 1][k + 1] = (m + 1) * C[m][k]
           T == {m \in Nat : m <= n - 1 => Absorbs(m)}
<1>1. 0 \in T
  <2> SUFFICES ASSUME 0 <= n - 1, NEW k \in Nat
               PROVE  (k + 1) * C[0 + 1][k + 1] = (0 + 1) * C[0][k]
    OBVIOUS
  <2>1. C[0] \in [Nat -> Nat] /\ C[0 + 1][k + 1] = C[0][k + 1] + C[0][k]
    BY PascalSteps
  <2>2. C[0][k + 1] = 0 /\ (k # 0 => C[0][k] = 0)
    BY PascalEnds
  <2>3. C[0][k] \in Nat
    BY <2>1
  <2>4. CASE k = 0
    BY <2>1, <2>2, <2>3, <2>4
  <2>5. CASE k # 0
    BY <2>1, <2>2, <2>5
  <2> QED BY <2>4, <2>5
<1>2. ASSUME NEW m \in Nat, m \in T
      PROVE  m + 1 \in T
  <2> SUFFICES ASSUME m + 1 <= n - 1, NEW k \in Nat
               PROVE  (k + 1) * C[(m + 1) + 1][k + 1] = ((m + 1) + 1) * C[m + 1][k]
    OBVIOUS
  <2>1. m \in 0 .. n - 1 /\ m + 1 \in 0 .. n - 1 /\ m + 1 \in 0 .. n /\ Absorbs(m)
    BY <1>2
  <2>0. /\ C[m] \in [Nat -> Nat] /\ C[m + 1] \in [Nat -> Nat]
        /\ \A j \in Nat : C[m + 1][j + 1] = C[m][j + 1] + C[m][j]
    <3>1. m \in 0 .. n - 1
      OBVIOUS
    <3> HIDE DEF T, Absorbs
    <3> QED BY <3>1, PascalSteps, SMTT(30)
  <2> DEFINE row0 == C[m]
             row1 == C[m + 1]
             row2 == C[(m + 1) + 1]
  <2>2. /\ row0 \in [Nat -> Nat] /\ row1 \in [Nat -> Nat]
        /\ \A j \in Nat : row1[j + 1] = row0[j + 1] + row0[j]
    BY <2>0
  <2>3. /\ row2[k + 1] = row1[k + 1] + row1[k] /\ row1[0] = 1
    BY <2>1, PascalSteps, PascalEnds
  <2>4. (k + 1) * row1[k + 1] = (m + 1) * row0[k]
    BY <2>1
  <2>5. CASE k = 0
    <3>1. row0[0] = 1
      BY <2>1, PascalEnds
    <3>2. row1[1] \in Nat
      BY <2>2
    <3> HIDE DEF row0, row1, row2
    <3>3. row2[1] = row1[1] + row1[0] /\ 1 * row1[1] = (m + 1) * row0[0]
      BY <2>3, <2>4, <2>5
    <3>4. row2[1] = m + 2
      BY <2>3, <3>1, <3>2, <3>3
    <3>5. (k + 1) * row2[k + 1] = ((m + 1) + 1) * row1[k]
      BY <2>3, <2>5, <3>4
    <3> QED BY <3>5 DEF row1, row2
  <2>6. CASE k # 0
    <3> DEFINE c == row1[k]
               d == row1[k + 1]
               lower == row0[k - 1]
               upper == row0[k]
               entry == row2[k + 1]
    <3>1. k - 1 \in Nat /\ (k - 1) + 1 = k
      BY <2>6
    <3>2. k * c = (m + 1) * lower
      <4>1. ((k - 1) + 1) * row1[(k - 1) + 1] = (m + 1) * row0[k - 1]
        BY <2>1, <3>1
      <4> QED BY <3>1, <4>1
    <3>3. c = upper + lower
      <4> HIDE DEF row0, row1, row2
      <4> QED BY <2>2, <3>1
    <3>4. c \in Nat /\ d \in Nat /\ lower \in Nat /\ upper \in Nat
      <4> HIDE DEF row0, row1, row2
      <4> QED BY <2>2, <3>1
    <3>5. (k + 1) * d = (m + 1) * upper /\ entry = d + c
      BY <2>3, <2>4
    <3> HIDE DEF c, d, lower, upper, entry
    <3>6. AbsorbedTwice(m, k, c, d, lower, upper, entry)
      BY <3>2, <3>3, <3>4, <3>5 DEF AbsorbedTwice
    <3>7. (k + 1) * entry = (m + 2) * c
      BY <3>6, AbsorbNext
    <3>8. m + 2 = (m + 1) + 1
      OBVIOUS
    <3> QED BY <3>7, <3>8 DEF entry, c
  <2> QED BY <2>5, <2>6
<1>3. T = Nat
  <2> HIDE DEF T
  <2>1. T \in SUBSET Nat
    BY DEF T
  <2> QED BY <1>1, <1>2, <2>1, Induction
<1>4. ASSUME NEW m \in 0 .. n - 1
      PROVE  Absorbs(m)
  <2>1. m \in T /\ m <= n - 1
    BY <1>3
  <2> HIDE DEF Absorbs
  <2> QED BY <2>1
<1> QED BY <1>4

\* Two numbers with as many digits are added digit by digit.
LEMMA NumbersPlus ==
  ASSUME NEW base \in Nat, NEW x \in Seq(Nat), NEW y \in Seq(Nat), NEW w \in Seq(Nat),
         Len(x) = Len(w), Len(y) = Len(w),
         \A k \in 1 .. Len(w) : w[k] = x[k] + y[k]
  PROVE  NumberOf(w, base) = NumberOf(x, base) + NumberOf(y, base)
<1> DEFINE c == [k \in 0 .. Len(w) |-> 0]
           n == Len(w)
<1>1. n \in Nat
  OBVIOUS
<1>2. c \in [0 .. Len(w) -> Nat] /\ c[0] = 0 /\ c[Len(w)] = 0
  BY <1>1
<1>3. ASSUME NEW k \in 1 .. Len(w)
      PROVE  w[k] + base * c[k] = x[k] + y[k] + c[k - 1]
  <2>1. k \in 0 .. Len(w) /\ k - 1 \in 0 .. Len(w)
    BY <1>1
  <2>2. c[k] = 0 /\ c[k - 1] = 0
    BY <2>1
  <2> HIDE DEF c
  <2>3. w[k] \in Nat /\ x[k] \in Nat /\ y[k] \in Nat /\ w[k] = x[k] + y[k]
    <3>1. w[k] = x[k] + y[k]
      OBVIOUS
    <3>2. k \in 1 .. Len(w) /\ k \in 1 .. Len(x) /\ k \in 1 .. Len(y)
      OBVIOUS
    <3>3. w[k] \in Nat
      BY <3>2
    <3>4. x[k] \in Nat
      BY <3>2
    <3>5. y[k] \in Nat
      BY <3>2
    <3> QED BY <3>1, <3>3, <3>4, <3>5
  <2> QED BY <2>2, <2>3
<1> HIDE DEF c
<1>4. Carries(base, x, y, w, c)
  BY <1>3 DEF Carries
<1>5. SumSoFar(NumberOf(x, base) + c[0], NumberOf(y, base), NumberOf(w, base),
               c[Len(w)], Power(base, Len(w)))
  BY <1>2, <1>4, NumbersSum
<1>6. /\ NumberOf(x, base) \in Nat /\ NumberOf(y, base) \in Nat /\ NumberOf(w, base) \in Nat
      /\ Power(base, Len(w)) \in Nat
  BY <1>1, NumberSteps, PowerSteps
<1>7. NumberOf(w, base) + c[Len(w)] * Power(base, Len(w))
        = (NumberOf(x, base) + c[0]) + NumberOf(y, base)
  BY <1>5 DEF SumSoFar
<1> QED BY <1>2, <1>6, <1>7

\* A number of one digit.
LEMMA SingleDigit ==
  ASSUME NEW base \in Nat, NEW d \in Nat
  PROVE  <<d>> \in Seq(Nat) /\ Len(<<d>>) = 1 /\ NumberOf(<<d>>, base) = d
<1>1. <<d>> = Append(<< >>, d) /\ << >> \in Seq(Nat) /\ Len(<< >>) = 0
  OBVIOUS
<1>2. NumberOf(<<d>>, base) = NumberOf(<< >>, base) + d * Power(base, 0)
  <2>1. NumberOf(Append(<< >>, d), base) = NumberOf(<< >>, base) + d * Power(base, Len(<< >>))
    BY <1>1, NumberSteps, Zenon
  <2> QED BY <1>1, <2>1
<1>3. NumberOf(<< >>, base) = 0 /\ Power(base, 0) = 1
  BY NumberSteps, PowerSteps
<1> QED BY <1>2, <1>3

\* A row of the triangle as digits.
RowDigits(row, m) == [k \in 1 .. m + 1 |-> row[k - 1]]

\* They are numbers.
LEMMA RowDigitsType ==
  ASSUME NEW row \in [Nat -> Nat], NEW m \in Nat
  PROVE  /\ RowDigits(row, m) \in Seq(Nat) /\ Len(RowDigits(row, m)) = m + 1
         /\ \A k \in 1 .. m + 1 : RowDigits(row, m)[k] = row[k - 1]
<1>1. ASSUME NEW k \in 1 .. m + 1
      PROVE  row[k - 1] \in Nat
  <2>1. k - 1 \in Nat
    OBVIOUS
  <2> QED BY <2>1
<1>2. RowDigits(row, m) \in [1 .. m + 1 -> Nat] /\ m + 1 \in Nat
  BY <1>1 DEF RowDigits
<1> QED BY <1>2 DEF RowDigits

\* To the base x the row of m stands for 1 + x to the m.
LEMMA PascalNumber ==
  ASSUME NEW n \in Nat, NEW C, Pascal(C, n), NEW x \in Nat
  PROVE  \A m \in 0 .. n : NumberOf(RowDigits(C[m], m), x) = Power(1 + x, m)
<1> DEFINE Stands(m) == NumberOf(RowDigits(C[m], m), x) = Power(1 + x, m)
           T == {m \in Nat : m <= n => Stands(m)}
<1>1. 0 \in T
  <2>1. C[0] \in [Nat -> Nat] /\ C[0][0] = 1
    BY PascalEnds DEF Pascal
  <2>2. RowDigits(C[0], 0) = <<1>>
    <3>1. /\ RowDigits(C[0], 0) \in Seq(Nat) /\ Len(RowDigits(C[0], 0)) = 0 + 1
          /\ \A k \in 1 .. 0 + 1 : RowDigits(C[0], 0)[k] = C[0][k - 1]
      BY <2>1, RowDigitsType
    <3>2. RowDigits(C[0], 0)[1] = C[0][0]
      BY <3>1
    <3> QED BY <2>1, <3>1, <3>2
  <2>3. NumberOf(<<1>>, x) = 1 /\ Power(1 + x, 0) = 1
    <3>1. 1 \in Nat /\ 1 + x \in Nat
      OBVIOUS
    <3>2. NumberOf(<<1>>, x) = 1
      BY <3>1, SingleDigit
    <3>3. Power(1 + x, 0) = 1
      BY <3>1, PowerSteps
    <3> QED BY <3>2, <3>3
  <2>4. Stands(0)
    BY <2>2, <2>3
  <2> HIDE DEF Stands
  <2> QED BY <2>4
<1>2. ASSUME NEW m \in Nat, m \in T
      PROVE  m + 1 \in T
  <2> SUFFICES ASSUME m + 1 <= n
               PROVE  Stands(m + 1)
    <3> HIDE DEF Stands
    <3> QED OBVIOUS
  <2>1. m \in 0 .. n - 1 /\ m \in 0 .. n /\ Stands(m)
    BY <1>2
  <2> DEFINE row == C[m]
             low == RowDigits(row, m)
             next == RowDigits(C[m + 1], m + 1)
             plain == Append(low, 0)
             moved == <<0>> \o low
  <2>2. /\ row \in [Nat -> Nat] /\ C[m + 1] \in [Nat -> Nat] /\ C[m + 1][0] = row[0]
        /\ \A k \in Nat : C[m + 1][k + 1] = row[k + 1] + row[k]
    <3> HIDE DEF T, Stands, low, next, plain, moved
    <3> QED BY <2>1, PascalSteps, SMTT(30)
  <2>3. row[m + 1] = 0
    <3>1. m + 1 \in Nat /\ m + 1 > m
      OBVIOUS
    <3> QED BY <2>1, <3>1, PascalEnds
  <2>4. low \in Seq(Nat) /\ Len(low) = m + 1 /\ \A k \in 1 .. m + 1 : low[k] = row[k - 1]
    BY <2>2, RowDigitsType
  <2>5. /\ next \in Seq(Nat) /\ Len(next) = m + 2
        /\ \A k \in 1 .. m + 2 : next[k] = C[m + 1][k - 1]
    <3>1. m + 1 \in Nat /\ (m + 1) + 1 = m + 2
      OBVIOUS
    <3> HIDE DEF row
    <3>2. /\ next \in Seq(Nat) /\ Len(next) = (m + 1) + 1
          /\ \A k \in 1 .. (m + 1) + 1 : next[k] = C[m + 1][k - 1]
      BY <2>2, <3>1, RowDigitsType
    <3> QED BY <3>1, <3>2
  <2> HIDE DEF low, next
  <2>6. /\ plain \in Seq(Nat) /\ Len(plain) = m + 2 /\ plain[m + 2] = 0
        /\ \A k \in 1 .. m + 1 : plain[k] = low[k]
    BY <2>4
  <2>7. /\ moved \in Seq(Nat) /\ Len(moved) = m + 2 /\ moved[1] = 0
        /\ \A k \in 2 .. m + 2 : moved[k] = low[k - 1]
    <3>1. <<0>> \in Seq(Nat) /\ Len(<<0>>) = 1 /\ <<0>>[1] = 0
      OBVIOUS
    <3> QED BY <2>4, <3>1
  <2> HIDE DEF plain, moved
  <2>8. ASSUME NEW k \in 1 .. m + 2
        PROVE  next[k] = plain[k] + moved[k]
    <3>1. next[k] = C[m + 1][k - 1]
      BY <2>5
    <3>2. CASE k = 1
      <4>1. 1 \in 1 .. m + 1 /\ plain[1] = row[0] /\ moved[1] = 0 /\ row[0] \in Nat
        <5> HIDE DEF row
        <5> QED BY <2>2, <2>4, <2>6, <2>7
      <4>2. next[1] = row[0]
        BY <2>2, <3>1, <3>2
      <4> HIDE DEF row
      <4> QED BY <3>2, <4>1, <4>2
    <3>3. CASE k # 1
      <4>1. k - 2 \in Nat /\ (k - 2) + 1 = k - 1 /\ k \in 2 .. m + 2 /\ k - 1 \in 1 .. m + 1
            /\ (k - 1) - 1 = k - 2
        BY <3>3
      <4> HIDE DEF row
      <4>2. next[k] = row[k - 1] + row[k - 2]
        BY <2>2, <3>1, <4>1
      <4>3. moved[k] = row[k - 2]
        BY <2>4, <2>7, <4>1
      <4>4. plain[k] = row[k - 1]
        <5>1. CASE k = m + 2
          BY <2>3, <2>6, <5>1
        <5>2. CASE k # m + 2
          <6>1. k \in 1 .. m + 1
            BY <5>2
          <6> QED BY <2>4, <2>6, <6>1
        <5> QED BY <5>1, <5>2
      <4> QED BY <4>2, <4>3, <4>4
    <3> QED BY <3>2, <3>3
  <2>9. NumberOf(next, x) = NumberOf(plain, x) + NumberOf(moved, x)
    <3>1. Len(plain) = Len(next) /\ Len(moved) = Len(next)
      BY <2>5, <2>6, <2>7
    <3>2. \A k \in 1 .. Len(next) : next[k] = plain[k] + moved[k]
      BY <2>5, <2>8
    <3>3. next \in Seq(Nat) /\ plain \in Seq(Nat) /\ moved \in Seq(Nat)
      BY <2>5, <2>6, <2>7
    <3> QED BY <3>1, <3>2, <3>3, NumbersPlus
  <2>10. NumberOf(low, x) \in Nat /\ NumberOf(plain, x) = NumberOf(low, x)
    <3>1. 0 \in Nat /\ Len(low) \in Nat
      BY <2>4
    <3>2. /\ NumberOf(low, x) \in Nat
          /\ NumberOf(plain, x) = NumberOf(low, x) + 0 * Power(x, Len(low))
      BY <2>4, <3>1, NumberSteps DEF plain
    <3>3. Power(x, Len(low)) \in Nat
      BY <3>1, PowerSteps
    <3> QED BY <3>2, <3>3
  <2>11. NumberOf(moved, x) = x * NumberOf(low, x)
    <3>1. <<0>> \in Seq(Nat) /\ Len(<<0>>) = 1 /\ NumberOf(<<0>>, x) = 0
      BY SingleDigit
    <3>2. NumberOf(moved, x) = NumberOf(<<0>>, x) + Power(x, Len(<<0>>)) * NumberOf(low, x)
      BY <2>4, <3>1, NumberConcat DEF moved
    <3>3. Power(x, 1) = x
      <4>1. Power(x, 0) = 1 /\ Power(x, 0 + 1) = x * Power(x, 0)
        BY PowerSteps
      <4> QED BY <4>1
    <3> QED BY <2>10, <3>1, <3>2, <3>3
  <2>12. NumberOf(low, x) = Power(1 + x, m)
    BY <2>1 DEF low
  <2>13. Power(1 + x, m + 1) = (1 + x) * Power(1 + x, m)
    BY PowerSteps
  <2>14. NumberOf(next, x) = Power(1 + x, m + 1)
    BY <2>9, <2>10, <2>11, <2>12, <2>13
  <2> QED BY <2>14 DEF next
<1>3. T = Nat
  <2> HIDE DEF T
  <2>1. T \in SUBSET Nat
    BY DEF T
  <2> QED BY <1>1, <1>2, <2>1, Induction
<1>4. ASSUME NEW m \in 0 .. n
      PROVE  Stands(m)
  <2>1. m \in T /\ m <= n
    BY <1>3
  <2> HIDE DEF Stands
  <2> QED BY <2>1
<1> QED BY <1>4

\* A multiple of the prime.
LEMMA EqMultiple ==
  ASSUME NEW t \in Int
  PROVE  Eq(t * CURVE_P, 0) /\ \A x \in Int : Eq(x + t * CURVE_P, x)
<1>1. CURVE_P \in Int
  BY CurveNumbers
<1>2. t * CURVE_P = 0 + t * CURVE_P
  BY <1>1
<1>3. Same(t * CURVE_P, 0, CURVE_P)
  BY <1>2 DEF Same
<1>4. \A x \in Int : Same(x + t * CURVE_P, x, CURVE_P)
  BY DEF Same
<1> QED BY <1>3, <1>4 DEF Eq

\* The prime divides all of its row but the ends.
LEMMA PrimeRow ==
  ASSUME NEW C, Pascal(C, CURVE_P), NEW k \in 1 .. CURVE_P - 1
  PROVE  C[CURVE_P][k] \in Nat /\ Eq(C[CURVE_P][k], 0)
<1> DEFINE p == CURVE_P
           c == C[p][k]
           lower == C[p - 1][k - 1]
<1>1. p \in Nat /\ p > 4 /\ p - 1 \in 0 .. p - 1 /\ (p - 1) + 1 = p
  BY CurveNumbers
<1>2. k \in Nat /\ k \in Int /\ k - 1 \in Nat /\ (k - 1) + 1 = k /\ k \in 0 .. p - 1 /\ 0 \in 0 .. p - 1
  BY <1>1
<1>3. Pascal(C, p)
  OBVIOUS
<1> HIDE DEF p
<1>4. C[p - 1] \in [Nat -> Nat] /\ C[(p - 1) + 1] \in [Nat -> Nat]
  BY <1>1, <1>3, PascalSteps
<1>5. c \in Nat /\ lower \in Nat
  BY <1>1, <1>2, <1>4
<1>6. ((k - 1) + 1) * C[(p - 1) + 1][(k - 1) + 1] = ((p - 1) + 1) * C[p - 1][k - 1]
  BY <1>1, <1>2, <1>3, PascalAbsorbs
<1>7. k * c = p * lower
  BY <1>1, <1>2, <1>6
<1> HIDE DEF c, lower
<1>8. k * c = lower * p /\ lower \in Int /\ c \in Int
  BY <1>1, <1>5, <1>7
<1>9. Eq(k * c, 0)
  BY <1>8, EqMultiple DEF p
<1>10. ~ Eq(k, 0)
  <2> SUFFICES ASSUME Eq(k, 0)
               PROVE  FALSE
    OBVIOUS
  <2>1. k % p = 0
    BY <1>2, EqRemainder DEF p
  <2>2. k % p = k
    BY <1>1, <1>2
  <2> QED BY <2>1, <2>2
<1>11. Eq(c, 0)
  BY <1>2, <1>8, <1>9, <1>10, NotZeroTimes
<1> QED BY <1>5, <1>11 DEF c, p

\* The power of a sum with 1.
LEMMA PowerOfNext ==
  ASSUME NEW x \in Nat
  PROVE  Eq(Power(1 + x, CURVE_P), 1 + Power(x, CURVE_P))
<1> DEFINE p == CURVE_P
<1>1. p \in Nat /\ p > 4 /\ p \in 0 .. p /\ p - 1 \in Nat /\ (p - 1) + 1 = p
  BY CurveNumbers
<1>2. PICK C : Pascal(C, p)
  BY <1>1, PascalExists
<1> DEFINE row == C[p]
           digits == RowDigits(row, p)
           d == [k \in 1 .. p - 1 |-> row[k] \div p]
           inner == [k \in 1 .. p - 1 |-> row[k]]
           tail == inner \o <<1>>
<1>3. row \in [Nat -> Nat] /\ row[0] = 1 /\ row[p] = 1
  <2> HIDE DEF p
  <2>1. C \in [0 .. p -> [Nat -> Nat]]
    BY <1>2 DEF Pascal
  <2>2. \A m \in 0 .. p : C[m][0] = 1 /\ C[m][m] = 1
    BY <1>1, <1>2, PascalEnds
  <2> QED BY <1>1, <2>1, <2>2
<1>4. ASSUME NEW k \in 1 .. p - 1
      PROVE  row[k] \in Nat /\ row[k] \div p \in Nat /\ row[k] = (row[k] \div p) * p
  <2>1. row[k] \in Nat /\ Eq(row[k], 0)
    BY <1>2, PrimeRow
  <2> DEFINE c == row[k]
  <2>2. c \in Int /\ 0 \in 0 .. p - 1
    BY <1>1, <2>1
  <2>3. c \in Nat /\ Eq(c, 0)
    BY <2>1
  <2> HIDE DEF c
  <2>4. c % p = 0
    BY <2>2, <2>3, EqRemainder
  <2> HIDE DEF p
  <2>5. c = p * (c \div p) + (c % p) /\ c \div p \in Nat
    BY <1>1, <2>3
  <2>6. c = (c \div p) * p
    BY <1>1, <2>4, <2>5
  <2> QED BY <2>3, <2>5, <2>6 DEF c
<1>5. /\ digits \in Seq(Nat) /\ Len(digits) = p + 1
      /\ \A k \in 1 .. p + 1 : digits[k] = row[k - 1]
  BY <1>1, <1>3, RowDigitsType
<1>6. Power(1 + x, p) = NumberOf(digits, x)
  BY <1>1, <1>2, PascalNumber
<1> HIDE DEF digits, row, p
<1>7. /\ inner \in Seq(Nat) /\ Len(inner) = p - 1 /\ d \in Seq(Nat) /\ Len(d) = p - 1
      /\ \A k \in 1 .. p - 1 : inner[k] = row[k] /\ d[k] = row[k] \div p
  <2>1. inner \in [1 .. p - 1 -> Nat] /\ d \in [1 .. p - 1 -> Nat]
    BY <1>4
  <2> QED BY <1>1, <2>1
<1> HIDE DEF inner, d
<1>8. NumberOf(inner, x) = NumberOf(d, x) * p /\ NumberOf(d, x) \in Nat /\ NumberOf(inner, x) \in Nat
  <2>1. Len(inner) = Len(d) /\ \A k \in 1 .. Len(d) : inner[k] = d[k] * p
    BY <1>4, <1>7
  <2>2. NumberOf(inner, x) = NumberOf(d, x) * p
    BY <1>1, <1>7, <2>1, NumberScale
  <2> QED BY <1>7, <2>2, NumberSteps
<1>9. 1 \in Nat /\ <<1>> \in Seq(Nat) /\ Len(<<1>>) = 1 /\ NumberOf(<<1>>, x) = 1 /\ <<1>>[1] = 1
  <2>1. 1 \in Nat
    OBVIOUS
  <2> QED BY <2>1, SingleDigit
<1>10. /\ tail \in Seq(Nat) /\ Len(tail) = p /\ tail[p] = 1
       /\ \A k \in 1 .. p - 1 : tail[k] = row[k]
  BY <1>1, <1>7, <1>9
<1>11. NumberOf(tail, x) = NumberOf(inner, x) + Power(x, p - 1)
  <2>1. NumberOf(tail, x) = NumberOf(inner, x) + Power(x, Len(inner)) * NumberOf(<<1>>, x)
    BY <1>7, <1>9, NumberConcat
  <2>2. Power(x, p - 1) \in Nat
    BY <1>1, PowerSteps
  <2> QED BY <1>7, <1>9, <2>1, <2>2
<1> HIDE DEF tail
<1>12. digits = <<1>> \o tail
  <2> DEFINE whole == <<1>> \o tail
  <2>1. /\ whole \in Seq(Nat) /\ Len(whole) = p + 1 /\ whole[1] = 1
        /\ \A k \in 2 .. p + 1 : whole[k] = tail[k - 1]
    BY <1>1, <1>9, <1>10
  <2> HIDE DEF whole
  <2>2. ASSUME NEW k \in 1 .. p + 1
        PROVE  digits[k] = whole[k]
    <3>1. digits[k] = row[k - 1]
      BY <1>5
    <3>2. CASE k = 1
      BY <1>3, <2>1, <3>1, <3>2
    <3>3. CASE k = p + 1
      <4>1. k \in 2 .. p + 1 /\ k - 1 = p
        BY <1>1, <3>3
      <4> QED BY <1>3, <1>10, <2>1, <3>1, <4>1
    <3>4. CASE k # 1 /\ k # p + 1
      <4>1. k \in 2 .. p + 1 /\ k - 1 \in 1 .. p - 1
        BY <1>1, <3>4
      <4> QED BY <1>10, <2>1, <3>1, <4>1
    <3> QED BY <3>2, <3>3, <3>4
  <2>3. digits = whole
    BY <1>1, <1>5, <2>1, <2>2
  <2> QED BY <2>3 DEF whole
<1>13. NumberOf(digits, x) = 1 + x * NumberOf(tail, x) /\ NumberOf(tail, x) \in Nat
  <2>1. NumberOf(digits, x) = NumberOf(<<1>>, x) + Power(x, Len(<<1>>)) * NumberOf(tail, x)
    BY <1>9, <1>10, <1>12, NumberConcat
  <2>2. Power(x, 1) = x
    <3>1. Power(x, 0) = 1 /\ Power(x, 0 + 1) = x * Power(x, 0)
      BY PowerSteps
    <3> QED BY <3>1
  <2>3. NumberOf(tail, x) \in Nat
    BY <1>10, NumberSteps
  <2> QED BY <1>9, <2>1, <2>2, <2>3
<1>14. Power(x, p) = x * Power(x, p - 1) /\ Power(x, p - 1) \in Nat
  <2>1. Power(x, (p - 1) + 1) = x * Power(x, p - 1) /\ Power(x, p - 1) \in Nat
    BY <1>1, PowerSteps
  <2> QED BY <1>1, <2>1
<1> DEFINE N == NumberOf(d, x)
           last == Power(x, p - 1)
<1>15. NumberOf(tail, x) = N * p + last /\ N \in Nat /\ last \in Nat
  BY <1>8, <1>11, <1>14
<1> HIDE DEF N, last
<1>16. x * (N * p + last) = (x * N) * p + x * last
  BY <1>1, <1>15
<1>17. NumberOf(digits, x) = (1 + x * last) + (x * N) * p /\ 1 + x * last \in Int /\ x * N \in Int
  BY <1>1, <1>13, <1>15, <1>16
<1>18. Eq(NumberOf(digits, x), 1 + x * last)
  BY <1>17, EqMultiple DEF p
<1>19. 1 + x * last = 1 + Power(x, p)
  BY <1>14 DEF last
<1>20. Eq(Power(1 + x, p), 1 + Power(x, p))
  BY <1>6, <1>18, <1>19
<1> QED BY <1>20 DEF p

\* Fermat's little theorem.
LEMMA Fermat == \A x \in Nat : Eq(Power(x, CURVE_P), x)
<1> DEFINE p == CURVE_P
           T == {x \in Nat : Eq(Power(x, p), x)}
<1>1. p \in Nat /\ p > 4 /\ p - 1 \in Nat /\ (p - 1) + 1 = p
  BY CurveNumbers
<1>2. 0 \in T
  <2>1. Power(0, (p - 1) + 1) = 0 * Power(0, p - 1) /\ Power(0, p - 1) \in Nat
    BY <1>1, PowerSteps
  <2>2. Power(0, p) = 0
    BY <1>1, <2>1
  <2> QED BY <2>2, EqRules
<1>3. ASSUME NEW x \in Nat, x \in T
      PROVE  x + 1 \in T
  <2>1. Eq(Power(x, p), x) /\ Power(x, p) \in Nat /\ 1 + x \in Nat /\ x + 1 = 1 + x
    BY <1>1, <1>3, PowerSteps
  <2>2. Eq(Power(1 + x, p), 1 + Power(x, p)) /\ Power(1 + x, p) \in Nat
    BY <1>1, <2>1, PowerOfNext, PowerSteps
  <2>3. Eq(1 + Power(x, p), 1 + x)
    <3>1. 1 \in Int /\ x \in Int /\ Power(x, p) \in Int /\ Eq(1, 1)
      BY <2>1, EqRules
    <3> HIDE DEF p
    <3> QED BY <2>1, <3>1, EqOperations
  <2>4. Eq(Power(1 + x, p), 1 + x)
    <3> DEFINE big == Power(1 + x, p)
               mid == 1 + Power(x, p)
               end == 1 + x
    <3>1. big \in Int /\ mid \in Int /\ end \in Int /\ Eq(big, mid) /\ Eq(mid, end)
      BY <2>1, <2>2, <2>3
    <3> HIDE DEF big, mid, end
    <3>2. Eq(big, end)
      BY <3>1, EqRules
    <3> QED BY <3>2 DEF big, end
  <2> QED BY <2>1, <2>4
<1>4. T = Nat
  <2> HIDE DEF T
  <2>1. T \in SUBSET Nat
    BY DEF T
  <2> QED BY <1>2, <1>3, <2>1, Induction
<1> QED BY <1>4

-----------------------------------------------------------------------------
(* The square root of uECC_decompress().                                   *)

\* A round of mod_sqrt_default() for the bit j.
SquareStep(x, root, j) == (root * root * IF TestBit(CURVE_P + 1, j) THEN x ELSE 1) % CURVE_P

\* The results of all rounds.
SquaresDown(x, top, f) ==
  f = [j \in 2 .. top |-> IF j = top THEN 1
                          ELSE (f[j + 1] * f[j + 1] * IF TestBit(CURVE_P + 1, j) THEN x ELSE 1)
                                 % CURVE_P]

\* They exist.
LEMMA SquaresExist ==
  ASSUME NEW x \in Nat, NEW top \in Nat, top >= 2
  PROVE  \E f \in [2 .. top -> Nat] : SquaresDown(x, top, f)
<1> DEFINE n == top - 2
           step == [k \in 1 .. n |-> [root \in Nat |-> SquareStep(x, root, top - k)]]
<1>1. \A root \in Nat : \A j \in Int : SquareStep(x, root, j) \in Nat
  <2> TAKE root \in Nat, j \in Int
  <2> DEFINE w == IF TestBit(CURVE_P + 1, j) THEN x ELSE 1
             t == root * root * w
  <2>1. w \in Nat /\ CURVE_P \in Nat /\ CURVE_P > 0
    BY CurveNumbers
  <2> HIDE DEF w
  <2>2. t \in Nat
    BY <2>1
  <2>3. SquareStep(x, root, j) = t % CURVE_P
    BY DEF SquareStep, w
  <2> HIDE DEF t
  <2> QED BY <2>1, <2>2, <2>3
<1>2. n \in Nat /\ 1 \in Nat
  OBVIOUS
<1>3. step \in [1 .. n -> [Nat -> Nat]]
  BY <1>1
<1>4. \A k \in 1 .. n : \A root \in Nat : step[k][root] = SquareStep(x, root, top - k)
  OBVIOUS
<1> HIDE DEF step, n
<1>5. PICK g : Unfolds(g, n, Nat, 1, step)
  BY <1>2, <1>3, Recursion
<1>6. /\ g \in [0 .. n -> Nat] /\ g[0] = 1
      /\ \A k \in 1 .. n : g[k] = SquareStep(x, g[k - 1], top - k)
  <2>1. g \in [0 .. n -> Nat] /\ g[0] = 1 /\ \A k \in 1 .. n : g[k] = step[k][g[k - 1]]
    BY <1>5 DEF Unfolds
  <2>2. \A k \in 1 .. n : k - 1 \in 0 .. n
    BY <1>2
  <2> QED BY <1>4, <2>1, <2>2
<1> DEFINE f == [j \in 2 .. top |-> g[top - j]]
<1>7. \A j \in 2 .. top : top - j \in 0 .. n
  BY DEF n
<1>8. f \in [2 .. top -> Nat] /\ \A j \in 2 .. top : f[j] = g[top - j]
  BY <1>6, <1>7
<1> HIDE DEF f
<1>9. ASSUME NEW j \in 2 .. top
      PROVE  f[j] = IF j = top THEN 1
                    ELSE (f[j + 1] * f[j + 1] * IF TestBit(CURVE_P + 1, j) THEN x ELSE 1)
                           % CURVE_P
  <2>1. CASE j = top
    <3>1. top - j = 0
      BY <2>1
    <3> QED BY <1>6, <1>8, <2>1, <3>1
  <2>2. CASE j # top
    <3>1. /\ j + 1 \in 2 .. top /\ top - j \in 1 .. n /\ (top - j) - 1 = top - (j + 1)
          /\ top - (top - j) = j
      BY <2>2 DEF n
    <3>2. g[top - j] = SquareStep(x, g[top - (j + 1)], j)
      BY <1>6, <3>1
    <3>3. f[j] = SquareStep(x, f[j + 1], j)
      BY <1>8, <3>1, <3>2
    <3> QED BY <2>2, <3>3 DEF SquareStep
  <2> QED BY <2>1, <2>2
<1>10. f = [j \in 2 .. top |-> f[j]]
  BY <1>8
<1>11. SquaresDown(x, top, f)
  BY <1>9, <1>10 DEF SquaresDown
<1> QED BY <1>8, <1>11

\* The bits of p + 1 that are left.
RootBits(j) == (CURVE_P + 1) \div Power(2, j)

\* All rounds together: the result is the power by (p + 1) / 4.
LEMMA RootIsPower ==
  ASSUME NEW x \in Nat
  PROVE  /\ mod_sqrt(x) \in 0 .. CURVE_P - 1
         /\ RootBits(2) \in Nat /\ Eq(mod_sqrt(x), Power(x, RootBits(2)))
<1> DEFINE p == CURVE_P
           top == NumBits(p + 1)
<1>1. p \in Nat /\ p > 4 /\ p + 1 \in Nat /\ p + 1 > 0
  BY CurveNumbers
<1>2. top \in Nat /\ p + 1 < Power(2, top)
  BY <1>1, NumBitsRight
<1>3. top > 2
  <2>1. Power(2, 0) = 1 /\ Power(2, 1) = 2 /\ Power(2, 2) = 4
    <3>1. 2 \in Nat /\ 0 \in Nat /\ 1 \in Nat /\ 0 + 1 = 1 /\ 1 + 1 = 2
      OBVIOUS
    <3>2. Power(2, 0) = 1 /\ Power(2, 0 + 1) = 2 * Power(2, 0) /\ Power(2, 1 + 1) = 2 * Power(2, 1)
      BY <3>1, PowerSteps
    <3> QED BY <3>1, <3>2
  <2> HIDE DEF top
  <2> SUFFICES ASSUME top <= 2
               PROVE  FALSE
    BY <1>2
  <2>2. top = 0 \/ top = 1 \/ top = 2
    BY <1>2
  <2> QED BY <1>1, <1>2, <2>1, <2>2
<1> DEFINE f == CHOOSE f : SquaresDown(x, top, f)
<1>4. SquaresDown(x, top, f)
  <2>1. top >= 2
    BY <1>2, <1>3
  <2> HIDE DEF top
  <2>2. \E g : SquaresDown(x, top, g)
    BY <1>2, <2>1, SquaresExist
  <2> QED BY <2>2, Zenon
<1>5. mod_sqrt(x) = f[2]
  BY DEF mod_sqrt, SquaresDown
<1> HIDE DEF f, top
<1>6. \A j \in 2 .. top :
        f[j] = IF j = top THEN 1
               ELSE (f[j + 1] * f[j + 1] * IF TestBit(p + 1, j) THEN x ELSE 1) % p
  BY <1>4 DEF SquaresDown
<1> HIDE DEF p
<1> DEFINE Right(j) == f[j] \in 0 .. p - 1 /\ RootBits(j) \in Nat /\ Eq(f[j], Power(x, RootBits(j)))
           T == {k \in Nat : k <= top - 2 => Right(top - k)}
<1>7. 0 \in T
  <2>1. f[top] = 1
    BY <1>2, <1>3, <1>6
  <2>2. RootBits(top) = 0
    <3> DEFINE w == Power(2, top)
    <3>1. w \in Nat /\ p + 1 < w
      BY <1>2, PowerSteps
    <3> HIDE DEF w
    <3>2. (p + 1) \div w = 0
      BY <1>1, <3>1
    <3> QED BY <3>2 DEF RootBits, w, p
  <2>3. Power(x, 0) = 1
    BY PowerSteps
  <2>4. Eq(1, 1)
    BY EqRules
  <2>5. Right(top)
    BY <1>1, <2>1, <2>2, <2>3, <2>4
  <2>6. top - 0 = top
    BY <1>2
  <2> HIDE DEF Right
  <2> QED BY <2>5, <2>6
<1>8. ASSUME NEW k \in Nat, k \in T
      PROVE  k + 1 \in T
  <2> SUFFICES ASSUME k + 1 <= top - 2
               PROVE  Right(top - (k + 1))
    <3> HIDE DEF Right
    <3> QED OBVIOUS
  <2> DEFINE j == top - (k + 1)
             root == f[j + 1]
             e == RootBits(j + 1)
             w == Power(x, e)
             one == BitOf(p + 1, j)
             y == IF TestBit(p + 1, j) THEN x ELSE 1
  <2>1. /\ j \in 2 .. top /\ j \in Nat /\ j # top /\ j + 1 = top - k /\ k <= top - 2
    BY <1>2
  <2>2. root \in 0 .. p - 1 /\ e \in Nat /\ Eq(root, w)
    <3>1. Right(top - k)
      <4> HIDE DEF Right
      <4> QED BY <1>8, <2>1
    <3> QED BY <2>1, <3>1
  <2>3. f[j] = (root * root * y) % p
    <3> HIDE DEF j
    <3> QED BY <1>6, <2>1
  <2>4. /\ RootBits(j) \in Nat /\ one \in 0 .. 1 /\ RootBits(j) = 2 * e + one
    <3> HIDE DEF j
    <3> QED BY <1>1, <2>1, NextBit DEF RootBits, p
  <2>5. y \in Nat /\ y = Power(x, one)
    <3>1. Power(x, 0) = 1 /\ Power(x, 0 + 1) = x * Power(x, 0)
      BY PowerSteps
    <3>2. Power(x, 1) = x
      BY <3>1
    <3> HIDE DEF j
    <3> QED BY <3>1, <3>2 DEF BitOf
  <2>6. Power(x, RootBits(j)) = w * w * y
    <3> HIDE DEF j, e, one, y
    <3>1. Power(x, e + e) = Power(x, e) * Power(x, e) /\ e + e \in Nat
      BY <2>2, PowerOfSum
    <3>2. Power(x, (e + e) + one) = Power(x, e + e) * Power(x, one)
      <4> DEFINE ee == e + e
      <4>1. ee \in Nat /\ one \in Nat
        BY <2>4, <3>1
      <4> HIDE DEF ee
      <4>2. Power(x, ee + one) = Power(x, ee) * Power(x, one)
        BY <4>1, PowerOfSum
      <4> QED BY <4>2 DEF ee
    <3>3. (e + e) + one = 2 * e + one
      BY <2>2, <2>4
    <3> QED BY <2>4, <2>5, <3>1, <3>2, <3>3
  <2>7. w \in Int
    BY <2>2, PowerSteps
  <2> HIDE DEF root, w, y, e
  <2>8. Eq(root * root, w * w) /\ root * root \in Int /\ w * w \in Int /\ root \in Int /\ y \in Int
    <3>1. root \in Int /\ y \in Int /\ Eq(root, w)
      BY <1>1, <2>2, <2>5
    <3>2. Eq(root * root, w * w)
      BY <2>7, <3>1, EqOperations, Zenon
    <3> QED BY <2>7, <3>1, <3>2
  <2>9. Eq(root * root * y, w * w * y) /\ root * root * y \in Int /\ w * w * y \in Int
    <3> DEFINE vv == root * root
               ww == w * w
    <3>1. vv \in Int /\ ww \in Int /\ Eq(vv, ww)
      BY <2>8
    <3> HIDE DEF vv, ww
    <3>2. Eq(vv * y, ww * y) /\ vv * y \in Int /\ ww * y \in Int
      BY <2>8, <3>1, EqTimes
    <3> QED BY <3>2 DEF vv, ww
  <2> DEFINE vvy == root * root * y
             wwy == w * w * y
  <2>10. vvy \in Int /\ wwy \in Int /\ Eq(vvy, wwy)
    BY <2>9
  <2>11. f[j] = vvy % p /\ Power(x, RootBits(j)) = wwy
    BY <2>3, <2>6
  <2> HIDE DEF vvy, wwy
  <2>12. f[j] \in 0 .. p - 1 /\ f[j] \in Int /\ Eq(f[j], vvy)
    BY <2>10, <2>11, EqRemainder DEF p
  <2>13. Eq(f[j], Power(x, RootBits(j)))
    BY <2>10, <2>11, <2>12, EqVia
  <2> QED BY <2>4, <2>12, <2>13
<1>9. T = Nat
  <2> HIDE DEF T
  <2>1. T \in SUBSET Nat
    BY DEF T
  <2> QED BY <1>7, <1>8, <2>1, Induction
<1>10. Right(2)
  <2>1. top - 2 \in T /\ top - (top - 2) = 2 /\ top - 2 <= top - 2
    <3>1. top - 2 \in Nat
      BY <1>2, <1>3
    <3>2. top - 2 \in T
      <4> HIDE DEF T
      <4> QED BY <1>9, <3>1
    <3> QED BY <1>2, <3>2
  <2> HIDE DEF Right
  <2>2. Right(top - (top - 2))
    BY <2>1
  <2> QED BY <2>1, <2>2
<1> QED BY <1>5, <1>10 DEF p

\* Powers of congruent numbers.
LEMMA EqPower ==
  ASSUME NEW x \in Nat, NEW y \in Nat, Eq(x, y)
  PROVE  \A n \in Nat : Eq(Power(x, n), Power(y, n))
<1> DEFINE T == {n \in Nat : Eq(Power(x, n), Power(y, n))}
<1>1. 0 \in T
  <2>1. Power(x, 0) = 1 /\ Power(y, 0) = 1 /\ Eq(1, 1)
    BY PowerSteps, EqRules
  <2> QED BY <2>1
<1>2. ASSUME NEW n \in Nat, n \in T
      PROVE  n + 1 \in T
  <2> DEFINE pow == Power(x, n)
             w == Power(y, n)
  <2>1. pow \in Int /\ w \in Int /\ Eq(pow, w) /\ x \in Int /\ y \in Int
    BY <1>2, PowerSteps
  <2>2. Power(x, n + 1) = x * pow /\ Power(y, n + 1) = y * w
    BY PowerSteps
  <2> HIDE DEF pow, w
  <2>3. Eq(x * pow, y * w)
    BY <2>1, EqOperations
  <2> QED BY <2>2, <2>3
<1>3. T = Nat
  <2> HIDE DEF T
  <2>1. T \in SUBSET Nat
    BY DEF T
  <2> QED BY <1>1, <1>2, <2>1, Induction
<1> QED BY <1>3

\* The bits that are used are (p + 1) / 4.
LEMMA RootExponent == RootBits(2) \in Nat /\ 4 * RootBits(2) = CURVE_P + 1
<1> DEFINE p == CURVE_P
<1>1. p \in Nat /\ p % 4 = 3
  BY CurveNumbers, RootAssumption
<1>2. Power(2, 2) = 4
  <2>1. 2 \in Nat /\ 0 \in Nat /\ 1 \in Nat /\ 0 + 1 = 1 /\ 1 + 1 = 2
    OBVIOUS
  <2>2. Power(2, 0) = 1 /\ Power(2, 0 + 1) = 2 * Power(2, 0) /\ Power(2, 1 + 1) = 2 * Power(2, 1)
    BY <2>1, PowerSteps
  <2> QED BY <2>1, <2>2
<1>3. RootBits(2) = (p + 1) \div 4
  BY <1>2 DEF RootBits
<1> HIDE DEF p
<1> QED BY <1>1, <1>3 DEF p

\* The square of the root of a square is that square.
LEMMA RootSquared ==
  ASSUME NEW x \in Nat, NEW y \in Nat, Eq(x, y * y)
  PROVE  mod_sqrt(x) \in 0 .. CURVE_P - 1 /\ Eq(mod_sqrt(x) * mod_sqrt(x), y * y)
<1> DEFINE e == RootBits(2)
           s1 == mod_sqrt(x)
           pow == Power(x, e)
           w == Power(y * y, e)
           p == CURVE_P
<1>1. p \in Nat /\ e \in Nat /\ 4 * e = p + 1
  BY RootExponent, CurveNumbers
<1>2. s1 \in 0 .. p - 1 /\ Eq(s1, pow)
  BY RootIsPower
<1>3. y * y \in Nat
  OBVIOUS
<1>4. pow \in Nat /\ w \in Nat /\ Eq(pow, w)
  BY <1>1, <1>3, PowerSteps, EqPower
<1>5. s1 \in Int /\ Eq(s1, w)
  <2>1. s1 \in Int
    BY <1>1, <1>2
  <2> HIDE DEF s1, pow, w
  <2> QED BY <1>2, <1>4, <2>1, EqVia
<1>6. Eq(s1 * s1, w * w) /\ s1 * s1 \in Int /\ w * w \in Int
  <2>1. s1 \in Int /\ w \in Int
    BY <1>4, <1>5
  <2> HIDE DEF s1, w
  <2>2. Eq(s1 * s1, w * w)
    BY <1>5, <2>1, EqOperations, Zenon
  <2> QED BY <2>1, <2>2
<1>7. w = Power(y, 2 * e)
  <2>1. Power(y, 2) = y * y
    <3>1. 1 \in Nat /\ 0 \in Nat /\ 0 + 1 = 1 /\ 1 + 1 = 2
      OBVIOUS
    <3>2. Power(y, 0) = 1 /\ Power(y, 0 + 1) = y * Power(y, 0) /\ Power(y, 1 + 1) = y * Power(y, 1)
      BY <3>1, PowerSteps
    <3> QED BY <3>1, <3>2
  <2>2. 2 \in Nat
    OBVIOUS
  <2> HIDE DEF e
  <2>3. Power(Power(y, 2), e) = Power(y, 2 * e)
    BY <1>1, <2>2, PowerOfPower
  <2> QED BY <2>1, <2>3
<1>8. w * w = y * Power(y, p)
  <2> HIDE DEF e, p
  <2>1. 2 * e \in Nat /\ 2 * e + 2 * e = p + 1
    BY <1>1
  <2> DEFINE e2 == 2 * e
  <2>2. e2 \in Nat /\ e2 + e2 = p + 1
    BY <2>1
  <2> HIDE DEF e2
  <2>3. Power(y, e2 + e2) = Power(y, e2) * Power(y, e2)
    BY <2>2, PowerOfSum
  <2>4. Power(y, p + 1) = y * Power(y, p)
    BY <1>1, PowerSteps
  <2> QED BY <1>7, <2>2, <2>3, <2>4 DEF e2
<1>9. Eq(y * Power(y, p), y * y)
  <2>1. Eq(Power(y, p), y)
    BY Fermat
  <2>2. Power(y, p) \in Int /\ y \in Int
    BY <1>1, PowerSteps
  <2> DEFINE yp == Power(y, p)
  <2>3. yp \in Int /\ Eq(yp, y)
    BY <2>1, <2>2
  <2> HIDE DEF yp
  <2>4. Eq(y * yp, y * y)
    BY <2>2, <2>3, EqTimes
  <2> QED BY <2>4 DEF yp
<1>10. Eq(s1 * s1, y * y)
  <2>1. Eq(w * w, y * y)
    BY <1>8, <1>9
  <2> DEFINE ss == s1 * s1
             ww == w * w
             yy == y * y
  <2>2. ss \in Int /\ ww \in Int /\ yy \in Int /\ Eq(ss, ww) /\ Eq(ww, yy)
    BY <1>3, <1>6, <2>1
  <2> HIDE DEF ss, ww, yy
  <2>3. Eq(ss, yy)
    BY <2>2, EqVia
  <2> QED BY <2>3 DEF ss, yy
<1> QED BY <1>2, <1>10

\* Equal squares have equal or opposite roots.
LEMMA SameSquare ==
  ASSUME NEW s1 \in 0 .. CURVE_P - 1, NEW y \in 1 .. CURVE_P - 1, Eq(s1 * s1, y * y)
  PROVE  s1 = y \/ s1 = CURVE_P - y
<1> DEFINE p == CURVE_P
<1>1. p \in Nat /\ p > 4
  BY CurveNumbers
<1>2. s1 \in Int /\ y \in Int /\ s1 - y \in Int /\ s1 + y \in Int
  BY <1>1
<1>3. Eq((s1 - y) * (s1 + y), 0)
  <2> DEFINE ss == s1 * s1
             yy == y * y
  <2>1. ss \in Int /\ yy \in Int /\ Eq(ss, yy) /\ Eq(yy, yy)
    BY <1>2, EqRules
  <2>2. (s1 - y) * (s1 + y) = ss - yy
    BY <1>2
  <2> HIDE DEF ss, yy
  <2>3. Eq(ss - yy, yy - yy) /\ yy - yy = 0
    BY <2>1, EqOperations
  <2> QED BY <2>2, <2>3
<1>4. Eq(s1 - y, 0) \/ Eq(s1 + y, 0)
  BY <1>2, <1>3, NotZeroTimes
<1>5. CASE Eq(s1 - y, 0)
  <2>1. Eq((s1 - y) + y, 0 + y)
    BY <1>2, <1>5, EqRules, EqOperations
  <2>2. (s1 - y) + y = s1 /\ 0 + y = y /\ y \in 0 .. p - 1
    BY <1>1, <1>2
  <2>3. s1 % p = y
    BY <1>2, <2>1, <2>2, EqRemainder
  <2>4. s1 % p = s1
    BY <1>1
  <2> QED BY <2>3, <2>4
<1>6. CASE Eq(s1 + y, 0)
  <2>1. Eq((s1 + y) + (p - y), 0 + (p - y))
    <3> DEFINE t == p - y
               st == s1 + y
    <3>1. t \in Int /\ Eq(t, t) /\ st \in Int /\ Eq(st, 0) /\ 0 \in Int
      BY <1>1, <1>2, <1>6, EqRules
    <3> HIDE DEF t, st
    <3>2. Eq(st + t, 0 + t)
      BY <3>1, EqOperations
    <3> QED BY <3>2 DEF t, st
  <2>2. (s1 + y) + (p - y) = s1 + 1 * p /\ 0 + (p - y) = p - y /\ p - y \in 0 .. p - 1 /\ p - y \in Int
    BY <1>1, <1>2
  <2>3. Eq(s1, s1 + 1 * p) /\ s1 + 1 * p \in Int
    <3>1. 1 \in Int
      OBVIOUS
    <3>2. Eq(s1 + 1 * p, s1)
      BY <1>2, <3>1, EqMultiple
    <3>3. s1 + 1 * p \in Int
      BY <1>1, <1>2
    <3> QED BY <1>2, <3>2, <3>3, EqRules
  <2>4. Eq(s1, p - y)
    BY <1>2, <2>1, <2>2, <2>3, EqVia
  <2>5. s1 % p = p - y
    BY <1>2, <2>2, <2>4, EqRemainder
  <2>6. s1 % p = s1
    BY <1>1
  <2> QED BY <2>5, <2>6
<1> QED BY <1>4, <1>5, <1>6

-----------------------------------------------------------------------------
(* Public keys as they are given and taken.                                *)

\* The right hand side of the curve's equation.
LEMMA SideIs ==
  ASSUME NEW x \in Nat
  PROVE  /\ x_side(x) \in 0 .. CURVE_P - 1
         /\ x_side(x) = (x * x * x + CURVE_B) % CURVE_P
<1> DEFINE p == CURVE_P
           sq == x * x
           rest == sq % p
           low == rest * x + CURVE_B
           full == sq * x + CURVE_B
<1>1. p \in Nat /\ p > 4 /\ CURVE_B \in Int /\ x \in Int /\ sq \in Int
  BY CurveNumbers
<1>2. rest \in Int /\ Eq(rest, sq)
  <2> HIDE DEF sq
  <2> QED BY <1>1, EqRemainder
<1> HIDE DEF rest, sq
<1>3. low \in Int /\ full \in Int /\ Eq(low, full)
  <2> DEFINE lhs == rest * x
             w == sq * x
  <2>1. lhs \in Int /\ w \in Int /\ Eq(lhs, w)
    BY <1>1, <1>2, EqTimes
  <2>2. Eq(CURVE_B, CURVE_B)
    BY <1>1, EqRules
  <2> HIDE DEF lhs, w
  <2>3. Eq(lhs + CURVE_B, w + CURVE_B)
    BY <1>1, <2>1, <2>2, EqOperations, Zenon
  <2>4. lhs + CURVE_B \in Int /\ w + CURVE_B \in Int
    BY <1>1, <2>1
  <2> QED BY <2>3, <2>4 DEF lhs, w
<1>4. x_side(x) = low % p
  BY DEF x_side, rest, sq
<1>5. (x * x * x + CURVE_B) % CURVE_P = full % p
  BY DEF sq
<1> HIDE DEF low, full
<1>6. low % p \in 0 .. p - 1 /\ low % p = full % p
  BY <1>3, EqRemainder
<1> QED BY <1>4, <1>5, <1>6 DEF p

\* The multiples of the generator are all points of the curve, and none of them
\* is its own opposite.
LEMMA CurvePointsAre ==
  /\ \A q \in Coordinates : OnCurve(q) <=> q \in CurvePoints
  /\ \A q \in CurvePoints : q \in Coordinates /\ q[2] # 0
<1>1. ASSUME NEW q \in CurvePoints
      PROVE  q \in Coordinates /\ OnCurve(q) /\ q[2] # 0
  <2>1. PICK k \in 1 .. CURVE_N - 1 : q = Times[k]
    BY DEF CurvePoints
  <2>2. q \in Coordinates /\ OnCurve(q)
    BY <2>1, GroupAssumption
  <2>3. (2 * q[2]) % CURVE_P # 0
    BY <2>1, NotOpposite
  <2>4. (2 * 0) % CURVE_P = 0
    BY CurveNumbers
  <2> QED BY <2>2, <2>3, <2>4
<1>2. ASSUME NEW q \in Coordinates, OnCurve(q)
      PROVE  q \in CurvePoints
  BY <1>2, RootAssumption DEF CurvePoints
<1> QED BY <1>1, <1>2

\* uECC_valid_point() knows them.
LEMMA ValidIs ==
  ASSUME NEW x \in Nat, NEW y \in Nat
  PROVE  ValidPoint(<<x, y>>) <=> <<x, y>> \in CurvePoints
<1> DEFINE q == <<x, y>>
<1>1. q[1] = x /\ q[2] = y
  OBVIOUS
<1>2. x_side(x) = (x * x * x + CURVE_B) % CURVE_P
  BY SideIs
<1>3. OnCurve(q) <=> (y * y) % CURVE_P = x_side(x)
  BY <1>1, <1>2 DEF OnCurve
<1>4. q \in Coordinates <=> x < CURVE_P /\ y < CURVE_P
  <2>1. CURVE_P \in Nat
    BY CurveNumbers
  <2> QED BY <2>1 DEF Coordinates
<1>5. ValidPoint(q) <=> q # <<0, 0>> /\ x < CURVE_P /\ y < CURVE_P /\ (y * y) % CURVE_P = x_side(x)
  BY <1>1 DEF ValidPoint
<1>6. q \in CurvePoints => q \in Coordinates /\ OnCurve(q) /\ q # <<0, 0>>
  <2>1. <<0, 0>>[2] = 0
    OBVIOUS
  <2> QED BY <2>1, CurvePointsAre
<1>7. q \in Coordinates /\ OnCurve(q) => q \in CurvePoints
  BY CurvePointsAre
<1> HIDE DEF q
<1>8. ValidPoint(q) <=> q \in CurvePoints
  BY <1>3, <1>4, <1>5, <1>6, <1>7
<1> QED BY <1>8 DEF q

\* A first byte and an x are decompressed to a number of that parity.
LEMMA DecompressedIs ==
  ASSUME NEW first \in Nat, NEW x \in Nat
  PROVE  LET d == Decompressed(<<first, x>>) IN
           /\ d = <<x, d[2]>> /\ d[2] \in Nat /\ d[2] % 2 = first % 2
           /\ d[2] = mod_sqrt(x_side(x)) \/ d[2] = CURVE_P - mod_sqrt(x_side(x))
<1> DEFINE p == CURVE_P
           s1 == mod_sqrt(x_side(x))
           y == IF s1 % 2 = first % 2 THEN s1 ELSE p - s1
<1>1. p \in Nat /\ p > 4 /\ p % 2 # 0
  BY CurveNumbers
<1>2. s1 \in 0 .. p - 1
  <2>1. x_side(x) \in Nat
    <3>1. x_side(x) \in 0 .. p - 1
      BY SideIs
    <3> QED BY <1>1, <3>1
  <2> QED BY <2>1, RootIsPower
<1>3. Decompressed(<<first, x>>) = <<x, y>>
  BY DEF Decompressed
<1>4. y = s1 \/ y = p - s1
  OBVIOUS
<1> HIDE DEF s1
<1>5. y \in Nat /\ y % 2 = first % 2
  <2>1. CASE s1 % 2 = first % 2
    BY <1>1, <1>2, <2>1
  <2>2. CASE s1 % 2 # first % 2
    <3>1. y = p - s1 /\ y \in Nat
      BY <1>1, <1>2, <2>2
    <3>2. first % 2 \in 0 .. 1 /\ s1 % 2 \in 0 .. 1 /\ p % 2 = 1
      BY <1>1, <1>2
    <3>3. (p - s1) % 2 # s1 % 2
      BY <1>1, <1>2, <3>2
    <3>4. (p - s1) % 2 \in 0 .. 1
      BY <1>1, <1>2
    <3> QED BY <2>2, <3>1, <3>2, <3>3, <3>4
  <2> QED BY <2>1, <2>2
<1> HIDE DEF y
<1>6. <<x, y>> = <<x, <<x, y>>[2]>> /\ <<x, y>>[2] = y
  OBVIOUS
<1> QED BY <1>3, <1>4, <1>5, <1>6 DEF s1, p

\* For the x of a point it is its y or the opposite: the one of that parity.
LEMMA DecompressedPoint ==
  ASSUME NEW first \in Nat, NEW q \in CurvePoints
  PROVE  /\ Decompressed(<<first, q[1]>>) \in CurvePoints
         /\ first % 2 = q[2] % 2 => Decompressed(<<first, q[1]>>) = q
<1> DEFINE p == CURVE_P
           x == q[1]
           y == q[2]
           s1 == mod_sqrt(x_side(x))
           d == Decompressed(<<first, x>>)
           t == d[2]
<1>1. p \in Nat /\ p > 4 /\ p % 2 # 0
  BY CurveNumbers
<1>2. q \in Coordinates /\ OnCurve(q) /\ y # 0
  BY CurvePointsAre
<1>3. q = <<x, y>> /\ x \in 0 .. p - 1 /\ y \in 0 .. p - 1 /\ x \in Nat /\ y \in Nat
  BY <1>1, <1>2 DEF Coordinates
<1>4. (y * y) % p = x_side(x) /\ x_side(x) \in Nat
  <2>1. (y * y) % p = (x * x * x + CURVE_B) % p
    BY <1>2 DEF OnCurve
  <2>2. x_side(x) \in 0 .. p - 1 /\ x_side(x) = (x * x * x + CURVE_B) % p
    BY <1>3, SideIs
  <2> QED BY <1>1, <2>1, <2>2
<1>5. Eq(x_side(x), y * y)
  <2>1. y * y \in Int
    BY <1>3
  <2>2. Eq((y * y) % p, y * y)
    BY <2>1, EqRemainder
  <2> QED BY <1>4, <2>2
<1>6. s1 = y \/ s1 = p - y
  <2>1. s1 \in 0 .. p - 1 /\ Eq(s1 * s1, y * y)
    BY <1>3, <1>4, <1>5, RootSquared
  <2>2. y \in 1 .. p - 1
    BY <1>1, <1>2, <1>3
  <2> HIDE DEF s1, y
  <2> QED BY <2>1, <2>2, SameSquare
<1>7. d = <<x, t>> /\ t \in Nat /\ t % 2 = first % 2 /\ (t = s1 \/ t = p - s1)
  BY <1>3, DecompressedIs
<1> HIDE DEF s1, d
<1>8. t = y \/ t = p - y
  <2> HIDE DEF t, y
  <2> QED BY <1>1, <1>3, <1>6, <1>7
<1> HIDE DEF t
<1>9. t \in 0 .. p - 1 /\ (first % 2 = y % 2 => t = y)
  <2> HIDE DEF y
  <2>1. t \in 0 .. p - 1
    BY <1>1, <1>2, <1>3, <1>8
  <2>2. (p - y) % 2 # y % 2
    BY <1>1, <1>3
  <2> QED BY <1>7, <1>8, <2>1, <2>2
<1>10. d \in CurvePoints
  <2>1. (t * t) % p = (y * y) % p
    <3>1. CASE t = y
      BY <3>1
    <3>2. CASE t = p - y
      <4> HIDE DEF y
      <4>1. t * t = y * y + (p - 2 * y) * p /\ p - 2 * y \in Int /\ y * y \in Int /\ t * t \in Int
        BY <1>1, <1>3, <3>2
      <4>2. Eq(y * y + (p - 2 * y) * p, y * y)
        BY <4>1, EqMultiple
      <4> DEFINE tt == t * t
                 yy == y * y
      <4>3. tt \in Int /\ yy \in Int /\ Eq(tt, yy)
        BY <4>1, <4>2
      <4> HIDE DEF tt, yy
      <4>4. tt % p = yy % p
        BY <4>3, EqRemainder
      <4> QED BY <4>4 DEF tt, yy
    <3> QED BY <1>8, <3>1, <3>2
  <2>2. <<x, t>>[1] = x /\ <<x, t>>[2] = t
    OBVIOUS
  <2>3. <<x, t>> \in Coordinates
    BY <1>3, <1>9 DEF Coordinates
  <2>4. (y * y) % p = (x * x * x + CURVE_B) % p
    BY <1>2 DEF OnCurve
  <2>5. OnCurve(<<x, t>>)
    BY <2>1, <2>2, <2>4 DEF OnCurve
  <2> QED BY <1>7, <2>3, <2>5, CurvePointsAre
<1>11. first % 2 = y % 2 => d = q
  BY <1>3, <1>7, <1>9
<1> QED BY <1>10, <1>11 DEF d

\* The steps, each with what it finds.
PointInv ==
  /\ ppc \in {"decompress", "validate", "compress", "done"}
  /\ key \in Nat \X Nat
  /\ compressed # << >> => compressed \in Nat \X Nat
  /\ ppc = "decompress" => compressed \in Nat \X Nat
  /\ ppc # "decompress" /\ compressed # << >> => key = Decompressed(compressed)
  /\ ppc \in {"compress", "done"} => valid = ValidPoint(key)
  /\ ppc = "done" => again = <<2 + (key[2] % 2), key[1]>>

\* It holds at first.
LEMMA PointStart == PointInit => PointInv
<1> SUFFICES ASSUME PointInit
             PROVE  PointInv
  OBVIOUS
<1>1. Compressed \subseteq Nat \X Nat /\ Uncompressed \subseteq Nat \X Nat
  BY KeysAssumption
<1>2. <<0, 0>> \in Nat \X Nat
  OBVIOUS
<1> QED BY <1>1, <1>2 DEF PointInit, PointInv

\* Every step keeps it.
LEMMA PointStep == PointInv /\ [PointNext]_pointVars => PointInv'
<1> SUFFICES ASSUME PointInv, [PointNext]_pointVars
             PROVE  PointInv'
  OBVIOUS
<1>1. CASE Decompress
  <2>1. /\ ppc = "decompress" /\ ppc' = "validate" /\ key' = Decompressed(compressed)
        /\ compressed' = compressed /\ compressed \in Nat \X Nat
    BY <1>1 DEF Decompress, PointInv
  <2>2. PICK first \in Nat, x \in Nat : compressed = <<first, x>>
    BY <2>1
  <2>3. Decompressed(compressed) \in Nat \X Nat
    <3> DEFINE d == Decompressed(compressed)
    <3>1. d = <<x, d[2]>> /\ d[2] \in Nat
      BY <2>2, DecompressedIs
    <3> HIDE DEF d
    <3>2. d \in Nat \X Nat
      BY <3>1
    <3> QED BY <3>2 DEF d
  <2>4. Decompressed(compressed)' = Decompressed(compressed)
    BY <2>1 DEF Decompressed, mod_sqrt, x_side, TestBit
  <2> QED BY <2>1, <2>3, <2>4 DEF PointInv
<1>2. CASE Validate
  <2>1. /\ ppc = "validate" /\ ppc' = "compress" /\ valid' = ValidPoint(key)
        /\ compressed' = compressed /\ key' = key
    BY <1>2 DEF Validate
  <2>2. ValidPoint(key)' = ValidPoint(key) /\ Decompressed(compressed)' = Decompressed(compressed)
    BY <2>1, Zenon
  <2> QED BY <2>1, <2>2 DEF PointInv
<1>3. CASE Compress
  <2>1. /\ ppc = "compress" /\ ppc' = "done" /\ again' = <<2 + (key[2] % 2), key[1]>>
        /\ compressed' = compressed /\ key' = key /\ valid' = valid
    BY <1>3 DEF Compress
  <2>2. ValidPoint(key)' = ValidPoint(key) /\ Decompressed(compressed)' = Decompressed(compressed)
    BY <2>1, Zenon
  <2> QED BY <2>1, <2>2 DEF PointInv
<1>4. CASE UNCHANGED pointVars
  <2>1. ppc' = ppc /\ compressed' = compressed /\ key' = key /\ valid' = valid /\ again' = again
    BY <1>4 DEF pointVars
  <2>2. ValidPoint(key)' = ValidPoint(key) /\ Decompressed(compressed)' = Decompressed(compressed)
    BY <2>1, Zenon
  <2> QED BY <2>1, <2>2 DEF PointInv
<1> QED BY <1>1, <1>2, <1>3, <1>4 DEF PointNext

\* What it says of the end.
LEMMA PointsRight == PointInv => PointsChecked
<1> SUFFICES ASSUME PointInv, ppc = "done"
             PROVE  /\ valid <=> key \in CurvePoints
                    /\ valid => Decompressed(again) = key
                    /\ compressed # << >> =>
                         (valid <=> \E q \in CurvePoints : q[1] = compressed[2])
                    /\ valid /\ compressed # << >> => again[1] % 2 = compressed[1] % 2
  BY DEF PointsChecked
<1>1. /\ key \in Nat \X Nat /\ valid = ValidPoint(key) /\ again = <<2 + (key[2] % 2), key[1]>>
      /\ compressed # << >> => compressed \in Nat \X Nat /\ key = Decompressed(compressed)
  BY DEF PointInv
<1>2. PICK x \in Nat, y \in Nat : key = <<x, y>>
  BY <1>1
<1>3. key[1] = x /\ key[2] = y
  BY <1>2
<1>4. valid <=> key \in CurvePoints
  BY <1>1, <1>2, ValidIs
<1> DEFINE octet == 2 + (y % 2)
<1>5. octet \in Nat /\ octet % 2 = y % 2
  OBVIOUS
<1>6. again = <<octet, x>> /\ again[1] = octet
  BY <1>1, <1>3
<1> HIDE DEF octet
<1>7. valid => Decompressed(again) = key
  BY <1>3, <1>4, <1>5, <1>6, DecompressedPoint
<1>8. ASSUME compressed # << >>
      PROVE  /\ valid <=> \E q \in CurvePoints : q[1] = compressed[2]
             /\ valid => again[1] % 2 = compressed[1] % 2
  <2>1. PICK first \in Nat, x1 \in Nat : compressed = <<first, x1>>
    BY <1>1, <1>8
  <2>2. compressed[1] = first /\ compressed[2] = x1 /\ key = Decompressed(<<first, x1>>)
    BY <1>1, <1>8, <2>1
  <2>3. key = <<x1, key[2]>> /\ key[2] % 2 = first % 2
    BY <2>2, DecompressedIs
  <2>4. x = x1 /\ y % 2 = first % 2
    BY <1>2, <1>3, <2>3
  <2>5. valid => \E q \in CurvePoints : q[1] = x1
    BY <1>3, <1>4, <2>4
  <2>6. (\E q \in CurvePoints : q[1] = x1) => valid
    BY <1>4, <2>2, DecompressedPoint
  <2> QED BY <1>5, <1>6, <2>2, <2>4, <2>5, <2>6
<1> QED BY <1>4, <1>7, <1>8

\* A public key is called valid exactly when it is a point of the curve, its
\* compressed form is decompressed to it again, and only the x of a point is
\* decompressed to a valid key (uECC.c:1019-1094).
THEOREM PointsProved == PointSpec => []PointsChecked
<1>1. PointSpec => []PointInv
  BY PointStart, PointStep, PTL DEF PointSpec
<1> QED BY <1>1, PointsRight, PTL

-----------------------------------------------------------------------------
(* The bytes of a hash.                                                    *)

\* Digits are natural numbers.
LEMMA DigitsAreNumbers ==
  ASSUME NEW base \in Nat
  PROVE  \A d \in Seq(0 .. base - 1) : d \in Seq(Nat)
<1>1. 0 .. base - 1 \subseteq Nat
  OBVIOUS
<1> QED BY <1>1

\* The lowest m digits are the remainder, the others the quotient.
LEMMA NumberCut ==
  ASSUME NEW base \in Nat, base > 0, NEW digits \in Seq(0 .. base - 1),
         NEW m \in 0 .. Len(digits)
  PROVE  LET low == SubSeq(digits, 1, m)
             high == SubSeq(digits, m + 1, Len(digits))
         IN  /\ high \in Seq(0 .. base - 1) /\ Len(high) = Len(digits) - m
             /\ \A k \in 1 .. Len(digits) - m : high[k] = digits[m + k]
             /\ NumberOf(digits, base) \div Power(base, m) = NumberOf(high, base)
             /\ NumberOf(digits, base) % Power(base, m) = NumberOf(low, base)
<1> DEFINE low == SubSeq(digits, 1, m)
           high == SubSeq(digits, m + 1, Len(digits))
<1>1. /\ low \in Seq(0 .. base - 1) /\ Len(low) = m
      /\ high \in Seq(0 .. base - 1) /\ Len(high) = Len(digits) - m
      /\ \A k \in 1 .. Len(digits) - m : high[k] = digits[m + k]
  OBVIOUS
<1>0. m \in Nat /\ Len(digits) \in Nat /\ m <= Len(digits)
      /\ \A k \in 1 .. m : low[k] = digits[k]
  OBVIOUS
<1> HIDE DEF low, high
<1>2. digits = low \o high
  <2> DEFINE whole == low \o high
  <2>1. /\ Len(whole) = Len(digits) /\ whole \in Seq(0 .. base - 1)
        /\ \A k \in 1 .. Len(digits) :
             whole[k] = IF k <= m THEN low[k] ELSE high[k - m]
    <3> DEFINE T == 0 .. base - 1
    <3>1. low \in Seq(T) /\ high \in Seq(T)
      BY <1>1
    <3> HIDE DEF T
    <3>2. whole \in Seq(T)
      BY <3>1
    <3>3. Len(whole) = Len(low) + Len(high)
      BY <3>1
    <3>4. Len(whole) = Len(digits)
      BY <1>0, <1>1, <3>3
    <3>5. \A k \in 1 .. Len(low) + Len(high) :
            whole[k] = IF k <= Len(low) THEN low[k] ELSE high[k - Len(low)]
      BY <3>1
    <3>6. Len(low) + Len(high) = Len(digits)
      BY <3>3, <3>4
    <3> HIDE DEF low, high, whole
    <3>7. \A k \in 1 .. Len(digits) :
            whole[k] = IF k <= m THEN low[k] ELSE high[k - m]
      <4> TAKE k \in 1 .. Len(digits)
      <4>1. k \in 1 .. Len(low) + Len(high)
        BY <3>6
      <4>2. whole[k] = IF k <= Len(low) THEN low[k] ELSE high[k - Len(low)]
        BY <3>5, <4>1
      <4>3. Len(low) = m
        BY <1>1
      <4> QED BY <4>2, <4>3, Zenon
    <3>8. whole \in Seq(0 .. base - 1)
      BY <3>2 DEF T
    <3> QED BY <3>4, <3>7, <3>8, Zenon
  <2> HIDE DEF whole
  <2>2. \A k \in 1 .. Len(digits) : whole[k] = digits[k]
    <3> TAKE k \in 1 .. Len(digits)
    <3>0. whole[k] = IF k <= m THEN low[k] ELSE high[k - m]
      BY <2>1
    <3>1. CASE k <= m
      <4>1. k \in 1 .. m
        BY <1>0, <3>1
      <4>2. low[k] = digits[k]
        BY <1>0, <4>1
      <4> QED BY <3>0, <3>1, <4>2, Zenon
    <3>2. CASE k > m
      <4>1. k - m \in 1 .. Len(digits) - m /\ m + (k - m) = k /\ ~ k <= m
        BY <1>0, <3>2
      <4>2. high[k - m] = digits[m + (k - m)]
        BY <1>1, <4>1
      <4> QED BY <3>0, <4>1, <4>2
    <3> QED BY <1>0, <3>1, <3>2
  <2>3. whole = digits
    <3>1. \A q \in Seq(0 .. base - 1) : q = [k \in 1 .. Len(q) |-> q[k]]
      OBVIOUS
    <3>2. whole = [k \in 1 .. Len(digits) |-> whole[k]]
      BY <2>1, <3>1
    <3>3. digits = [k \in 1 .. Len(digits) |-> digits[k]]
      BY <3>1
    <3> QED BY <2>2, <3>2, <3>3
  <2> QED BY <2>3 DEF whole
<1>3. low \in Seq(Nat) /\ high \in Seq(Nat)
  BY <1>1, DigitsAreNumbers
<1>4. NumberOf(digits, base) = NumberOf(low, base) + Power(base, m) * NumberOf(high, base)
  BY <1>1, <1>2, <1>3, NumberConcat
<1>5. NumberOf(low, base) \in 0 .. Power(base, m) - 1
  BY <1>1, NumberRange
<1>6. NumberOf(high, base) \in Nat
  BY <1>3, NumberSteps
<1>7. Power(base, m) \in Nat /\ Power(base, m) > 0
  BY <1>0, PowerPositive
<1> DEFINE x == NumberOf(digits, base)
           h == NumberOf(high, base)
           t == NumberOf(low, base)
           p == Power(base, m)
<1>8. x = t + p * h /\ t \in 0 .. p - 1 /\ h \in Nat /\ p \in Nat /\ p > 0
  BY <1>4, <1>5, <1>6, <1>7
<1>9. x \div p = h /\ x % p = t
  <2> HIDE DEF x, h, t, p
  <2>1. x = h * p + t /\ x \in Int
    BY <1>8
  <2> QED BY <1>8, <2>1, DivideUnique
<1> QED BY <1>1, <1>9 DEF low, high

\* So every digit is one of its number.
LEMMA DigitOfNumber ==
  ASSUME NEW base \in Nat, base > 0, NEW digits \in Seq(0 .. base - 1),
         NEW k \in 1 .. Len(digits)
  PROVE  digits[k] = (NumberOf(digits, base) \div Power(base, k - 1)) % base
<1> DEFINE high == SubSeq(digits, (k - 1) + 1, Len(digits))
<1>1. /\ high \in Seq(0 .. base - 1) /\ Len(high) = Len(digits) - (k - 1)
      /\ high[1] = digits[k]
      /\ NumberOf(digits, base) \div Power(base, k - 1) = NumberOf(high, base)
  <2>1. k - 1 \in 0 .. Len(digits)
    OBVIOUS
  <2>2. 1 \in 1 .. Len(digits) - (k - 1) /\ (k - 1) + 1 = k
    OBVIOUS
  <2> QED BY <2>1, <2>2, NumberCut
<1> HIDE DEF high
<1>2. 1 \in 0 .. Len(high)
  BY <1>1
<1>3. NumberOf(high, base) % Power(base, 1) = NumberOf(SubSeq(high, 1, 1), base)
  BY <1>1, <1>2, NumberCut
<1>4. NumberOf(SubSeq(high, 1, 1), base) = high[1]
  <2>1. high \in Seq(Nat) /\ high[1] \in Nat
    <3>1. high \in Seq(Nat)
      BY <1>1, DigitsAreNumbers
    <3>2. 1 \in 1 .. Len(high)
      BY <1>1
    <3> QED BY <3>1, <3>2
  <2>2. NumberOf(SubSeq(high, 1, 0), base) = 0
    BY <2>1, NumberPrefix
  <2>3. 0 \in 0 .. Len(high) - 1
    BY <1>1, <1>2
  <2>4. NumberOf(SubSeq(high, 1, 0 + 1), base)
          = NumberOf(SubSeq(high, 1, 0), base) + high[0 + 1] * Power(base, 0)
    BY <2>1, <2>3, NumberPrefix
  <2>5. Power(base, 0) = 1
    BY PowerSteps
  <2> QED BY <2>1, <2>2, <2>4, <2>5
<1>5. Power(base, 1) = base
  <2>1. Power(base, 0 + 1) = base * Power(base, 0) /\ Power(base, 0) = 1
    BY PowerSteps
  <2> QED BY <2>1
<1> QED BY <1>1, <1>3, <1>4, <1>5

\* Words are those of their number.
LEMMA WordsOfNum ==
  ASSUME NEW x \in Seq(Word)
  PROVE  x = WordsOf(Num(x), Len(x))
<1>1. WORD \in Nat /\ WORD > 0 /\ x \in Seq(0 .. WORD - 1)
  BY Sizes DEF Word
<1>2. \A k \in 1 .. Len(x) : x[k] = (Num(x) \div Power(WORD, k - 1)) % WORD
  BY <1>1, DigitOfNumber DEF Num
<1>3. x = [k \in 1 .. Len(x) |-> x[k]]
  OBVIOUS
<1> QED BY <1>2, <1>3 DEF WordsOf

\* A small number has no high digits.
LEMMA HighDigit ==
  ASSUME NEW base \in Nat, base > 1, NEW n \in Nat, NEW x \in 0 .. Power(base, n) - 1,
         NEW k \in Nat, k >= n
  PROVE  x \div Power(base, k) = 0
<1>1. Power(base, n) <= Power(base, k) /\ Power(base, k) \in Nat /\ Power(base, n) \in Nat
  BY PowerMonotone, PowerSteps
<1> DEFINE p == Power(base, k)
<1>2. x \in 0 .. p - 1 /\ p \in Nat /\ p > 0
  BY <1>1
<1> HIDE DEF p
<1>3. x = 0 * p + x /\ x \in Int
  BY <1>2
<1>4. x \div p = 0
  BY <1>2, <1>3, DivideUnique
<1> QED BY <1>4 DEF p

\* The numbers of bytes and words.
LEMMA ByteNumbers ==
  /\ BYTE \in Nat /\ BYTE > 1 /\ uECC_WORD_SIZE \in Nat /\ uECC_WORD_SIZE > 0
  /\ WORD = Power(BYTE, uECC_WORD_SIZE) /\ BYTE = Power(2, BYTE_SIZE)
  /\ BYTE_SIZE \in Nat /\ BYTE_SIZE > 0
  /\ \A k \in Nat : Power(BYTE, k) \in Nat /\ Power(BYTE, k) > 0
  /\ \A k \in Nat : Power(2, k) \in Nat /\ Power(2, k) > 0
<1>1. /\ BYTE \in Nat /\ BYTE > 1 /\ uECC_WORD_SIZE \in Nat /\ uECC_WORD_SIZE > 0
      /\ WORD = Power(BYTE, uECC_WORD_SIZE) /\ BYTE = Power(2, BYTE_SIZE)
  BY VliBytesAssumption
<1>2. BYTE - 1 \in Nat /\ BYTE - 1 > 0
  BY <1>1
<1>3. BYTE_SIZE \in Nat /\ BYTE_SIZE > 0
  BY <1>2, NumBitsRight DEF BYTE_SIZE
<1>4. \A k \in Nat : Power(BYTE, k) \in Nat /\ Power(BYTE, k) > 0
  <2>1. BYTE \in Nat /\ BYTE > 0
    BY <1>1
  <2> QED BY <2>1, PowerPositive
<1>5. \A k \in Nat : Power(2, k) \in Nat /\ Power(2, k) > 0
  <2>1. 2 \in Nat /\ 2 > 0
    OBVIOUS
  <2> QED BY <2>1, PowerPositive
<1> QED BY <1>1, <1>3, <1>4, <1>5

\* A byte of a number, counted from its words.
LEMMA ByteOfWord ==
  ASSUME NEW x \in Nat, NEW q \in Nat, NEW t \in Nat
  PROVE  x \div Power(BYTE, q * uECC_WORD_SIZE + t)
           = (x \div Power(WORD, q)) \div Power(BYTE, t)
<1>1. q * uECC_WORD_SIZE \in Nat
  BY ByteNumbers
<1>2. Power(BYTE, q * uECC_WORD_SIZE + t) = Power(BYTE, q * uECC_WORD_SIZE) * Power(BYTE, t)
  BY <1>1, ByteNumbers, PowerOfSum
<1>3. Power(BYTE, q * uECC_WORD_SIZE) = Power(WORD, q)
  <2>1. Power(Power(BYTE, uECC_WORD_SIZE), q) = Power(BYTE, uECC_WORD_SIZE * q)
    BY ByteNumbers, PowerOfPower
  <2>2. uECC_WORD_SIZE * q = q * uECC_WORD_SIZE
    BY ByteNumbers
  <2> QED BY <2>1, <2>2, ByteNumbers
<1>4. /\ Power(WORD, q) \in Nat /\ Power(WORD, q) > 0
      /\ Power(BYTE, t) \in Nat /\ Power(BYTE, t) > 0
  BY ByteNumbers, Sizes
<1> QED BY <1>2, <1>3, <1>4, DivideTwice

IsBytes(bytes) == bytes \in Seq(0 .. BYTE - 1)

\* Bytes in the other order.
LEMMA LowestFirstIs ==
  ASSUME NEW bytes, IsBytes(bytes)
  PROVE  /\ IsBytes(LowestFirst(bytes)) /\ Len(LowestFirst(bytes)) = Len(bytes)
         /\ Len(bytes) \in Nat
         /\ \A k \in 1 .. Len(bytes) : LowestFirst(bytes)[k] = bytes[Len(bytes) + 1 - k]
         /\ BytesNum(bytes) \in 0 .. Power(BYTE, Len(bytes)) - 1
         /\ BytesNum(bytes) \in Nat
<1> DEFINE n == Len(bytes)
           f == [k \in 1 .. n |-> bytes[n + 1 - k]]
<1>1. n \in Nat /\ bytes \in [1 .. n -> 0 .. BYTE - 1]
  <2>1. \A q \in Seq(0 .. BYTE - 1) : Len(q) \in Nat /\ q \in [1 .. Len(q) -> 0 .. BYTE - 1]
    <3> DEFINE T == 0 .. BYTE - 1
    <3> HIDE DEF T
    <3>1. \A q \in Seq(T) : Len(q) \in Nat /\ q \in [1 .. Len(q) -> T]
      OBVIOUS
    <3> QED BY <3>1 DEF T
  <2> QED BY <2>1 DEF IsBytes
<1>2. f \in [1 .. n -> 0 .. BYTE - 1]
  <2>1. \A k \in 1 .. n : n + 1 - k \in 1 .. n
    BY <1>1
  <2> QED BY <1>1, <2>1
<1>3. f \in Seq(0 .. BYTE - 1) /\ Len(f) = n
  BY <1>1, <1>2
<1>4. LowestFirst(bytes) = f
  BY DEF LowestFirst
<1>5. NumberOf(f, BYTE) \in 0 .. Power(BYTE, n) - 1
  BY <1>3, ByteNumbers, NumberRange
<1>6. NumberOf(f, BYTE) \in Nat
  BY <1>1, <1>5, ByteNumbers
<1> QED BY <1>1, <1>3, <1>4, <1>5, <1>6 DEF IsBytes, BytesNum

\* The lowest bytes of a number.
BytesOf(x, n) == [k \in 1 .. n |-> (x \div Power(BYTE, k - 1)) % BYTE]

LEMMA BytesOfRight ==
  ASSUME NEW x \in Nat, NEW n \in Nat
  PROVE  /\ BytesOf(x, n) \in Seq(0 .. BYTE - 1) /\ Len(BytesOf(x, n)) = n
         /\ NumberOf(BytesOf(x, n), BYTE) = x % Power(BYTE, n)
<1>1. BYTE \in Nat /\ BYTE > 0
  BY ByteNumbers
<1> QED BY <1>1, NumberOfDigits DEF BytesOf

\* A byte that is there or zero.
LowestByte(bytes, j) == IF j <= Len(bytes) THEN LowestFirst(bytes)[j] ELSE 0

\* The words of the bytes are those of their number.
LEMMA ToNativeRight ==
  ASSUME NEW bytes, IsBytes(bytes), NEW n \in Nat
  PROVE  BytesToNative(bytes, n) = WordsOf(BytesNum(bytes), n)
<1> DEFINE x == BytesNum(bytes)
<1>1. x \in Nat /\ x \in 0 .. Power(BYTE, Len(bytes)) - 1 /\ Len(bytes) \in Nat
  BY LowestFirstIs
<1>2. \A j \in Nat \ {0} : LowestByte(bytes, j) = (x \div Power(BYTE, j - 1)) % BYTE
  <2> TAKE j \in Nat \ {0}
  <2>1. CASE j <= Len(bytes)
    <3>1. j \in 1 .. Len(LowestFirst(bytes)) /\ LowestFirst(bytes) \in Seq(0 .. BYTE - 1)
      BY <1>1, <2>1, LowestFirstIs DEF IsBytes
    <3>2. LowestFirst(bytes)[j] = (NumberOf(LowestFirst(bytes), BYTE) \div Power(BYTE, j - 1)) % BYTE
      BY <3>1, ByteNumbers, DigitOfNumber
    <3> QED BY <2>1, <3>2 DEF LowestByte, BytesNum
  <2>2. CASE j > Len(bytes)
    <3>1. j - 1 \in Nat /\ j - 1 >= Len(bytes) /\ ~ j <= Len(bytes)
      BY <1>1, <2>2
    <3>2. x \div Power(BYTE, j - 1) = 0
      <4> DEFINE n1 == Len(bytes)
                 k1 == j - 1
      <4>1. x \in 0 .. Power(BYTE, n1) - 1 /\ n1 \in Nat /\ k1 \in Nat /\ k1 >= n1
        BY <1>1, <3>1
      <4> HIDE DEF x, n1, k1
      <4>2. x \div Power(BYTE, k1) = 0
        BY <4>1, ByteNumbers, HighDigit
      <4> QED BY <4>2 DEF k1
    <3>3. 0 % BYTE = 0
      BY ByteNumbers
    <3> QED BY <3>1, <3>2, <3>3 DEF LowestByte
  <2> QED BY <1>1, <2>1, <2>2
<1> HIDE DEF x
<1>3. \A w \in 1 .. n :
        NumberOf([j \in 1 .. uECC_WORD_SIZE |-> LowestByte(bytes, (w - 1) * uECC_WORD_SIZE + j)], BYTE)
          = (x \div Power(WORD, w - 1)) % WORD
  <2> TAKE w \in 1 .. n
  <2> DEFINE y == x \div Power(WORD, w - 1)
             digits == BytesOf(y, uECC_WORD_SIZE)
  <2>1. w - 1 \in Nat /\ Power(WORD, w - 1) \in Nat /\ Power(WORD, w - 1) > 0
    BY Sizes
  <2>2. y \in Nat
    <3> DEFINE p == Power(WORD, w - 1)
    <3>1. p \in Nat /\ p > 0
      BY <2>1
    <3> HIDE DEF p
    <3>2. x \div p \in Nat
      BY <1>1, <3>1
    <3> QED BY <3>2 DEF p
  <2>3. \A j \in 1 .. uECC_WORD_SIZE :
          LowestByte(bytes, (w - 1) * uECC_WORD_SIZE + j) = (y \div Power(BYTE, j - 1)) % BYTE
    <3> TAKE j \in 1 .. uECC_WORD_SIZE
    <3>1. (w - 1) * uECC_WORD_SIZE \in Nat
      BY <2>1, ByteNumbers
    <3>2. /\ (w - 1) * uECC_WORD_SIZE + j \in Nat \ {0} /\ j - 1 \in Nat
          /\ ((w - 1) * uECC_WORD_SIZE + j) - 1 = (w - 1) * uECC_WORD_SIZE + (j - 1)
      BY <3>1, ByteNumbers
    <3>3. x \div Power(BYTE, (w - 1) * uECC_WORD_SIZE + (j - 1)) = y \div Power(BYTE, j - 1)
      BY <1>1, <2>1, <3>2, ByteOfWord
    <3> QED BY <1>2, <3>2, <3>3
  <2>4. NumberOf(digits, BYTE) = y % Power(BYTE, uECC_WORD_SIZE)
    <3> HIDE DEF y
    <3> QED BY <2>2, ByteNumbers, BytesOfRight
  <2>5. [j \in 1 .. uECC_WORD_SIZE |-> LowestByte(bytes, (w - 1) * uECC_WORD_SIZE + j)] = digits
    BY <2>3 DEF BytesOf
  <2> QED BY <2>4, <2>5, ByteNumbers
<1>4. BytesToNative(bytes, n)
        = [w \in 1 .. n |-> NumberOf([j \in 1 .. uECC_WORD_SIZE |->
             LowestByte(bytes, (w - 1) * uECC_WORD_SIZE + j)], BYTE)]
  BY DEF BytesToNative, LowestByte
<1> QED BY <1>3, <1>4 DEF WordsOf, x

\* A word with the bits that it gets from the one above.
LEMMA ShiftedDigit ==
  ASSUME NEW x \in Nat, NEW p \in Nat, p > 0, NEW q \in Nat, q > 0, WORD = p * q
  PROVE  /\ ((x % WORD) \div p) + ((((x \div WORD) % WORD) * q) % WORD) = (x \div p) % WORD
         /\ x < WORD => (x % WORD) \div p = (x \div p) % WORD
<1>0. WORD \in Nat /\ WORD > 0
  BY Sizes
<1> DEFINE low == x % WORD
           high == x \div WORD
           above == high % WORD
           g == low \div p
           h == low % p
           c == above \div p
           e == above % p
           t == high \div WORD
<1>1. low \in Word /\ high \in Nat /\ x = high * WORD + low
  BY <1>0 DEF Word
<1>2. above \in Word /\ t \in Nat /\ high = t * WORD + above
  <2> HIDE DEF high
  <2> QED BY <1>0, <1>1 DEF Word
<1> HIDE DEF low, high
<1>3. WORD = q * p
  BY <1>0
<1>4. g \in 0 .. q - 1 /\ h \in 0 .. p - 1 /\ low = g * p + h
  <2>1. low \div p \in 0 .. q - 1 /\ low % p \in 0 .. p - 1
    BY <1>1, <1>3, ShiftedWord
  <2>2. low \in Int
    BY <1>0, <1>1 DEF Word
  <2> QED BY <2>1, <2>2
<1>5. /\ c \in 0 .. q - 1 /\ e \in 0 .. p - 1 /\ above = c * p + e
      /\ (above * q) % WORD = e * q
  <2> HIDE DEF above, t
  <2>1. above \div p \in 0 .. q - 1 /\ above % p \in 0 .. p - 1 /\ (above * q) % WORD = (above % p) * q
    BY <1>2, <1>3, ShiftedWord
  <2>2. above \in Int
    BY <1>0, <1>2 DEF Word
  <2> QED BY <2>1, <2>2
<1> HIDE DEF above, t, g, h, c, e
<1>6. g + e * q \in 0 .. WORD - 1
  <2>1. g \in Nat /\ e \in Nat /\ g <= q - 1 /\ e <= p - 1
    BY <1>4, <1>5
  <2>2. e * q <= (p - 1) * q
    BY <2>1, TimesMonotone
  <2>3. (p - 1) * q = WORD - q
    BY <1>0
  <2>4. e * q \in Nat
    BY <2>1
  <2> QED BY <1>0, <2>1, <2>2, <2>3, <2>4
<1>7. x \div p = (t * q + c) * WORD + (g + e * q)
  <2>1. t \in Int /\ c \in Int /\ g \in Int /\ e \in Int /\ h \in Int /\ q \in Int /\ p \in Int
    BY <1>2, <1>4, <1>5
  <2> DEFINE y == (t * q + c) * WORD + (g + e * q)
  <2>2. y \in Int
    BY <2>1, <1>0
  <2>3. x = y * p + h
    <3>1. high * WORD = ((t * WORD + (c * p + e)) * WORD)
      BY <1>2, <1>5
    <3>2. (t * WORD + (c * p + e)) * WORD = ((t * q + c) * WORD) * p + (e * q) * p
      <4>1. (t * WORD + (c * p + e)) * WORD = (t * WORD) * WORD + (c * p) * WORD + e * WORD
        BY <1>0, <2>1
      <4>2. e * WORD = (e * q) * p
        BY <1>3, <2>1
      <4>3. ((t * q + c) * WORD) * p = (t * q) * WORD * p + c * WORD * p
        BY <1>0, <2>1
      <4>4. (t * q) * WORD * p = (t * WORD) * WORD
        <5>1. (t * q) * WORD * p = t * (q * p) * WORD
          BY <1>0, <2>1
        <5> QED BY <5>1, <1>3
      <4>5. c * WORD * p = (c * p) * WORD
        BY <1>0, <2>1
      <4> QED BY <4>1, <4>2, <4>3, <4>4, <4>5
    <3>3. y * p = ((t * q + c) * WORD) * p + (g + e * q) * p
      BY <1>0, <2>1
    <3>4. (g + e * q) * p = g * p + (e * q) * p
      BY <2>1
    <3> DEFINE m == ((t * q + c) * WORD) * p
               n == (e * q) * p
               k == g * p
    <3>5. m \in Int /\ n \in Int /\ k \in Int
      BY <1>0, <2>1
    <3>6. x = (m + n) + (k + h) /\ y * p = m + (k + n)
      BY <1>1, <1>4, <3>1, <3>2, <3>3, <3>4
    <3> HIDE DEF m, n, k, y
    <3> QED BY <2>1, <2>2, <3>5, <3>6
  <2>4. x \div p = y
    <3> HIDE DEF y
    <3> QED BY <1>4, <2>2, <2>3, DivideUnique
  <2> QED BY <2>4
<1>8. (x \div p) % WORD = g + e * q
  <2> DEFINE y == x \div p
             k == t * q + c
             d == g + e * q
  <2>1. y = k * WORD + d /\ d \in 0 .. WORD - 1 /\ k \in Int
    BY <1>2, <1>4, <1>5, <1>6, <1>7
  <2>2. y \in Int
    BY <1>0, <2>1
  <2> HIDE DEF y, k, d
  <2>3. y % WORD = d
    BY <1>0, <2>1, <2>2, DivideUnique
  <2> QED BY <2>3 DEF y, d
<1>9. (low \div p) + ((above * q) % WORD) = (x \div p) % WORD
  BY <1>5, <1>8 DEF g
<1>10. ASSUME x < WORD PROVE low \div p = (x \div p) % WORD
  <2>1. low = x /\ high = 0
    <3>1. x = 0 * WORD + x /\ x \in 0 .. WORD - 1 /\ x \in Int
      BY <1>0, <1>10
    <3>2. x \div WORD = 0 /\ x % WORD = x
      BY <1>0, <3>1, DivideUnique
    <3> QED BY <3>2 DEF low, high
  <2>2. above = 0
    BY <1>0, <2>1 DEF above
  <2>3. e = 0
    BY <2>2 DEF e
  <2>4. g \in Int /\ e * q = 0
    BY <1>4, <2>3
  <2> QED BY <1>8, <2>4 DEF g
<1> QED BY <1>9, <1>10 DEF low, high, above

\* The shift by some bits divides the number.
LEMMA BitsShifted ==
  ASSUME NEW n \in Nat, NEW x \in 0 .. Power(WORD, n) - 1,
         NEW k \in Nat, k < uECC_WORD_BITS
  PROVE  Shifted(WordsOf(x, n), k) = WordsOf(x \div Power(2, k), n)
<1>0. uECC_WORD_BITS \in Nat /\ uECC_WORD_BITS - k \in Nat /\ x \in Nat
  <2>1. uECC_WORD_BITS \in Nat
    BY ByteNumbers DEF uECC_WORD_BITS
  <2>2. Power(WORD, n) \in Nat
    BY Sizes
  <2> QED BY <2>1, <2>2
<1> DEFINE p == Power(2, k)
           q == Power(2, uECC_WORD_BITS - k)
           y == x \div p
           ws == WordsOf(x, n)
<1>1. p \in Nat /\ p > 0 /\ q \in Nat /\ q > 0
  BY <1>0, ByteNumbers
<1>2. WORD = p * q
  <2>1. Power(2, k + (uECC_WORD_BITS - k)) = p * q
    BY <1>0, PowerOfSum
  <2>2. k + (uECC_WORD_BITS - k) = uECC_WORD_BITS
    BY <1>0
  <2>3. Power(2, uECC_WORD_BITS) = WORD
    <3>1. Power(Power(2, BYTE_SIZE), uECC_WORD_SIZE) = Power(2, BYTE_SIZE * uECC_WORD_SIZE)
      BY ByteNumbers, PowerOfPower
    <3>2. BYTE_SIZE * uECC_WORD_SIZE = uECC_WORD_BITS
      BY ByteNumbers DEF uECC_WORD_BITS
    <3> QED BY <3>1, <3>2, ByteNumbers
  <2> QED BY <2>1, <2>2, <2>3
<1>3. Len(ws) = n
  BY <1>0, NumOfWords
<1>4. \A w \in 1 .. n : ws[w] = (x \div Power(WORD, w - 1)) % WORD
  BY DEF WordsOf
<1>5. \A w \in 1 .. n :
        /\ x \div Power(WORD, w - 1) \in Nat
        /\ Power(WORD, w - 1) \in Nat /\ Power(WORD, w - 1) > 0
        /\ y \div Power(WORD, w - 1) = (x \div Power(WORD, w - 1)) \div p
        /\ w < n => ws[w + 1] = ((x \div Power(WORD, w - 1)) \div WORD) % WORD
        /\ w = n => x \div Power(WORD, w - 1) < WORD
  <2> TAKE w \in 1 .. n
  <2> DEFINE m == Power(WORD, w - 1)
  <2>1. w - 1 \in Nat /\ m \in Nat /\ m > 0
    BY Sizes
  <2>2. Power(WORD, w) = WORD * m
    <3>1. Power(WORD, (w - 1) + 1) = WORD * m
      BY <2>1, Sizes, PowerSteps
    <3>2. (w - 1) + 1 = w
      OBVIOUS
    <3> QED BY <3>1, <3>2
  <2> HIDE DEF m, ws
  <2>3. x \div m \in Nat
    BY <1>0, <2>1
  <2>4. y \div m = (x \div m) \div p
    <3> HIDE DEF p
    <3>1. x \div (p * m) = (x \div p) \div m
      BY <1>0, <1>1, <2>1, DivideTwice
    <3>2. x \div (m * p) = (x \div m) \div p
      BY <1>0, <1>1, <2>1, DivideTwice
    <3>3. m * p = p * m
      BY <1>1, <2>1
    <3> QED BY <3>1, <3>2, <3>3
  <2>5. x \div (m * WORD) = (x \div m) \div WORD
    BY <1>0, <2>1, Sizes, DivideTwice
  <2>6. WORD * m = m * WORD
    BY <2>1, Sizes
  <2>7. ASSUME w < n PROVE ws[w + 1] = ((x \div m) \div WORD) % WORD
    <3>1. w + 1 \in 1 .. n /\ (w + 1) - 1 = w
      BY <2>7
    <3> QED BY <1>4, <2>2, <2>5, <2>6, <3>1
  <2>8. ASSUME w = n PROVE x \div m < WORD
    <3>1. x < WORD * m
      BY <1>0, <2>2, <2>8, Sizes
    <3> DEFINE d == x \div m
               e == x % m
    <3>2. d \in Nat /\ e \in Nat /\ x = d * m + e
      BY <1>0, <2>1
    <3> HIDE DEF d, e
    <3>3. d * m < WORD * m
      <4>1. d * m \in Int
        BY <2>1, <3>2
      <4> QED BY <1>0, <3>1, <3>2, <4>1, <2>1, Sizes
    <3>4. d < WORD
      BY <2>1, <3>2, <3>3, Sizes, TimesMonotone
    <3> QED BY <3>4 DEF d
  <2> QED BY <2>1, <2>3, <2>4, <2>7, <2>8 DEF m
<1>6. \A w \in 1 .. n :
        (ws[w] \div p) + (IF w < n THEN (ws[w + 1] * q) % WORD ELSE 0)
          = (y \div Power(WORD, w - 1)) % WORD
  <2> TAKE w \in 1 .. n
  <2> DEFINE z0 == x \div Power(WORD, w - 1)
  <2>1. /\ z0 \in Nat /\ ws[w] = z0 % WORD
        /\ y \div Power(WORD, w - 1) = z0 \div p
        /\ w < n => ws[w + 1] = (z0 \div WORD) % WORD
        /\ w = n => z0 < WORD
    BY <1>4, <1>5
  <2> HIDE DEF z0, p, q, y, ws
  <2>2. /\ ((z0 % WORD) \div p) + ((((z0 \div WORD) % WORD) * q) % WORD) = (z0 \div p) % WORD
        /\ z0 < WORD => (z0 % WORD) \div p = (z0 \div p) % WORD
    BY <1>1, <1>2, <2>1, ShiftedDigit
  <2>3. CASE w < n
    BY <2>1, <2>2, <2>3
  <2>4. CASE w = n
    <3>1. (ws[w] \div p) = (z0 \div p) % WORD
      BY <2>1, <2>2, <2>4
    <3>2. (z0 \div p) % WORD \in Nat
      <4>1. z0 \div p \in Int
        BY <1>1, <2>1
      <4> QED BY <4>1, Sizes
    <3> QED BY <2>1, <2>4, <3>1, <3>2
  <2> QED BY <2>3, <2>4
<1>7. Shifted(ws, k)
        = [w \in 1 .. n |-> (ws[w] \div p) + (IF w < n THEN (ws[w + 1] * q) % WORD ELSE 0)]
  <2> HIDE DEF ws
  <2> QED BY <1>3 DEF Shifted
<1> HIDE DEF p, q, y, ws
<1>8. Shifted(ws, k) = [w \in 1 .. n |-> (y \div Power(WORD, w - 1)) % WORD]
  BY <1>6, <1>7
<1> QED BY <1>8 DEF WordsOf, ws, y, p

\* The bytes of the words of a number are its bytes.
LEMMA FromNativeRight ==
  ASSUME NEW n \in Nat, NEW x \in Nat, NEW k \in Nat, x < Power(BYTE, k),
         k <= n * uECC_WORD_SIZE
  PROVE  BytesNum(NativeToBytes(WordsOf(x, n), k)) = x
<1> DEFINE ws == WordsOf(x, n)
           bytes == NativeToBytes(ws, k)
           digits == BytesOf(x, k)
<1>1. \A w \in 1 .. n : ws[w] = (x \div Power(WORD, w - 1)) % WORD
  BY DEF WordsOf
<1>2. \A j \in 1 .. k :
        (ws[((j - 1) \div uECC_WORD_SIZE) + 1] \div Power(BYTE, (j - 1) % uECC_WORD_SIZE)) % BYTE
          = digits[j]
  <2> TAKE j \in 1 .. k
  <2> DEFINE q == (j - 1) \div uECC_WORD_SIZE
             t == (j - 1) % uECC_WORD_SIZE
             y == x \div Power(WORD, q)
  <2>1. /\ q \in Nat /\ t \in 0 .. uECC_WORD_SIZE - 1 /\ j - 1 = q * uECC_WORD_SIZE + t
        /\ j - 1 \in Nat
    <3> DEFINE m == uECC_WORD_SIZE
               c == j - 1
    <3>1. m \in Nat /\ m > 0 /\ c \in Nat
      BY ByteNumbers
    <3> HIDE DEF m, c
    <3>2. c \div m \in Nat /\ c % m \in 0 .. m - 1 /\ c = (c \div m) * m + (c % m)
      BY <3>1
    <3> QED BY <3>1, <3>2 DEF m, c
  <2> HIDE DEF q, t
  <2>2. q + 1 \in 1 .. n
    <3>1. q * uECC_WORD_SIZE < n * uECC_WORD_SIZE
      <4>1. q * uECC_WORD_SIZE \in Nat /\ n * uECC_WORD_SIZE \in Nat
        BY <2>1, ByteNumbers
      <4> QED BY <2>1, <4>1, ByteNumbers
    <3>2. q < n
      BY <2>1, <3>1, ByteNumbers, TimesMonotone
    <3> QED BY <2>1, <3>2
  <2>3. y \in Nat
    <3> DEFINE p == Power(WORD, q)
    <3>1. p \in Nat /\ p > 0
      BY <2>1, Sizes
    <3> HIDE DEF p
    <3>2. x \div p \in Nat
      BY <3>1
    <3> QED BY <3>2 DEF p
  <2>4. ws[q + 1] = y % WORD
    <3>1. (q + 1) - 1 = q
      BY <2>1
    <3> QED BY <1>1, <2>2, <3>1
  <2>5. x \div Power(BYTE, j - 1) = y \div Power(BYTE, t)
    BY <2>1, ByteOfWord
  <2> DEFINE low == BytesOf(y, uECC_WORD_SIZE)
  <2> HIDE DEF y
  <2>6. low \in Seq(0 .. BYTE - 1) /\ Len(low) = uECC_WORD_SIZE /\ NumberOf(low, BYTE) = y % WORD
    BY <2>3, ByteNumbers, BytesOfRight
  <2>7. low[t + 1] = (y \div Power(BYTE, t)) % BYTE
    <3>1. t + 1 \in 1 .. uECC_WORD_SIZE /\ (t + 1) - 1 = t
      BY <2>1, ByteNumbers
    <3> QED BY <3>1 DEF BytesOf
  <2>8. low[t + 1] = ((y % WORD) \div Power(BYTE, t)) % BYTE
    <3> HIDE DEF low
    <3>1. t + 1 \in 1 .. Len(low) /\ (t + 1) - 1 = t
      BY <2>1, <2>6, ByteNumbers
    <3>2. low[t + 1] = (NumberOf(low, BYTE) \div Power(BYTE, (t + 1) - 1)) % BYTE
      BY <2>6, <3>1, ByteNumbers, DigitOfNumber
    <3> QED BY <2>6, <3>1, <3>2
  <2>9. digits[j] = (y \div Power(BYTE, t)) % BYTE
    BY <2>5 DEF BytesOf
  <2>10. (ws[q + 1] \div Power(BYTE, t)) % BYTE = digits[j]
    BY <2>4, <2>7, <2>8, <2>9
  <2> QED BY <2>10 DEF q, t
<1>3. bytes = [j \in 1 .. k |->
                 (ws[((k - j) \div uECC_WORD_SIZE) + 1]
                    \div Power(BYTE, (k - j) % uECC_WORD_SIZE)) % BYTE]
  BY DEF NativeToBytes
<1>4. Len(bytes) = k
  BY <1>3
<1>5. digits \in Seq(0 .. BYTE - 1) /\ Len(digits) = k
      /\ NumberOf(digits, BYTE) = x % Power(BYTE, k)
  BY BytesOfRight
<1>6. LowestFirst(bytes) = digits
  <2> HIDE DEF ws
  <2>1. \A j \in 1 .. k : bytes[k + 1 - j] = digits[j]
    <3> TAKE j \in 1 .. k
    <3>1. k + 1 - j \in 1 .. k /\ k - (k + 1 - j) = j - 1
      OBVIOUS
    <3> HIDE DEF bytes, digits
    <3> QED BY <1>2, <1>3, <3>1
  <2> HIDE DEF bytes
  <2>2. LowestFirst(bytes) = [j \in 1 .. k |-> bytes[k + 1 - j]]
    BY <1>4 DEF LowestFirst
  <2>3. LowestFirst(bytes) = [j \in 1 .. k |-> digits[j]]
    BY <2>1, <2>2
  <2> QED BY <2>3 DEF BytesOf
<1>7. x % Power(BYTE, k) = x
  <2> DEFINE p == Power(BYTE, k)
  <2>1. p \in Nat /\ p > 0 /\ x < p
    BY ByteNumbers
  <2> HIDE DEF p
  <2>2. x = 0 * p + x /\ x \in 0 .. p - 1 /\ x \in Int
    BY <2>1
  <2>3. x % p = x
    BY <2>1, <2>2, DivideUnique
  <2> QED BY <2>3 DEF p
<1> HIDE DEF bytes, digits
<1>8. BytesNum(bytes) = x
  BY <1>5, <1>6, <1>7 DEF BytesNum
<1> QED BY <1>8 DEF bytes, ws

\* A quotient rounded up.
LEMMA RoundedUpIs ==
  ASSUME NEW x \in Nat, x > 0, NEW m \in Nat, m > 0
  PROVE  /\ RoundedUp(x, m) \in Nat /\ RoundedUp(x, m) > 0
         /\ x <= RoundedUp(x, m) * m /\ (RoundedUp(x, m) - 1) * m < x
<1> DEFINE y == x + m - 1
           q == y \div m
           t == y % m
<1>1. y \in Nat /\ y >= m
  OBVIOUS
<1> HIDE DEF y
<1>2. q \in Int /\ t \in 0 .. m - 1 /\ y = m * q + t /\ q >= 0
  BY <1>1
<1> HIDE DEF q, t
<1>3. q > 0
  <2>1. CASE q = 0
    <3>1. m * q = 0
      BY <2>1
    <3> QED BY <1>1, <1>2, <3>1
  <2> QED BY <1>2, <2>1
<1>4. m * q = q * m /\ q * m \in Int /\ (q - 1) * m = q * m - m
  BY <1>2
<1>5. x <= q * m /\ (q - 1) * m < x
  BY <1>2, <1>4 DEF y
<1> QED BY <1>2, <1>3, <1>5 DEF RoundedUp, q, y

\* The bits, bytes and words of the order.
LEMMA OrderSizes ==
  ASSUME curve_n \in Nat, curve_n > 0
  PROVE  /\ num_bits \in Nat /\ num_n_bytes \in Nat /\ num_n_words \in Nat
         /\ num_bits <= num_n_bytes * BYTE_SIZE
         /\ (num_n_bytes - 1) * BYTE_SIZE < num_bits
         /\ num_n_bytes <= num_n_words * uECC_WORD_SIZE
         /\ Power(2, num_bits) \in Nat /\ curve_n < Power(2, num_bits)
         /\ Power(2, num_bits) <= curve_n + curve_n
<1>1. /\ num_bits \in Nat /\ num_bits > 0 /\ curve_n < Power(2, num_bits)
      /\ Power(2, num_bits - 1) <= curve_n
  BY NumBitsRight DEF num_bits
<1>2. BYTE_SIZE \in Nat /\ BYTE_SIZE > 0 /\ uECC_WORD_SIZE \in Nat /\ uECC_WORD_SIZE > 0
  BY ByteNumbers
<1>3. uECC_WORD_BITS \in Nat /\ uECC_WORD_BITS > 0 /\ uECC_WORD_BITS = uECC_WORD_SIZE * BYTE_SIZE
  <2>1. uECC_WORD_SIZE * BYTE_SIZE \in Nat
    BY <1>2
  <2>2. uECC_WORD_SIZE * BYTE_SIZE > 0
    BY <1>2
  <2> QED BY <2>1, <2>2 DEF uECC_WORD_BITS
<1>4. /\ num_n_bytes \in Nat /\ num_bits <= num_n_bytes * BYTE_SIZE
      /\ (num_n_bytes - 1) * BYTE_SIZE < num_bits
  BY <1>1, <1>2, RoundedUpIs DEF num_n_bytes
<1>5. num_n_words \in Nat /\ num_bits <= num_n_words * uECC_WORD_BITS
  BY <1>1, <1>3, RoundedUpIs DEF num_n_words
<1> HIDE DEF num_bits, num_n_bytes, num_n_words, BYTE_SIZE, uECC_WORD_BITS
<1>6. num_n_bytes <= num_n_words * uECC_WORD_SIZE
  <2> DEFINE k == num_n_words * uECC_WORD_SIZE
  <2>1. k \in Nat /\ num_n_words * uECC_WORD_BITS = k * BYTE_SIZE
    BY <1>2, <1>3, <1>5
  <2> HIDE DEF k
  <2>2. (num_n_bytes - 1) * BYTE_SIZE < k * BYTE_SIZE
    <3>1. (num_n_bytes - 1) * BYTE_SIZE \in Int /\ k * BYTE_SIZE \in Int
      BY <1>2, <1>4, <2>1
    <3> QED BY <1>1, <1>4, <1>5, <2>1, <3>1
  <2>3. CASE num_n_bytes = 0
    BY <2>1, <2>3 DEF k
  <2>4. CASE num_n_bytes > 0
    <3>1. num_n_bytes - 1 \in Nat
      BY <1>4, <2>4
    <3>2. num_n_bytes - 1 < k
      BY <1>2, <2>1, <2>2, <3>1, TimesMonotone
    <3> QED BY <1>4, <2>1, <3>2 DEF k
  <2> QED BY <1>4, <2>3, <2>4
<1>7. Power(2, num_bits) \in Nat /\ Power(2, num_bits) <= curve_n + curve_n
  <2>1. num_bits - 1 \in Nat /\ (num_bits - 1) + 1 = num_bits
    BY <1>1
  <2>2. Power(2, (num_bits - 1) + 1) = 2 * Power(2, num_bits - 1)
        /\ Power(2, num_bits - 1) \in Nat
    BY <2>1, PowerSteps
  <2> QED BY <1>1, <2>1, <2>2
<1> QED BY <1>1, <1>4, <1>5, <1>6, <1>7

\* Powers of a byte are powers of two, and those of a word powers of a byte.
LEMMA BytePowers ==
  ASSUME NEW k \in Nat
  PROVE  /\ k * BYTE_SIZE \in Nat /\ Power(BYTE, k) = Power(2, k * BYTE_SIZE)
         /\ Power(WORD, k) = Power(BYTE, k * uECC_WORD_SIZE)
<1>1. k * BYTE_SIZE \in Nat /\ k * BYTE_SIZE = BYTE_SIZE * k
      /\ k * uECC_WORD_SIZE = uECC_WORD_SIZE * k
  BY ByteNumbers
<1>2. Power(Power(2, BYTE_SIZE), k) = Power(2, BYTE_SIZE * k)
  BY ByteNumbers, PowerOfPower
<1>3. Power(Power(BYTE, uECC_WORD_SIZE), k) = Power(BYTE, uECC_WORD_SIZE * k)
  BY ByteNumbers, PowerOfPower
<1> QED BY <1>1, <1>2, <1>3, ByteNumbers

\* A number of as many bytes as the order fits into its words.
LEMMA OrderFits ==
  ASSUME curve_n \in Nat, curve_n > 0
  PROVE  /\ Power(2, num_bits) <= Power(BYTE, num_n_bytes)
         /\ Power(BYTE, num_n_bytes) <= Power(WORD, num_n_words)
         /\ Power(BYTE, num_n_bytes) \in Nat /\ Power(WORD, num_n_words) \in Nat
<1>1. /\ num_bits \in Nat /\ num_n_bytes \in Nat /\ num_n_words \in Nat
      /\ num_bits <= num_n_bytes * BYTE_SIZE
      /\ num_n_bytes <= num_n_words * uECC_WORD_SIZE
  BY OrderSizes
<1>2. num_n_bytes * BYTE_SIZE \in Nat /\ num_n_words * uECC_WORD_SIZE \in Nat
  BY <1>1, ByteNumbers
<1>3. Power(2, num_bits) <= Power(2, num_n_bytes * BYTE_SIZE)
  BY <1>1, <1>2, PowerMonotone
<1>4. Power(BYTE, num_n_bytes) <= Power(BYTE, num_n_words * uECC_WORD_SIZE)
  BY <1>1, <1>2, ByteNumbers, PowerMonotone
<1> QED BY <1>1, <1>3, <1>4, BytePowers, ByteNumbers, Sizes

\* The highest bytes of a number.
LEMMA CutRight ==
  ASSUME NEW bytes, IsBytes(bytes), NEW m \in 0 .. Len(bytes)
  PROVE  /\ IsBytes(SubSeq(bytes, 1, m)) /\ Len(SubSeq(bytes, 1, m)) = m
         /\ BytesNum(SubSeq(bytes, 1, m)) = BytesNum(bytes) \div Power(BYTE, Len(bytes) - m)
<1> DEFINE n == Len(bytes)
           low == SubSeq(bytes, 1, m)
           all == LowestFirst(bytes)
           high == SubSeq(all, (n - m) + 1, n)
<1>1. /\ low \in Seq(0 .. BYTE - 1) /\ Len(low) = m /\ n \in Nat /\ m \in Nat /\ m <= n
      /\ \A k \in 1 .. m : low[k] = bytes[k]
  <2> DEFINE T == 0 .. BYTE - 1
  <2>1. bytes \in Seq(T)
    BY DEF IsBytes
  <2> HIDE DEF T
  <2>2. /\ low \in Seq(T) /\ Len(low) = m /\ n \in Nat /\ m \in Nat /\ m <= n
        /\ \A k \in 1 .. m : low[k] = bytes[k]
    BY <2>1
  <2> QED BY <2>2 DEF T
<1> HIDE DEF low
<1>2. IsBytes(low)
  BY <1>1 DEF IsBytes
<1>3. /\ all \in Seq(0 .. BYTE - 1) /\ Len(all) = n
      /\ \A k \in 1 .. n : all[k] = bytes[n + 1 - k]
  BY LowestFirstIs DEF IsBytes
<1> HIDE DEF all
<1>4. /\ high \in Seq(0 .. BYTE - 1) /\ Len(high) = m
      /\ \A k \in 1 .. m : high[k] = all[(n - m) + k]
      /\ NumberOf(all, BYTE) \div Power(BYTE, n - m) = NumberOf(high, BYTE)
  <2>1. n - m \in 0 .. Len(all) /\ Len(all) - (n - m) = m
    BY <1>1, <1>3
  <2>2. BYTE \in Nat /\ BYTE > 0
    BY ByteNumbers
  <2> DEFINE c == n - m
             part == SubSeq(all, c + 1, Len(all))
  <2> HIDE DEF c
  <2>3. c \in 0 .. Len(all) /\ Len(all) - c = m
    BY <2>1 DEF c
  <2>4. /\ part \in Seq(0 .. BYTE - 1) /\ Len(part) = Len(all) - c
        /\ \A k \in 1 .. Len(all) - c : part[k] = all[c + k]
        /\ NumberOf(all, BYTE) \div Power(BYTE, c) = NumberOf(part, BYTE)
    BY <1>3, <2>2, <2>3, NumberCut
  <2>5. part = high
    BY <1>3 DEF c
  <2> HIDE DEF part, high, n
  <2> QED BY <2>3, <2>4, <2>5 DEF c
<1> HIDE DEF n, high
<1>5. \A k \in 1 .. m : high[k] = low[m + 1 - k]
  <2> TAKE k \in 1 .. m
  <2>1. (n - m) + k \in 1 .. n /\ n + 1 - ((n - m) + k) = m + 1 - k /\ m + 1 - k \in 1 .. m
    BY <1>1
  <2>2. high[k] = all[(n - m) + k]
    BY <1>4
  <2> DEFINE c == (n - m) + k
  <2> HIDE DEF c
  <2>3. c \in 1 .. n /\ n + 1 - c = m + 1 - k /\ high[k] = all[c]
    BY <2>1, <2>2 DEF c
  <2>4. all[c] = bytes[m + 1 - k]
    BY <1>3, <2>3
  <2>5. low[m + 1 - k] = bytes[m + 1 - k]
    BY <1>1, <2>1
  <2> QED BY <2>3, <2>4, <2>5
<1>6. high = LowestFirst(low)
  <2>1. \A q \in Seq(0 .. BYTE - 1) : q = [k \in 1 .. Len(q) |-> q[k]]
    <3> DEFINE T == 0 .. BYTE - 1
    <3> HIDE DEF T
    <3>1. \A q \in Seq(T) : q = [k \in 1 .. Len(q) |-> q[k]]
      OBVIOUS
    <3> QED BY <3>1 DEF T
  <2>2. high = [k \in 1 .. m |-> high[k]]
    BY <1>4, <2>1
  <2>3. LowestFirst(low) = [k \in 1 .. m |-> low[m + 1 - k]]
    BY <1>1 DEF LowestFirst
  <2> QED BY <1>5, <2>2, <2>3
<1>7. BytesNum(low) = BytesNum(bytes) \div Power(BYTE, n - m)
  BY <1>4, <1>6 DEF BytesNum, all
<1> QED BY <1>1, <1>2, <1>7 DEF low, n

\* The number of the bytes that are taken.
Taken == BytesNum(SubSeq(bits, 1, bits_size))

\* What bits2int() begins with.
BitsGiven == curve_n \in Nat /\ curve_n > 0 /\ IsBytes(bits)

\* What is taken has too few bits and is the number, or has some more, which
\* the shift removes.
LEMMA TakenRight ==
  ASSUME BitsGiven
  PROVE  /\ bits_size \in 0 .. Len(bits) /\ bits_size <= num_n_bytes
         /\ bits_size * BYTE_SIZE \in Nat
         /\ IsBytes(SubSeq(bits, 1, bits_size))
         /\ Taken \in Nat /\ Taken < Power(BYTE, num_n_bytes)
         /\ Leftmost \in Nat
         /\ bits_size * BYTE_SIZE <= num_bits => Leftmost = Taken
         /\ bits_size * BYTE_SIZE > num_bits =>
              /\ bits_size * BYTE_SIZE - num_bits \in Nat
              /\ bits_size * BYTE_SIZE - num_bits < uECC_WORD_BITS
              /\ Leftmost = Taken \div Power(2, bits_size * BYTE_SIZE - num_bits)
              /\ Leftmost < Power(2, num_bits)
<1> DEFINE n == Len(bits)
           nb == num_n_bytes
           k == bits_size
           all == BytesNum(bits)
           bs == BYTE_SIZE
           c == n - k
           part == SubSeq(bits, 1, k)
<1>1. /\ num_bits \in Nat /\ nb \in Nat /\ num_bits <= nb * bs
      /\ (nb - 1) * bs < num_bits
  BY OrderSizes DEF BitsGiven
<1>2. bs \in Nat /\ bs > 0 /\ uECC_WORD_SIZE \in Nat /\ uECC_WORD_SIZE > 0
  BY ByteNumbers
<1>3. n \in Nat /\ all \in Nat /\ all \in 0 .. Power(BYTE, n) - 1
  BY LowestFirstIs DEF BitsGiven
<1>4. k = IF n > nb THEN nb ELSE n
  BY DEF bits_size
<1> HIDE DEF n, nb, k
<1>5. k \in 0 .. n /\ k <= nb /\ k \in Nat /\ c \in Nat
  BY <1>1, <1>3, <1>4
<1>6. /\ IsBytes(part) /\ Len(part) = k /\ Taken = all \div Power(BYTE, c)
  <2>1. bits_size \in 0 .. Len(bits)
    BY <1>5 DEF k, n
  <2> QED BY <2>1, CutRight DEF BitsGiven, Taken, k, n
<1>7. Taken \in Nat /\ Taken < Power(BYTE, k) /\ Power(BYTE, k) \in Nat
  <2> HIDE DEF part
  <2>1. BytesNum(part) \in 0 .. Power(BYTE, Len(part)) - 1 /\ BytesNum(part) \in Nat
    BY <1>6, LowestFirstIs
  <2>2. Power(BYTE, k) \in Nat
    BY <1>5, ByteNumbers
  <2>3. Taken = BytesNum(part)
    BY DEF Taken, part, k
  <2> QED BY <1>6, <2>1, <2>2, <2>3
<1>8. Power(BYTE, k) <= Power(BYTE, nb) /\ Power(BYTE, nb) \in Nat
  BY <1>1, <1>5, ByteNumbers, PowerMonotone
<1>9. /\ c * bs \in Nat /\ k * bs \in Nat /\ n * bs \in Nat /\ nb * bs \in Nat
      /\ n * bs = c * bs + k * bs
      /\ Power(BYTE, c) = Power(2, c * bs) /\ Power(BYTE, k) = Power(2, k * bs)
      /\ Power(2, c * bs) \in Nat /\ Power(2, c * bs) > 0
  <2>1. c * bs \in Nat /\ k * bs \in Nat /\ n * bs \in Nat /\ nb * bs \in Nat
    BY <1>1, <1>2, <1>3, <1>5
  <2>2. n * bs = c * bs + k * bs
    BY <1>2, <1>3, <1>5
  <2>3. Power(BYTE, c) = Power(2, c * bs) /\ Power(BYTE, k) = Power(2, k * bs)
    BY <1>5, BytePowers
  <2> QED BY <2>1, <2>2, <2>3, ByteNumbers
<1>10. (nb - 1) * bs = nb * bs - bs
  BY <1>1, <1>2
<1>11. Leftmost = IF n * bs > num_bits THEN all \div Power(2, n * bs - num_bits) ELSE all
  BY DEF Leftmost, n
<1> HIDE DEF all, c, bs, part
<1>12. ASSUME k * bs <= num_bits PROVE Leftmost = Taken
  <2>1. CASE n <= nb
    <3>1. k = n /\ c = 0
      BY <1>1, <1>3, <1>4, <2>1 DEF c
    <3>2. Power(BYTE, 0) = 1 /\ all \div 1 = all
      BY <1>3, ByteNumbers, PowerSteps
    <3>3. ~ n * bs > num_bits
      BY <1>1, <1>9, <1>12, <3>1
    <3> QED BY <1>6, <1>11, <3>1, <3>2, <3>3
  <2>2. CASE n > nb
    <3>1. k = nb /\ nb * bs = num_bits
      BY <1>1, <1>4, <1>9, <1>12, <2>2
    <3>2. n * bs - num_bits = c * bs
      BY <1>1, <1>9, <3>1
    <3>3. c * bs > 0
      <4>1. c > 0
        BY <1>1, <1>3, <2>2, <3>1 DEF c
      <4> QED BY <1>2, <1>5, <4>1
    <3>4. n * bs > num_bits
      BY <1>1, <1>9, <3>2, <3>3
    <3> QED BY <1>6, <1>9, <1>11, <3>2, <3>4
  <2> QED BY <1>1, <1>3, <2>1, <2>2
<1>13. ASSUME k * bs > num_bits
       PROVE  /\ k * bs - num_bits \in Nat
              /\ k * bs - num_bits < uECC_WORD_BITS
              /\ Leftmost = Taken \div Power(2, k * bs - num_bits)
              /\ Leftmost < Power(2, num_bits)
  <2> DEFINE e == k * bs - num_bits
             p == Power(2, e)
             q == Power(2, c * bs)
             m == Power(2, num_bits)
  <2>1. e \in Nat /\ e < bs
    <3>1. k * bs <= nb * bs
      BY <1>1, <1>2, <1>5, TimesMonotone
    <3> QED BY <1>1, <1>2, <1>9, <1>10, <1>13, <3>1
  <2>2. e < uECC_WORD_BITS
    <3>1. bs <= uECC_WORD_SIZE * bs /\ uECC_WORD_SIZE * bs \in Nat
      <4>1. 1 * bs <= uECC_WORD_SIZE * bs
        BY <1>2, TimesMonotone
      <4> QED BY <1>2, <4>1
    <3> QED BY <1>2, <2>1, <3>1 DEF uECC_WORD_BITS, bs
  <2>3. n * bs - num_bits = c * bs + e /\ n * bs > num_bits
    BY <1>1, <1>9, <1>13
  <2>4. k * bs = num_bits + e
    BY <1>1, <1>9
  <2> HIDE DEF e
  <2>5. p \in Nat /\ p > 0 /\ m \in Nat /\ m > 0 /\ q \in Nat /\ q > 0
    BY <1>1, <1>9, <2>1, ByteNumbers
  <2>6. Power(2, c * bs + e) = q * p
    BY <1>9, <2>1, PowerOfSum
  <2>7. Power(BYTE, k) = m * p
    BY <1>1, <1>9, <2>1, <2>4, PowerOfSum
  <2>8. Leftmost = all \div (q * p)
    BY <1>11, <2>3, <2>6
  <2>9. all \div (q * p) = (all \div q) \div p
    <3> HIDE DEF q, p
    <3> QED BY <1>3, <2>5, DivideTwice
  <2>10. Leftmost = Taken \div p
    BY <1>6, <1>9, <2>8, <2>9
  <2>11. Taken \div p < m
    <3> HIDE DEF p, m
    <3> DEFINE d == Taken \div p
               f == Taken % p
    <3>1. d \in Nat /\ f \in Nat /\ Taken = d * p + f
      BY <1>7, <2>5
    <3> HIDE DEF d, f
    <3>2. d * p < m * p
      <4>1. d * p \in Int /\ m * p \in Int
        BY <2>5, <3>1
      <4> QED BY <1>7, <2>7, <3>1, <4>1
    <3>3. d < m
      BY <2>5, <3>1, <3>2, TimesMonotone
    <3> QED BY <3>3 DEF d
  <2> QED BY <2>1, <2>2, <2>10, <2>11 DEF e
<1>14. Leftmost \in Nat
  <2>1. CASE n * bs > num_bits
    <3> DEFINE p == Power(2, n * bs - num_bits)
    <3>1. n * bs - num_bits \in Nat
      BY <1>1, <1>9, <2>1
    <3>2. p \in Nat /\ p > 0
      BY <3>1, ByteNumbers
    <3> HIDE DEF p
    <3>3. all \div p \in Nat
      BY <1>3, <3>2
    <3> QED BY <1>11, <2>1, <3>3 DEF p
  <2> QED BY <1>3, <1>11, <2>1
<1>15. Taken < Power(BYTE, nb)
  BY <1>7, <1>8
<1> QED BY <1>5, <1>6, <1>7, <1>9, <1>12, <1>13, <1>14, <1>15 DEF n, nb, k, bs, part

\* The words that the steps begin with.
BitsInv ==
  /\ BitsGiven
  /\ bpc = "shift" => /\ bits_size * BYTE_SIZE > num_bits
                      /\ native = WordsOf(Taken, num_n_words)
  /\ bpc = "reduce" => /\ bits_size * BYTE_SIZE > num_bits
                       /\ native = WordsOf(Leftmost, num_n_words)
  /\ Bits2IntRight

\* The words of a number of as many bytes as the order.
LEMMA NativeNumber ==
  ASSUME BitsGiven, NEW x \in Nat, x < Power(BYTE, num_n_bytes)
  PROVE  /\ Num(WordsOf(x, num_n_words)) = x
         /\ BytesNum(NativeToBytes(WordsOf(x, num_n_words), num_n_bytes)) = x
         /\ x \in 0 .. Power(WORD, num_n_words) - 1
         /\ WordsOf(x, num_n_words) \in Seq(Word) /\ Len(WordsOf(x, num_n_words)) = num_n_words
<1>1. /\ num_n_bytes \in Nat /\ num_n_words \in Nat
      /\ num_n_bytes <= num_n_words * uECC_WORD_SIZE
  BY OrderSizes DEF BitsGiven
<1>2. /\ Power(BYTE, num_n_bytes) <= Power(WORD, num_n_words)
      /\ Power(BYTE, num_n_bytes) \in Nat /\ Power(WORD, num_n_words) \in Nat
  BY OrderFits DEF BitsGiven
<1>3. x \in 0 .. Power(WORD, num_n_words) - 1
  BY <1>2
<1>4. x % Power(WORD, num_n_words) = x
  <2> DEFINE p == Power(WORD, num_n_words)
  <2>1. p \in Nat /\ p > 0 /\ x \in 0 .. p - 1 /\ x = 0 * p + x /\ x \in Int
    BY <1>2, <1>3
  <2> HIDE DEF p
  <2>2. x % p = x
    BY <2>1, DivideUnique
  <2> QED BY <2>2 DEF p
<1> QED BY <1>1, <1>3, <1>4, NumOfWords, FromNativeRight

\* The words that are right at the end.
NativeRight ==
  /\ Num(native) % curve_n = Leftmost % curve_n
  /\ bits_size * BYTE_SIZE > num_bits => Num(native) < curve_n
  /\ BytesNum(NativeToBytes(native, num_n_bytes)) = Num(native)

\* The order and the hash stay.
LEMMA GivenStays ==
  ASSUME curve_n' = curve_n, bits' = bits
  PROVE  /\ num_bits' = num_bits /\ num_n_bytes' = num_n_bytes /\ num_n_words' = num_n_words
         /\ bits_size' = bits_size /\ Taken' = Taken /\ Leftmost' = Leftmost
         /\ BitsGiven' <=> BitsGiven
         /\ NativeRight' <=>
              /\ Num(native') % curve_n = Leftmost % curve_n
              /\ bits_size * BYTE_SIZE > num_bits => Num(native') < curve_n
              /\ BytesNum(NativeToBytes(native', num_n_bytes)) = Num(native')
<1>1. num_bits' = num_bits
  BY DEF num_bits
<1>2. num_n_bytes' = num_n_bytes /\ num_n_words' = num_n_words
  BY <1>1 DEF num_n_bytes, num_n_words
<1>3. bits_size' = bits_size
  BY <1>2 DEF bits_size
<1>4. Taken' = Taken
  BY <1>3 DEF Taken
<1>5. Leftmost' = Leftmost
  BY <1>1 DEF Leftmost
<1>6. BitsGiven' <=> BitsGiven
  BY DEF BitsGiven
<1> QED BY <1>1, <1>2, <1>3, <1>4, <1>5, <1>6 DEF NativeRight

LEMMA BitsStart == BitsInit => BitsInv
<1> SUFFICES ASSUME BitsInit PROVE BitsInv
  OBVIOUS
<1>1. BitsGiven
  BY VliBytesAssumption DEF BitsInit, BitsGiven, IsBytes
<1> QED BY <1>1 DEF BitsInit, BitsInv, Bits2IntRight

\* bits2int() up to the shift.
LEMMA TakeKeeps ==
  ASSUME BitsInv, Take
  PROVE  BitsInv'
<1>1. BitsGiven /\ curve_n' = curve_n /\ bits' = bits
  BY DEF BitsInv, Take
<1> DEFINE few == bits_size * BYTE_SIZE <= num_bits
<1>2. /\ Taken \in Nat /\ Taken < Power(BYTE, num_n_bytes) /\ num_n_words \in Nat
      /\ IsBytes(SubSeq(bits, 1, bits_size))
      /\ num_bits \in Nat /\ bits_size * BYTE_SIZE \in Nat
      /\ few => Leftmost = Taken
  BY <1>1, TakenRight, OrderSizes DEF BitsGiven
<1>3. native' = WordsOf(Taken, num_n_words)
  BY <1>2, ToNativeRight DEF Take, Taken
<1>4. /\ few => bpc' = "done"
      /\ ~ few => bpc' = "shift" /\ bits_size * BYTE_SIZE > num_bits
  BY <1>2 DEF Take
<1>5. ASSUME few PROVE NativeRight'
  <2>1. /\ Num(native') = Taken
        /\ BytesNum(NativeToBytes(native', num_n_bytes)) = Taken
    BY <1>1, <1>2, <1>3, NativeNumber
  <2>2. ~ bits_size * BYTE_SIZE > num_bits
    BY <1>2, <1>5
  <2> QED BY <1>1, <1>2, <1>5, <2>1, <2>2, GivenStays
<1>6. bpc' # "reduce"
  BY <1>4
<1> HIDE DEF few
<1>7. BitsGiven'
  BY <1>1, GivenStays
<1>8. bpc' = "shift" => /\ bits_size' * BYTE_SIZE > num_bits'
                        /\ native' = WordsOf(Taken', num_n_words')
  BY <1>1, <1>3, <1>4, GivenStays
<1>9. bpc' = "done" => NativeRight'
  BY <1>4, <1>5
<1> QED BY <1>6, <1>7, <1>8, <1>9 DEF BitsInv, Bits2IntRight, NativeRight

\* The loop over the words.
LEMMA ShiftKeeps ==
  ASSUME BitsInv, Shift
  PROVE  BitsInv'
<1>1. BitsGiven /\ curve_n' = curve_n /\ bits' = bits /\ bpc' = "reduce"
  BY DEF BitsInv, Shift
<1> DEFINE k == bits_size * BYTE_SIZE - num_bits
<1>2. bits_size * BYTE_SIZE > num_bits /\ native = WordsOf(Taken, num_n_words)
  BY DEF BitsInv, Shift
<1>3. /\ Taken \in Nat /\ Taken < Power(BYTE, num_n_bytes) /\ num_n_words \in Nat
      /\ k \in Nat /\ k < uECC_WORD_BITS /\ Leftmost = Taken \div Power(2, k)
  BY <1>1, <1>2, TakenRight, OrderSizes DEF BitsGiven
<1>4. Taken \in 0 .. Power(WORD, num_n_words) - 1
  BY <1>1, <1>3, NativeNumber
<1>5. native' = Shifted(native, k)
  BY DEF Shift
<1> HIDE DEF k
<1>6. native' = WordsOf(Leftmost, num_n_words)
  BY <1>2, <1>3, <1>4, <1>5, BitsShifted
<1>7. BitsGiven' /\ bits_size' * BYTE_SIZE > num_bits'
      /\ native' = WordsOf(Leftmost', num_n_words')
  BY <1>1, <1>2, <1>6, GivenStays
<1> QED BY <1>1, <1>7 DEF BitsInv, Bits2IntRight

\* The comparison and the subtraction.
LEMMA ReduceKeeps ==
  ASSUME BitsInv, Reduce
  PROVE  BitsInv'
<1>1. BitsGiven /\ curve_n' = curve_n /\ bits' = bits /\ bpc' = "done"
  BY DEF BitsInv, Reduce
<1>2. bits_size * BYTE_SIZE > num_bits /\ native = WordsOf(Leftmost, num_n_words)
  BY DEF BitsInv, Reduce
<1> DEFINE n == WordsOf(curve_n, num_n_words)
           x == Leftmost
           m == curve_n
           top == Power(BYTE, num_n_bytes)
           diff == vli_sub(native, n)
<1>3. /\ x \in Nat /\ x < Power(2, num_bits) /\ num_n_words \in Nat /\ num_n_bytes \in Nat
      /\ num_n_bytes <= num_n_words * uECC_WORD_SIZE
      /\ m \in Nat /\ m > 0 /\ m < Power(2, num_bits)
      /\ Power(2, num_bits) \in Nat /\ Power(2, num_bits) <= m + m
  BY <1>1, <1>2, TakenRight, OrderSizes DEF BitsGiven
<1>4. Power(2, num_bits) <= top /\ top \in Nat
  BY <1>1, OrderFits DEF BitsGiven
<1>5. x < top /\ m < top /\ x < m + m
  BY <1>3, <1>4
<1>6. /\ Num(native) = x /\ native \in Seq(Word) /\ Len(native) = num_n_words
      /\ Num(n) = m /\ n \in Seq(Word) /\ Len(n) = num_n_words
      /\ BytesNum(NativeToBytes(native, num_n_bytes)) = x
  BY <1>1, <1>2, <1>3, <1>5, NativeNumber
<1>7. native' = IF vli_cmp(n, native) # 1 THEN diff.words ELSE native
  BY DEF Reduce
<1>8. vli_cmp(n, native) = 1 <=> m > x
  <2> HIDE DEF n, x, m
  <2> QED BY <1>6, CmpRight
<1>9. CASE m > x
  <2>1. native' = native
    BY <1>7, <1>8, <1>9
  <2>2. NativeRight'
    BY <1>1, <1>6, <1>9, <2>1, GivenStays
  <2> QED BY <1>1, <2>2, GivenStays DEF BitsInv, Bits2IntRight, NativeRight
<1>10. CASE ~ m > x
  <2> HIDE DEF n
  <2>1. /\ diff.words \in Seq(Word) /\ Len(diff.words) = num_n_words /\ diff.borrow \in 0 .. 1
        /\ x + diff.borrow * Power(WORD, num_n_words) = Num(diff.words) + m
    BY <1>6, SubRight
  <2>2. native' = diff.words
    BY <1>7, <1>8, <1>10
  <2> DEFINE y == Num(diff.words)
             p == Power(WORD, num_n_words)
  <2>3. y \in Nat /\ y < p /\ p \in Nat
    BY <1>3, <2>1, NumRange, Sizes
  <2>4. y = x - m
    <3> DEFINE c == diff.borrow
    <3> HIDE DEF y, p, x, m, diff
    <3>1. c \in 0 .. 1 /\ x + c * p = y + m
      BY <2>1 DEF y, p
    <3> HIDE DEF c
    <3>2. CASE c = 0
      BY <1>3, <2>3, <3>1, <3>2
    <3>3. CASE c = 1
      BY <1>3, <1>10, <2>3, <3>1, <3>3
    <3> QED BY <3>1, <3>2, <3>3
  <2>5. y < m /\ y < top
    <3> HIDE DEF y, x, m, top
    <3> QED BY <1>3, <1>4, <1>5, <1>10, <2>4
  <2>6. diff.words = WordsOf(y, num_n_words)
    BY <2>1, WordsOfNum
  <2>7. BytesNum(NativeToBytes(diff.words, num_n_bytes)) = y
    <3> HIDE DEF y, diff
    <3> QED BY <1>1, <2>3, <2>5, <2>6, NativeNumber
  <2>8. y % m = x % m
    <3> HIDE DEF y, x, m
    <3>1. x \in Int /\ y \in Int /\ x - y = 1 * m
      BY <1>3, <2>3, <2>4
    <3>2. Same(x, y, m)
      BY <3>1 DEF Same
    <3> QED BY <1>3, <3>1, <3>2, SameRemainder
  <2>9. NativeRight'
    BY <1>1, <2>2, <2>5, <2>7, <2>8, GivenStays
  <2> QED BY <1>1, <2>9, GivenStays DEF BitsInv, Bits2IntRight, NativeRight
<1> QED BY <1>9, <1>10

\* Whatever the lengths, bits2int() takes the number of ECDSA, up to a
\* multiple of the order, and what it cut within a byte is reduced
\* (uECC.c:994-1013 and 1097-1133).
THEOREM BitsProved == BitsSpec => []Bits2IntRight
<1>1. BitsInv /\ [BitsNext]_bitsVars => BitsInv'
  <2> SUFFICES ASSUME BitsInv, [BitsNext]_bitsVars PROVE BitsInv'
    OBVIOUS
  <2>1. CASE Take
    BY <2>1, TakeKeeps
  <2>2. CASE Shift
    BY <2>2, ShiftKeeps
  <2>3. CASE Reduce
    BY <2>3, ReduceKeeps
  <2>4. CASE UNCHANGED bitsVars
    <3>1. /\ bpc' = bpc /\ curve_n' = curve_n /\ bits' = bits /\ native' = native
      BY <2>4 DEF bitsVars
    <3>2. NativeRight' <=> NativeRight
      BY <3>1, GivenStays DEF NativeRight
    <3> QED BY <3>1, <3>2, GivenStays DEF BitsInv, Bits2IntRight, NativeRight
  <2> QED BY <2>1, <2>2, <2>3, <2>4 DEF BitsNext
<1>2. BitsInv => Bits2IntRight
  BY DEF BitsInv
<1> QED BY <1>1, <1>2, BitsStart, PTL DEF BitsSpec

=============================================================================
