------------------------- MODULE Handshake_proofs -------------------------
(***************************************************************************)
(* Handshake for every message whose first byte does not come again, every *)
(* set of stale bytes, every timeout and every number of kills and losses. *)
(*                                                                         *)
(* The matcher of uart_expect_msg() does not try the byte that ends a      *)
(* match as the first of the next one, so i is less than what the bytes    *)
(* received would allow.  HandshakeInv says exactly when: i bytes of the   *)
(* message have just come (Sound), and where k of them have come although  *)
(* i is not k, a piece of another message came right before (Complete).    *)
(***************************************************************************)
EXTENDS Handshake, TLAPS, SequenceTheorems

\* The first k bytes of the message came, and d bytes behind them.
Came(g, d, k) ==
  /\ d + k <= Len(g)
  /\ \A j \in 1 .. k : g[Len(g) - (d + k) + j] = MSG[j]

Sound == Came(got, 0, i)

Complete ==
  \A k \in 1 .. Len(MSG) :
    Came(got, 0, k) =>
      i = k \/ (i = 0 /\ \E m \in 1 .. Len(MSG) - 1 : Came(got, k, m))

HandshakeInv ==
  /\ HandshakeTypeOK
  /\ mcu = "expect" => i < Len(MSG)
  /\ mcu = "accepted" => i = Len(MSG)
  /\ mcu # "timeout" => Sound /\ Complete

-----------------------------------------------------------------------------
(* Sequences.                                                              *)

\* The handshake is a sequence of bytes, the first of which does not come again.
LEMMA Message ==
  /\ MSG \in Seq(Bytes) /\ Len(MSG) \in Nat /\ Len(MSG) > 0
  /\ \A k \in 1 .. Len(MSG) : MSG[k] \in Bytes
  /\ \A k \in 2 .. Len(MSG) : MSG[k] # MSG[1]
BY HandshakeAssumption DEF Bytes

\* A byte more, and the oldest dropped when there are too many.
LEMMA OneMore ==
  ASSUME NEW g \in Seq(Bytes), Len(g) <= 2 * Len(MSG), NEW b \in Bytes
  PROVE  LET h == Latest(Append(g, b)) IN
           /\ h \in Seq(Bytes) /\ Len(h) <= 2 * Len(MSG) /\ Len(h) > 0
           /\ Len(h) = Len(g) + 1 \/ (Len(h) = 2 * Len(MSG) /\ Len(g) = Len(h))
           /\ h[Len(h)] = b
           /\ \A d \in 1 .. Len(h) - 1 : h[Len(h) - d] = g[Len(g) + 1 - d]
<1> DEFINE a == Append(g, b)
           h == Latest(a)
<1>1. /\ a \in Seq(Bytes) /\ Len(a) = Len(g) + 1 /\ Len(g) \in Nat
      /\ a[Len(a)] = b /\ \A j \in 1 .. Len(g) : a[j] = g[j]
  OBVIOUS
<1>2. Len(MSG) \in Nat /\ Len(MSG) > 0
  BY Message
<1> HIDE DEF a
<1>3. CASE Len(a) <= 2 * Len(MSG)
  <2>1. h = a
    BY <1>1, <1>2, <1>3 DEF Latest
  <2>2. \A d \in 1 .. Len(a) - 1 : a[Len(a) - d] = g[Len(g) + 1 - d]
    BY <1>1
  <2> QED BY <1>1, <1>3, <2>1, <2>2 DEF a
<1>4. CASE ~(Len(a) <= 2 * Len(MSG))
  <2>1. h = Tail(a)
    BY <1>1, <1>2, <1>4 DEF Latest
  <2>2. /\ Tail(a) \in Seq(Bytes) /\ Len(Tail(a)) = Len(a) - 1
        /\ \A j \in 1 .. Len(a) - 1 : Tail(a)[j] = a[j + 1]
    BY <1>1
  <2>3. Len(g) = 2 * Len(MSG) /\ Len(h) = Len(g)
    <3>1. \A x, y \in Nat : x <= y /\ ~(x + 1 <= y) => x = y
      OBVIOUS
    <3>2. 2 * Len(MSG) \in Nat /\ Len(a) - 1 = Len(g)
      BY <1>1, <1>2
    <3>3. ~(Len(g) + 1 <= 2 * Len(MSG))
      BY <1>1, <1>4
    <3> QED BY <1>1, <2>1, <2>2, <3>1, <3>2, <3>3
  <2>4. h[Len(h)] = b
    <3>1. Len(h) \in 1 .. Len(a) - 1 /\ Len(h) + 1 = Len(a)
      BY <1>1, <1>2, <2>3
    <3> QED BY <1>1, <2>1, <2>2, <3>1
  <2>5. ASSUME NEW d \in 1 .. Len(h) - 1
        PROVE  h[Len(h) - d] = g[Len(g) + 1 - d]
    <3>1. /\ Len(h) - d \in 1 .. Len(a) - 1
          /\ Len(h) - d + 1 = Len(g) + 1 - d /\ Len(g) + 1 - d \in 1 .. Len(g)
      BY <1>1, <1>2, <2>3
    <3> QED BY <1>1, <2>1, <2>2, <3>1
  <2>6. Len(h) = 2 * Len(MSG) /\ Len(g) = Len(h) /\ Len(h) > 0
    BY <1>2, <2>3
  <2>7. h \in Seq(Bytes) /\ Len(h) <= 2 * Len(MSG)
    BY <1>2, <2>1, <2>2, <2>6
  <2> QED BY <2>4, <2>5, <2>6, <2>7 DEF a
<1> QED BY <1>3, <1>4

\* What came before the byte, and what it completes.
LEMMA CameStep ==
  ASSUME NEW g \in Seq(Bytes), Len(g) <= 2 * Len(MSG), NEW b \in Bytes,
         NEW h, h = Latest(Append(g, b)), NEW d \in Nat, NEW k \in Nat,
         d + k < 2 * Len(MSG)
  PROVE  /\ Came(g, d, k) => Came(h, d + 1, k)
         /\ k < Len(MSG) => (Came(h, 0, k + 1) <=> Came(g, 0, k) /\ b = MSG[k + 1])
<1>1. /\ h \in Seq(Bytes) /\ Len(h) <= 2 * Len(MSG) /\ Len(h) > 0
      /\ Len(h) = Len(g) + 1 \/ (Len(h) = 2 * Len(MSG) /\ Len(g) = Len(h))
      /\ h[Len(h)] = b
      /\ \A e \in 1 .. Len(h) - 1 : h[Len(h) - e] = g[Len(g) + 1 - e]
  BY OneMore
<1>2. Len(g) \in Nat /\ Len(h) \in Nat /\ Len(MSG) \in Nat
  BY <1>1, Message
<1>3. ASSUME Came(g, d, k)
      PROVE  Came(h, d + 1, k)
  <2>1. d + 1 + k <= Len(h)
    BY <1>1, <1>2, <1>3 DEF Came
  <2>2. ASSUME NEW j \in 1 .. k
        PROVE  h[Len(h) - (d + 1 + k) + j] = MSG[j]
    <3>1. /\ d + 1 + k - j \in 1 .. Len(h) - 1
          /\ Len(h) - (d + 1 + k - j) = Len(h) - (d + 1 + k) + j
          /\ Len(g) + 1 - (d + 1 + k - j) = Len(g) - (d + k) + j
      BY <1>2, <2>1
    <3>2. h[Len(h) - (d + 1 + k - j)] = g[Len(g) + 1 - (d + 1 + k - j)]
      BY <1>1, <3>1
    <3>3. g[Len(g) - (d + k) + j] = MSG[j]
      BY <1>3 DEF Came
    <3> QED BY <3>1, <3>2, <3>3
  <2> QED BY <2>1, <2>2 DEF Came
<1>4. ASSUME k < Len(MSG)
      PROVE  Came(h, 0, k + 1) <=> Came(g, 0, k) /\ b = MSG[k + 1]
  <2>1. k + 1 <= Len(h) <=> k <= Len(g)
    <3>1. \A x, y, z \in Nat :
            /\ k < z /\ (y = x + 1 \/ (y = 2 * z /\ x = y))
            => (k + 1 <= y <=> k <= x)
      OBVIOUS
    <3> QED BY <1>1, <1>2, <1>4, <3>1
  <2>2. k + 1 \in 1 .. k + 1 /\ Len(h) - (0 + (k + 1)) + (k + 1) = Len(h)
    BY <1>2
  <2>3. ASSUME k <= Len(g), NEW j \in 1 .. k
        PROVE  h[Len(h) - (0 + (k + 1)) + j] = g[Len(g) - (0 + k) + j]
    <3>1. /\ k + 1 - j \in 1 .. Len(h) - 1
          /\ Len(h) - (k + 1 - j) = Len(h) - (0 + (k + 1)) + j
          /\ Len(g) + 1 - (k + 1 - j) = Len(g) - (0 + k) + j
      BY <1>2, <2>1, <2>3
    <3>2. h[Len(h) - (k + 1 - j)] = g[Len(g) + 1 - (k + 1 - j)]
      BY <1>1, <3>1
    <3> QED BY <3>1, <3>2
  <2>4. ASSUME Came(h, 0, k + 1)
        PROVE  Came(g, 0, k) /\ b = MSG[k + 1]
    <3>1. k <= Len(g)
      BY <2>1, <2>4, <1>2 DEF Came
    <3>2. \A j \in 1 .. k + 1 : h[Len(h) - (0 + (k + 1)) + j] = MSG[j]
      BY <2>4 DEF Came
    <3>3. b = MSG[k + 1]
      BY <1>1, <2>2, <3>2
    <3>4. \A j \in 1 .. k : j \in 1 .. k + 1
      OBVIOUS
    <3>5. \A j \in 1 .. k : g[Len(g) - (0 + k) + j] = MSG[j]
      BY <2>3, <3>1, <3>2, <3>4
    <3> QED BY <1>2, <3>1, <3>3, <3>5 DEF Came
  <2>5. ASSUME Came(g, 0, k), b = MSG[k + 1]
        PROVE  Came(h, 0, k + 1)
    <3>1. k <= Len(g) /\ \A j \in 1 .. k : g[Len(g) - (0 + k) + j] = MSG[j]
      BY <1>2, <2>5 DEF Came
    <3>2. ASSUME NEW j \in 1 .. k + 1
          PROVE  h[Len(h) - (0 + (k + 1)) + j] = MSG[j]
      <4>1. CASE j = k + 1
        BY <1>1, <2>2, <2>5, <4>1
      <4>2. CASE j # k + 1
        <5>1. j \in 1 .. k
          BY <4>2
        <5> QED BY <2>3, <3>1, <5>1
      <4> QED BY <4>1, <4>2
    <3> QED BY <1>2, <2>1, <3>1, <3>2 DEF Came
  <2> QED BY <2>4, <2>5
<1> QED BY <1>3, <1>4

\* Only one beginning of the message can have come last.
LEMMA CameOnce ==
  ASSUME NEW g \in Seq(Bytes), NEW k \in 1 .. Len(MSG), NEW m \in 1 .. Len(MSG),
         Came(g, 0, k), Came(g, 0, m)
  PROVE  ~(k < m)
<1> SUFFICES ASSUME k < m PROVE FALSE
  OBVIOUS
<1>1. Len(g) \in Nat /\ Len(MSG) \in Nat /\ k \in Nat /\ m \in Nat
  BY Message
<1>2. /\ m - k + 1 \in 2 .. Len(MSG) /\ m - k + 1 \in 1 .. m /\ 1 \in 1 .. k
      /\ Len(g) - (0 + m) + (m - k + 1) = Len(g) - (0 + k) + 1
  BY <1>1
<1>3. g[Len(g) - (0 + k) + 1] = MSG[1]
  BY <1>2 DEF Came
<1>4. g[Len(g) - (0 + m) + (m - k + 1)] = MSG[m - k + 1]
  BY <1>2 DEF Came
<1> QED BY <1>2, <1>3, <1>4, Message

-----------------------------------------------------------------------------

\* Each step keeps the types.
LEMMA TypeStep ==
  ASSUME HandshakeTypeOK, mcu = "expect" => i < Len(MSG), HandshakeNext
  PROVE  HandshakeTypeOK'
<1> USE DEF HandshakeTypeOK
<1>1. Len(MSG) \in Nat /\ Len(MSG) > 0 /\ MaxWire \in Nat /\ MaxLost \in Nat
      /\ MaxKills \in Nat /\ TIMEOUT \in Nat
  BY Message, HandshakeAssumption
<1>2. wire # << >> =>
        /\ Head(wire) \in Bytes /\ Tail(wire) \in Seq(Bytes)
        /\ Len(Tail(wire)) <= MaxWire
  BY <1>1
<1>3. wire # << >> =>
        LET h == Latest(Append(got, Head(wire)))
        IN  h \in Seq(Bytes) /\ Len(h) <= 2 * Len(MSG)
  BY <1>2, OneMore
<1>4. CASE PollEmpty
  BY <1>1, <1>4 DEF PollEmpty
<1>5. CASE PollLast
  BY <1>1, <1>2, <1>3, <1>5 DEF PollLast
<1>6. CASE PollByte
  <2>1. i' \in 0 .. Len(MSG)
    BY <1>1, <1>6 DEF PollByte, Matched
  <2>2. timeout_us' \in 1 .. TIMEOUT
    BY <1>1, <1>6 DEF PollByte
  <2> QED BY <1>2, <1>3, <1>6, <2>1, <2>2 DEF PollByte
<1>7. CASE SendByte
  <2>1. MSG[next + 1] \in Bytes
    BY <1>1, <1>7, Message DEF SendByte
  <2>2. Append(wire, MSG[next + 1]) \in Seq(Bytes)
        /\ Len(Append(wire, MSG[next + 1])) = Len(wire) + 1 /\ Len(wire) \in Nat
    BY <2>1
  <2> QED BY <1>1, <1>7, <2>2 DEF SendByte
<1>8. CASE ReadTimeout
  BY <1>1, <1>8 DEF ReadTimeout
<1>9. CASE Restart
  BY <1>1, <1>9 DEF Restart
<1>10. CASE LoseByte
  BY <1>1, <1>2, <1>10 DEF LoseByte
<1> QED
  BY <1>4, <1>5, <1>6, <1>7, <1>8, <1>9, <1>10 DEF HandshakeNext, Poll

\* A byte that is polled keeps the index of the matcher sound and complete.
LEMMA PollStep ==
  ASSUME HandshakeInv, PollByte
  PROVE  Sound' /\ Complete'
<1> DEFINE L == Len(MSG)
           b == Head(wire)
<1>1. /\ got \in Seq(Bytes) /\ Len(got) <= 2 * L /\ b \in Bytes
      /\ got' = Latest(Append(got, b))
      /\ i \in Nat /\ i < L /\ L \in Nat /\ L > 0
  BY Message DEF HandshakeInv, HandshakeTypeOK, PollByte
<1>2. Sound /\ Complete
  BY DEF HandshakeInv, PollByte
<1>3. got' \in Seq(Bytes)
  BY <1>1, OneMore
<1>4. \A k \in Nat : k < L =>
        (Came(got', 0, k + 1) <=> Came(got, 0, k) /\ b = MSG[k + 1])
  BY <1>1, 0 \in Nat, CameStep
<1>5. \A d, k \in Nat : d + k < 2 * L /\ Came(got, d, k) => Came(got', d + 1, k)
  BY <1>1, CameStep
<1>6. i' = IF b = MSG[i + 1] THEN i + 1 ELSE 0
  BY DEF PollByte, Matched
<1> HIDE DEF b
<1>7. CASE b = MSG[i + 1]
  <2>1. Came(got', 0, i + 1) /\ i' = i + 1
    BY <1>1, <1>2, <1>4, <1>6, <1>7 DEF Sound
  <2>2. ASSUME NEW k \in 1 .. L, Came(got', 0, k)
        PROVE  i + 1 = k
    <3>1. i + 1 \in 1 .. L
      BY <1>1
    <3>2. ~(i + 1 < k) /\ ~(k < i + 1)
      BY <1>3, <2>1, <2>2, <3>1, CameOnce
    <3> QED BY <1>1, <3>2
  <2> QED BY <2>1, <2>2 DEF Sound, Complete
<1>8. CASE b # MSG[i + 1]
  <2>1. i' = 0
    BY <1>6, <1>8
  <2>2. Sound'
    <3>1. Len(got') \in Nat
      BY <1>3
    <3> QED BY <2>1, <3>1 DEF Sound, Came
  <2>3. ASSUME NEW k \in 1 .. L, Came(got', 0, k)
        PROVE  \E m \in 1 .. L - 1 : Came(got', k, m)
    <3>1. k - 1 \in Nat /\ k - 1 < L /\ (k - 1) + 1 = k
      BY <1>1
    <3>2. Came(got, 0, k - 1) /\ b = MSG[k]
      BY <1>4, <2>3, <3>1
    <3>3. CASE k = 1
      <4>1. i # 0 /\ i \in 1 .. L - 1
        BY <1>1, <1>8, <3>2, <3>3
      <4>2. Came(got, 0, i) /\ 0 + i < 2 * L
        BY <1>1, <1>2 DEF Sound
      <4>3. Came(got', 0 + 1, i)
        BY <1>1, <1>5, <4>2, 0 \in Nat
      <4> QED BY <3>3, <4>1, <4>3
    <3>4. CASE k # 1
      <4>1. k - 1 \in 1 .. L
        BY <1>1, <3>4
      <4>2. i # k - 1
        BY <1>8, <3>1, <3>2
      <4>3. PICK m \in 1 .. L - 1 : Came(got, k - 1, m)
        BY <1>2, <3>2, <4>1, <4>2 DEF Complete
      <4>4. m \in Nat /\ (k - 1) + m < 2 * L
        BY <1>1
      <4>5. Came(got', (k - 1) + 1, m)
        BY <1>5, <3>1, <4>3, <4>4
      <4> QED BY <3>1, <4>5
    <3> QED BY <3>3, <3>4
  <2> QED BY <2>1, <2>2, <2>3 DEF Complete
<1> QED BY <1>7, <1>8

\* HandshakeInv is an invariant.
LEMMA HandshakeInvariance == HandshakeSpec => []HandshakeInv
<1>1. HandshakeInit => HandshakeInv
  <2> SUFFICES ASSUME HandshakeInit PROVE HandshakeInv
    OBVIOUS
  <2>1. Len(MSG) \in Nat /\ Len(MSG) > 0 /\ MaxWire \in Nat
        /\ MaxWire >= Len(MSG) /\ TIMEOUT \in Nat \ {0}
        /\ MaxKills \in Nat /\ MaxLost \in Nat
    BY Message, HandshakeAssumption
  <2>2. wire \in Seq(Bytes) /\ Len(wire) <= MaxWire
    <3>1. << >> \in Seq(Bytes) /\ Len(<< >>) <= MaxWire
      BY <2>1
    <3>2. \A b \in Stale : <<b>> \in Seq(Bytes) /\ Len(<<b>>) <= MaxWire
      <4>1. \A b \in Stale : b \in Bytes
        BY DEF Bytes
      <4> QED BY <2>1, <4>1
    <3>3. ASSUME NEW k \in 2 .. Len(MSG)
          PROVE  SubSeq(MSG, k, Len(MSG)) \in Seq(Bytes)
                 /\ Len(SubSeq(MSG, k, Len(MSG))) <= MaxWire
      <4>1. k \in Int /\ Len(MSG) \in Int /\ k >= 2 /\ k <= Len(MSG)
        BY <2>1
      <4>2. \A j \in k .. Len(MSG) : MSG[j] \in Bytes
        BY <2>1, <4>1, Message
      <4>3. /\ SubSeq(MSG, k, Len(MSG)) \in Seq(Bytes)
            /\ Len(SubSeq(MSG, k, Len(MSG))) = Len(MSG) - k + 1
        BY <4>1, <4>2, SubSeqProperties
      <4> QED BY <2>1, <4>1, <4>3
    <3> QED BY <3>1, <3>2, <3>3 DEF HandshakeInit
  <2>3. << >> \in Seq(Bytes) /\ Len(<< >>) = 0
    OBVIOUS
  <2>4. HandshakeTypeOK
    BY <2>1, <2>2, <2>3 DEF HandshakeInit, HandshakeTypeOK
  <2>5. \A k \in 1 .. Len(MSG) : ~Came(<< >>, 0, k)
    BY <2>3 DEF Came
  <2>6. Came(<< >>, 0, 0)
    BY <2>3 DEF Came
  <2> QED BY <2>1, <2>4, <2>5, <2>6 DEF HandshakeInit, HandshakeInv, Sound, Complete
<1>2. HandshakeInv /\ [HandshakeNext]_handshakeVars => HandshakeInv'
  <2> SUFFICES ASSUME HandshakeInv, [HandshakeNext]_handshakeVars
               PROVE  HandshakeInv'
    OBVIOUS
  <2>1. CASE UNCHANGED handshakeVars
    BY <2>1 DEF HandshakeInv, HandshakeTypeOK, Sound, Complete, handshakeVars
  <2>2. CASE HandshakeNext
    <3>1. HandshakeTypeOK'
      BY <2>2, TypeStep DEF HandshakeInv
    <3>2. CASE PollByte
      <4>1. Sound' /\ Complete'
        BY <3>2, PollStep
      <4>2. /\ i' = Len(MSG) => mcu' = "accepted"
            /\ i' # Len(MSG) => mcu' = "expect"
        BY <3>2 DEF PollByte
      <4>3. i' \in 0 .. Len(MSG) /\ Len(MSG) \in Nat
        BY <3>1, Message DEF HandshakeTypeOK
      <4> QED BY <3>1, <4>1, <4>2, <4>3 DEF HandshakeInv
    <3>3. CASE PollLast
      BY <3>1, <3>3 DEF PollLast, HandshakeInv
    <3>4. CASE ~PollByte /\ ~PollLast
      <4>1. /\ UNCHANGED <<i, got>>
            /\ mcu = "expect" /\ mcu' \in {"expect", "timeout"}
        BY <2>2, <3>4 DEF HandshakeNext, Poll, PollEmpty, SendByte, ReadTimeout,
           Restart, LoseByte
      <4> QED BY <3>1, <4>1 DEF HandshakeInv, Sound, Complete
    <3> QED BY <3>2, <3>3, <3>4
  <2> QED BY <2>1, <2>2
<1> QED BY <1>1, <1>2, PTL DEF HandshakeSpec

\* The types, and the timeout that is over exactly when the polls are.
THEOREM HandshakeTypeCorrect == HandshakeSpec => []HandshakeTypeOK
BY HandshakeInvariance, PTL DEF HandshakeInv

(***************************************************************************)
(* AcceptsOnlyHandshake (uart.c:47-66) for every message, whatever is on   *)
(* the line before it and however often the tool begins again.             *)
(***************************************************************************)
THEOREM AcceptTheorem == HandshakeSpec => []AcceptsOnlyHandshake
<1>1. HandshakeInv => AcceptsOnlyHandshake
  <2> SUFFICES ASSUME HandshakeInv, mcu = "accepted"
               PROVE  /\ Len(got) >= Len(MSG)
                      /\ SubSeq(got, Len(got) - Len(MSG) + 1, Len(got)) = MSG
    BY DEF AcceptsOnlyHandshake
  <2> DEFINE L == Len(MSG)
             s == SubSeq(got, Len(got) - L + 1, Len(got))
  <2>1. Came(got, 0, L) /\ got \in Seq(Bytes) /\ L \in Nat /\ L > 0
    BY Message DEF HandshakeInv, HandshakeTypeOK, Sound
  <2>2. Len(got) \in Nat /\ L <= Len(got)
    BY <2>1 DEF Came
  <2>3. \A j \in Len(got) - L + 1 .. Len(got) : got[j] \in Bytes
    <3>1. \A j \in Len(got) - L + 1 .. Len(got) : j \in 1 .. Len(got)
      BY <2>1, <2>2
    <3> QED BY <2>1, <3>1
  <2>4. Len(got) - L + 1 \in Int /\ Len(got) \in Int
        /\ Len(got) - L + 1 <= Len(got)
        /\ Len(got) - (Len(got) - L + 1) + 1 = L
    BY <2>1, <2>2
  <2>5. /\ s \in Seq(Bytes) /\ Len(s) = L
        /\ \A j \in 1 .. L : s[j] = got[Len(got) - L + 1 + j - 1]
    BY <2>3, <2>4, SubSeqProperties
  <2>6. \A j \in 1 .. L : Len(got) - L + 1 + j - 1 = Len(got) - (0 + L) + j
    BY <2>1, <2>2
  <2>7. \A j \in 1 .. L : s[j] = MSG[j]
    BY <2>1, <2>5, <2>6 DEF Came
  <2>8. MSG \in Seq(Bytes)
    BY Message
  <2>9. s = MSG
    BY <2>5, <2>7, <2>8, SeqEqual
  <2> QED BY <2>1, <2>2, <2>9
<1> QED BY <1>1, HandshakeInvariance, PTL

(***************************************************************************)
(* SecondHandshakeHeard (README.md:214, uart.c:58-61, btld.py:117-128) for *)
(* every message whose first byte does not come again: after two messages  *)
(* in a row the MCU does not wait any longer, whatever came before them.   *)
(***************************************************************************)
THEOREM SecondTheorem == HandshakeSpec => []SecondHandshakeHeard
<1>1. HandshakeInv => SecondHandshakeHeard
  <2> SUFFICES ASSUME HandshakeInv, mcu = "expect", got = MSG \o MSG
               PROVE  FALSE
    BY DEF SecondHandshakeHeard
  <2> DEFINE L == Len(MSG)
  <2>1. L \in Nat /\ L > 0 /\ MSG \in Seq(Bytes) /\ Complete /\ i < L /\ i \in Nat
    BY Message DEF HandshakeInv, HandshakeTypeOK
  <2>2. /\ Len(got) = L + L
        /\ \A j \in 1 .. L : got[j] = MSG[j] /\ got[L + j] = MSG[j]
    BY <2>1
  <2>3. Came(got, 0, L)
    <3>1. Len(got) - (0 + L) = L /\ 0 + L <= Len(got)
      BY <2>1, <2>2
    <3> QED BY <2>2, <3>1 DEF Came
  <2>4. PICK m \in 1 .. L - 1 : Came(got, L, m)
    BY <2>1, <2>3 DEF Complete
  <2>5. /\ Len(got) - (L + m) + 1 = L - m + 1
        /\ L - m + 1 \in 2 .. L /\ L - m + 1 \in 1 .. L /\ 1 \in 1 .. m
    BY <2>1, <2>2
  <2>6. got[Len(got) - (L + m) + 1] = MSG[1]
    BY <2>4, <2>5 DEF Came
  <2>7. got[L - m + 1] = MSG[L - m + 1]
    BY <2>2, <2>5
  <2> QED BY <2>5, <2>6, <2>7, Message
<1> QED BY <1>1, HandshakeInvariance, PTL
=============================================================================
