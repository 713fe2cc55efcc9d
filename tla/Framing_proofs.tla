-------------------------- MODULE Framing_proofs --------------------------
(***************************************************************************)
(* The properties of Framing for every alphabet, every size of msg[] and   *)
(* every set of messages, those that are too long for msg[] included.      *)
(*                                                                         *)
(* The heart is InTransit: while a clean message that fits crosses the     *)
(* line, what the buffer holds is exactly the part of the message that has *)
(* arrived.                                                                *)
(***************************************************************************)
EXTENDS Framing, SequenceTheorems, TLAPS

\* While the host is in ser.write() there is something left to send.
HostProgress ==
  /\ hpc = "send" => pos <= Len(out) + 1
  /\ escSent => pos \in 1 .. Len(out) /\ out[pos] \in Special

\* START and the first n bytes of a message that fits are in the buffer.
Collected(n) ==
  Fits(out) => /\ i = n + 1
               /\ msg[0] = START
               /\ \A k \in 1 .. n : msg[k] = out[k]

\* The message has not been handed over yet and this is where it stands:
\* nothing sent; START on the line; between two bytes; ESC on the line; a
\* byte of the message on the line; END on the line.
AtStart == pos = 0 /\ wire = NoByte /\ ~escaped

StartOnWire == pos = 1 /\ ~escSent /\ wire = START /\ ~escaped

Between ==
  /\ pos \in 1 .. Len(out) + 1 /\ wire = NoByte
  /\ Collected(pos - 1) /\ escaped = escSent

EscOnWire ==
  /\ pos \in 1 .. Len(out) /\ escSent
  /\ wire = ESC /\ Collected(pos - 1) /\ ~escaped

ByteOnWire ==
  /\ pos \in 2 .. Len(out) + 1 /\ ~escSent
  /\ wire = out[pos - 1] /\ Collected(pos - 2)
  /\ escaped = (out[pos - 1] \in Special)

EndOnWire ==
  /\ pos = Len(out) + 2
  /\ wire = END /\ Collected(Len(out)) /\ ~escaped

InTransit ==
  AtStart \/ StartOnWire \/ Between \/ EscOnWire \/ ByteOnWire \/ EndOnWire

\* The message has been handed over.
Arrived == pos = Len(out) + 2 /\ wire = NoByte

FramingInv ==
  /\ FramingTypeOK
  /\ HostProgress
  /\ clean => InTransit \/ Arrived

-----------------------------------------------------------------------------

\* The index after the next byte is in the buffer.
LEMMA FollowingType ==
  ASSUME NEW k \in 0 .. MSG_SIZ - 1
  PROVE  Following(k) \in 0 .. MSG_SIZ - 1
BY BufferAssumption DEF Following

\* A message is a sequence of bytes and is not empty.
LEMMA MessageType ==
  ASSUME NEW m \in Messages
  PROVE  /\ m \in Seq(Byte) /\ Len(m) \in Nat \ {0}
         /\ \A k \in 1 .. Len(m) : m[k] \in Byte
<1>1. m \in Seq(Byte) /\ m # << >>
  BY MessagesAssumption
<1> QED BY <1>1, EmptySeq, ElementOfSeq

\* The last index of the buffer is a number.
LEMMA MessageSizeType == MSG_SIZ - 1 \in Nat
BY BufferAssumption

\* Storing a byte changes the buffer there and nowhere else.
LEMMA BufferWrite ==
  ASSUME NEW m \in Buffer, NEW k \in 0 .. MSG_SIZ - 1, NEW b \in Byte
  PROVE  /\ [m EXCEPT ![k] = b] \in Buffer
         /\ [m EXCEPT ![k] = b][k] = b
         /\ \A j \in 0 .. MSG_SIZ - 1 : j # k => [m EXCEPT ![k] = b][j] = m[j]
BY MessageSizeType DEF Buffer

\* What stands in the buffer behind START is a sequence of bytes.
LEMMA FramePayload ==
  ASSUME NEW m \in Buffer, NEW n \in 2 .. MSG_SIZ - 1
  PROVE  [k \in 1 .. n - 1 |-> m[k]] \in Seq(Byte)
<1>1. \A k \in 1 .. n - 1 : m[k] \in Byte
  BY BufferAssumption DEF Buffer
<1>2. n - 1 \in Nat
  BY BufferAssumption
<1>3. [k \in 1 .. n - 1 |-> m[k]] \in [1 .. n - 1 -> Byte]
  BY <1>1
<1> QED BY <1>2, <1>3, SeqDef

\* What a step does to the buffer: it stores the byte it got at i, and at 0
\* too if it is a START that begins a new frame.
LEMMA BufferStep ==
  ASSUME FramingTypeOK, [FramingNext]_framingVars
  PROVE  msg' \in Buffer
<1> USE DEF FramingTypeOK
<1>1. START \in Byte /\ END \in Byte /\ 0 \in 0 .. MSG_SIZ - 1
  BY BufferAssumption DEF Byte, Special
<1>2. CASE ReceiveEscaped
  <2>1. PICK b \in Byte : msg' = [msg EXCEPT ![i] = b]
    BY <1>2 DEF ReceiveEscaped
  <2> QED BY <2>1, BufferWrite
<1>3. CASE ReceiveStart
  <2>1. [msg EXCEPT ![i] = START] \in Buffer
    BY <1>1, BufferWrite
  <2>2. [[msg EXCEPT ![i] = START] EXCEPT ![0] = START] \in Buffer
    BY <1>1, <2>1, BufferWrite
  <2> QED BY <1>3, <2>2 DEF ReceiveStart
<1>4. CASE ReceiveEnd
  BY <1>4, <1>1, BufferWrite DEF ReceiveEnd
<1>5. CASE ReceiveOther
  <2>1. PICK b \in Byte : msg' = [msg EXCEPT ![i] = b]
    BY <1>5 DEF ReceiveOther
  <2> QED BY <2>1, BufferWrite
<1>6. CASE ~Receive
  BY <1>6 DEF FramingNext, Send, Receive, StartMessage, SendEsc, SendByte,
              ReadReply, GiveUp, BreakOff, LoseByte, framingVars, mcuVars
<1>7. CASE ReceiveEsc
  BY <1>7 DEF ReceiveEsc
<1> QED BY <1>2, <1>3, <1>4, <1>5, <1>6, <1>7 DEF Receive

\* Each step hands over bytes, if anything.
LEMMA HandledStep ==
  ASSUME FramingTypeOK, [FramingNext]_framingVars
  PROVE  handled' \in Seq(Byte)
<1> USE DEF FramingTypeOK
<1>1. CASE ReceiveEnd /\ i > 1
  <2>1. END \in Byte /\ i \in 2 .. MSG_SIZ - 1
    BY <1>1 DEF Byte, Special
  <2>2. [msg EXCEPT ![i] = END] \in Buffer
    BY <2>1, BufferWrite
  <2>3. \A m \in Buffer : [k \in 1 .. i - 1 |-> m[k]] \in Seq(Byte)
    BY <2>1, FramePayload
  <2> QED BY <1>1, <2>2, <2>3 DEF ReceiveEnd
<1>2. CASE ReceiveEnd /\ ~(i > 1)
  BY <1>2 DEF ReceiveEnd
<1>3. CASE StartMessage
  BY <1>3, EmptySeq DEF StartMessage
<1>4. CASE ~ReceiveEnd /\ ~StartMessage
  BY <1>4 DEF FramingNext, Send, Receive, SendEsc, SendByte,
    ReadReply, GiveUp, BreakOff, LoseByte, ReceiveEsc, ReceiveEscaped, ReceiveStart,
    ReceiveOther, framingVars, mcuVars
<1> QED BY <1>1, <1>2, <1>3, <1>4

\* Type correctness, one step per conjunct.
LEMMA FramingTypeStep ==
  ASSUME FramingTypeOK, HostProgress, [FramingNext]_framingVars
  PROVE  FramingTypeOK' /\ HostProgress'
<1> USE DEF FramingNext, Send, Receive, StartMessage, SendEsc, SendByte,
      ReadReply, GiveUp, BreakOff, LoseByte, ReceiveEsc, ReceiveEscaped, ReceiveStart,
      ReceiveEnd, ReceiveOther, Got, framingVars, hostVars, mcuVars
<1>1. hpc' \in {"idle", "send", "wait"} /\ out' \in Messages
  BY DEF FramingTypeOK
<1>2. pos' \in 0 .. Len(out') + 2
  BY MessageType DEF FramingTypeOK, HostProgress
<1>3. HostProgress'
  BY MessageType DEF FramingTypeOK, HostProgress
<1>4. wire' \in Byte \cup {NoByte}
  BY MessageType DEF FramingTypeOK, Byte, Special
<1>5. lost' \in 0 .. MaxLost
  BY MaxLostAssumption DEF FramingTypeOK
<1>6. escSent' \in BOOLEAN /\ reply' \in BOOLEAN /\ escaped' \in BOOLEAN
  BY DEF FramingTypeOK
<1>7. clean' \in BOOLEAN
  BY DEF FramingTypeOK
<1>8. i' \in 0 .. MSG_SIZ - 1
  BY BufferAssumption DEF FramingTypeOK, Following
<1>9. msg' \in Buffer
  BY ONLY FramingTypeOK, [FramingNext]_framingVars, BufferStep
<1>10. handled' \in Seq(Byte)
  BY ONLY FramingTypeOK, [FramingNext]_framingVars, HandledStep
<1> QED
  BY ONLY <1>1, <1>2, <1>3, <1>4, <1>5, <1>6, <1>7, <1>8, <1>9, <1>10
  DEF FramingTypeOK

\* FramingInv holds initially.
LEMMA FramingInit1 == FramingInit => FramingInv
<1> SUFFICES ASSUME FramingInit PROVE FramingInv OBVIOUS
<1>1. out \in Messages /\ Len(out) \in Nat \ {0}
  BY MessageType DEF FramingInit
<1>2. << >> \in Seq(Byte)
  BY EmptySeq
<1>3. escSent \in BOOLEAN /\ reply \in BOOLEAN /\ escaped \in BOOLEAN /\ clean \in BOOLEAN
  BY DEF FramingInit
<1>4. FramingTypeOK
  BY <1>1, <1>2, <1>3, MaxLostAssumption, BufferAssumption
  DEF FramingInit, FramingTypeOK
<1>5. HostProgress /\ InTransit
  BY DEF FramingInit, HostProgress, InTransit, AtStart
<1> QED BY <1>4, <1>5 DEF FramingInv

(***************************************************************************)
(* Whatever the host sends and the line loses, fw_receive never writes     *)
(* outside msg[] (main.c:146) and the indices keep their types.            *)
(***************************************************************************)
THEOREM FramingTypeCorrect == FramingSpec => []FramingTypeOK
<1>1. FramingTypeOK /\ HostProgress /\ [FramingNext]_framingVars
        => (FramingTypeOK /\ HostProgress)'
  BY FramingTypeStep
<1>2. FramingInit => FramingTypeOK /\ HostProgress
  BY FramingInit1 DEF FramingInv
<1> QED BY <1>1, <1>2, PTL DEF FramingSpec

-----------------------------------------------------------------------------
(* Delivery.                                                               *)

\* Each step of a clean message moves it on, or it has arrived.
LEMMA TransitStep ==
  ASSUME FramingInv, [FramingNext]_framingVars, clean'
  PROVE  InTransit' \/ Arrived'
<1> USE DEF FramingInv, FramingTypeOK, HostProgress
<1>0. /\ Len(out) \in Nat \ {0}
      /\ \A k \in 1 .. Len(out) : out[k] \in Byte
      /\ MSG_SIZ \in Nat /\ MSG_SIZ >= 3
      /\ msg \in Buffer /\ i \in 0 .. MSG_SIZ - 1 /\ pos \in Nat
  BY MessageType, BufferAssumption
<1>b. /\ START # END /\ START # ESC /\ END # ESC
      /\ NoByte \notin Byte /\ START \in Byte /\ END \in Byte /\ ESC \in Byte
      /\ \A x : x \in Special <=> x \in {START, END, ESC}
  BY ByteAssumption DEF Byte, Special
<1>1. CASE StartMessage
  BY <1>1 DEF StartMessage, mcuVars, InTransit, AtStart
<1>2. CASE SendEsc
  <2>1. clean /\ Between
    BY <1>2, <1>0, <1>b DEF SendEsc, InTransit, Arrived, AtStart, StartOnWire,
       EscOnWire, ByteOnWire, EndOnWire
  <2>2. EscOnWire'
    BY <1>2, <2>1 DEF SendEsc, mcuVars, Between, EscOnWire, Collected
  <2> QED BY <2>2 DEF InTransit
<1>3. CASE SendByte
  <2>1. clean /\ (AtStart \/ Between)
    BY <1>3, <1>0, <1>b DEF SendByte, InTransit, Arrived, StartOnWire,
       EscOnWire, ByteOnWire, EndOnWire
  <2>2. CASE pos = 0
    <3>1. StartOnWire'
      BY <1>3, <2>1, <2>2 DEF SendByte, mcuVars, AtStart, StartOnWire, Between
    <3> QED BY <3>1 DEF InTransit
  <2>3. CASE pos \in 1 .. Len(out)
    <3>1. ByteOnWire'
      BY <1>3, <1>0, <2>1, <2>3
      DEF SendByte, mcuVars, AtStart, ByteOnWire, Between, Collected
    <3> QED BY <3>1 DEF InTransit
  <2>4. CASE pos = Len(out) + 1
    <3>1. EndOnWire'
      BY <1>3, <1>0, <2>1, <2>4
      DEF SendByte, mcuVars, AtStart, EndOnWire, Between, Collected
    <3> QED BY <3>1 DEF InTransit
  <2> QED BY <1>0, <2>1, <2>2, <2>3, <2>4 DEF AtStart, Between
<1>4. CASE ReadReply \/ GiveUp \/ UNCHANGED framingVars
  <2>1. /\ pos' = pos /\ out' = out /\ escSent' = escSent /\ wire' = wire
        /\ msg' = msg /\ i' = i /\ escaped' = escaped /\ clean
    BY <1>4 DEF ReadReply, GiveUp, framingVars, hostVars, mcuVars
  <2> QED BY <2>1 DEF InTransit, Arrived, AtStart, StartOnWire, Between,
       EscOnWire, ByteOnWire, EndOnWire, Collected
<1>5. CASE BreakOff \/ LoseByte
  BY <1>5 DEF BreakOff, LoseByte
<1>6. CASE Receive
  <2>0. /\ pos' = pos /\ out' = out /\ escSent' = escSent /\ clean
        /\ wire' = NoByte /\ wire # NoByte
    BY <1>6, <1>b DEF Receive, ReceiveEsc, ReceiveEscaped, ReceiveStart,
       ReceiveEnd, ReceiveOther, Got, hostVars
  <2>1. StartOnWire \/ EscOnWire \/ ByteOnWire \/ EndOnWire
    BY <2>0 DEF InTransit, Arrived, AtStart, Between
  <2>2. CASE StartOnWire
    <3>1. ReceiveStart \/ ReceiveOther
      BY <1>6, <2>2, <1>b
      DEF StartOnWire, Receive, ReceiveEsc, ReceiveEscaped, ReceiveEnd, Got
    <3>2. i' = 1 /\ msg'[0] = START /\ escaped' = escaped
      <4>1. CASE ReceiveStart
        BY <4>1, <1>0 DEF ReceiveStart, Buffer
      <4>2. CASE ReceiveOther
        BY <4>2, <2>2, <1>0, <1>b
        DEF ReceiveOther, Got, StartOnWire, Following, Buffer
      <4> QED BY <3>1, <4>1, <4>2
    <3>3. Between'
      BY <2>0, <2>2, <3>2, <1>0 DEF StartOnWire, Between, Collected
    <3> QED BY <3>3 DEF InTransit
  <2>3. CASE EscOnWire
    <3>1. ReceiveEsc
      BY <1>6, <2>3, <1>b DEF EscOnWire, Receive, ReceiveEscaped,
         ReceiveStart, ReceiveEnd, ReceiveOther, Got
    <3>2. Between'
      BY <2>0, <2>3, <3>1 DEF EscOnWire, ReceiveEsc, Between, Collected
    <3> QED BY <3>2 DEF InTransit
  <2>4. CASE ByteOnWire
    <3>1. ReceiveEscaped \/ ReceiveOther
      BY <1>6, <2>4, <1>b, <1>0 DEF ByteOnWire, Receive, ReceiveEsc,
         ReceiveStart, ReceiveEnd, Got
    <3>2. /\ msg' = [msg EXCEPT ![i] = out[pos - 1]]
          /\ i' = Following(i)
          /\ ~escaped'
      BY <3>1, <2>4 DEF ByteOnWire, ReceiveEscaped, ReceiveOther, Got
    <3>3. pos \in 2 .. Len(out) + 1
      BY <2>4 DEF ByteOnWire
    <3>4. ASSUME Fits(out) PROVE i = pos - 1 /\ i + 1 < MSG_SIZ /\ i' = pos
      BY <2>4, <3>2, <3>3, <3>4, <1>0 DEF ByteOnWire, Collected, Fits, Following
    <3>5. ASSUME Fits(out)
          PROVE  msg'[0] = START /\ \A k \in 1 .. pos - 1 : msg'[k] = out[k]
      BY <3>2, <3>3, <3>4, <3>5, <2>4, <1>0 DEF ByteOnWire, Collected, Buffer
    <3>6. escaped' = escSent'
      BY <2>0, <2>4, <3>2, FramingTypeStep, Zenon DEF ByteOnWire
    <3>7. pos' \in 1 .. Len(out') + 1 /\ wire' = NoByte
      BY <2>0, <3>3
    <3>8. Collected(pos - 1)'
      BY <2>0, <3>3, <3>4, <3>5 DEF Collected, Fits
    <3>9. Between'
      BY ONLY <3>6, <3>7, <3>8, Zenon DEF Between
    <3> QED BY <3>9 DEF InTransit
  <2>5. CASE EndOnWire
    BY <2>0, <2>5 DEF EndOnWire, Arrived
  <2> QED BY <2>1, <2>2, <2>3, <2>4, <2>5
<1> QED
  BY <1>1, <1>2, <1>3, <1>4, <1>5, <1>6 DEF FramingNext, Send

\* FramingInv is an invariant.
LEMMA FramingInvariance == FramingSpec => []FramingInv
<1>1. FramingInv /\ [FramingNext]_framingVars => FramingInv'
  <2> SUFFICES ASSUME FramingInv, [FramingNext]_framingVars PROVE FramingInv'
    OBVIOUS
  <2>1. FramingTypeOK' /\ HostProgress'
    BY FramingTypeStep DEF FramingInv
  <2>2. clean' => InTransit' \/ Arrived'
    BY TransitStep
  <2> QED BY <2>1, <2>2 DEF FramingInv
<1> QED BY <1>1, FramingInit1, PTL DEF FramingSpec

(***************************************************************************)
(* message_handle() gets exactly what the host sent (main.c:137-180 and    *)
(* encode_for_uart), for every message that fits in msg[], every number of *)
(* bytes lost before it and everything they left in the buffer.            *)
(***************************************************************************)
THEOREM DeliveryTheorem == FramingSpec => DeliveredIntact
<1>1. FramingInv => [clean /\ Fits(out) /\ ReceiveEnd => handled' = out]_framingVars
  <2> SUFFICES ASSUME FramingInv, clean, Fits(out), ReceiveEnd
               PROVE  handled' = out
    OBVIOUS
  <2> USE DEF FramingInv, FramingTypeOK
  <2>0. /\ out \in Seq(Byte) /\ Len(out) \in Nat \ {0}
        /\ Len(out) <= MSG_SIZ - 2
        /\ \A k \in 1 .. Len(out) : out[k] \in Byte
    BY MessageType DEF Fits
  <2>b. /\ START # END /\ ESC # END /\ NoByte # END /\ END \in Special
    BY ByteAssumption DEF Byte, Special
  <2>1. EndOnWire
    BY <2>0, <2>b DEF InTransit, Arrived, AtStart, StartOnWire, Between,
       EscOnWire, ByteOnWire, ReceiveEnd, Got
  <2>2. i = Len(out) + 1 /\ \A k \in 1 .. Len(out) : msg[k] = out[k]
    BY <2>1 DEF EndOnWire, Collected
  <2>3. handled' = [k \in 1 .. Len(out) |-> [msg EXCEPT ![i] = END][k]]
    BY <2>0, <2>2 DEF ReceiveEnd
  <2>4. \A k \in 1 .. Len(out) : [msg EXCEPT ![i] = END][k] = out[k]
    BY <2>0, <2>2, BufferAssumption DEF Buffer
  <2>5. out = [k \in 1 .. Len(out) |-> out[k]]
    BY <2>0, LenProperties
  <2> QED BY <2>3, <2>4, <2>5
<1> QED BY <1>1, FramingInvariance, PTL DEF FramingSpec, DeliveredIntact

-----------------------------------------------------------------------------
(* Stop and wait on a line that loses nothing.                             *)

InStep ==
  /\ clean
  /\ hpc = "idle" => wire = NoByte /\ ~escaped /\ ~reply
  /\ hpc = "send" => ~reply
  /\ hpc = "wait" => pos = Len(out) + 2
  /\ EndOnWire => ~reply
  /\ Arrived => ~escaped /\ (reply => i = 0)

\* On a line that loses nothing each step keeps InStep.
LEMMA InStepStep ==
  ASSUME FramingInv, InStep, lost = 0, lost' = 0,
         [FramingNext]_framingVars
  PROVE  InStep'
<1> USE DEF FramingInv, FramingTypeOK, HostProgress, InStep
<1>0. /\ Len(out) \in Nat \ {0} /\ pos \in Nat
      /\ \A k \in 1 .. Len(out) : out[k] \in Byte
      /\ START # END /\ START # ESC /\ END # ESC /\ NoByte \notin Byte
      /\ START \in Byte /\ END \in Byte /\ ESC \in Byte
  BY MessageType, ByteAssumption DEF Byte, Special
<1>1. CASE StartMessage
  <2>1. /\ hpc' = "send" /\ pos' = 0 /\ wire' = wire /\ ~reply /\ reply' = reply
        /\ Len(out') \in Nat \ {0} /\ wire = NoByte /\ ~escaped
    BY <1>1, MessageType DEF StartMessage
  <2>2. clean'
    BY <1>1, <2>1 DEF StartMessage
  <2> QED BY <2>1, <2>2 DEF EndOnWire, Arrived
<1>2. CASE SendEsc
  <2>1. /\ hpc' = hpc /\ hpc = "send" /\ pos' = pos /\ out' = out
        /\ reply' = reply /\ clean' = clean /\ pos \in 1 .. Len(out)
    BY <1>2 DEF SendEsc
  <2> QED BY <2>1, <1>0 DEF EndOnWire, Arrived
<1>3. CASE SendByte
  <2>1. /\ hpc = "send" /\ pos' = pos + 1 /\ out' = out
        /\ reply' = reply /\ clean' = clean
        /\ hpc' = (IF pos > Len(out) THEN "wait" ELSE "send")
        /\ pos \in 0 .. Len(out) + 1
        /\ wire' # NoByte
    BY <1>3, <1>0 DEF SendByte
  <2> QED BY <2>1, <1>0 DEF EndOnWire, Arrived
<1>4. CASE ReadReply
  <2>1. /\ hpc = "wait" /\ reply /\ hpc' = "idle" /\ ~reply'
        /\ pos' = pos /\ out' = out /\ wire' = wire /\ escaped' = escaped
        /\ i' = i /\ clean' = clean
    BY <1>4 DEF ReadReply, mcuVars
  <2>2. Arrived
    BY <2>1, <1>0
    DEF InTransit, AtStart, StartOnWire, Between, EscOnWire, ByteOnWire
  <2> QED BY <2>1, <2>2 DEF Arrived, EndOnWire
<1>5. CASE GiveUp \/ BreakOff \/ LoseByte
  <2>1. CASE GiveUp
    <3>1. /\ hpc = "wait" /\ ~reply /\ wire = NoByte /\ hpc' = "idle"
          /\ pos' = pos /\ out' = out /\ wire' = wire /\ escaped' = escaped
          /\ reply' = reply /\ clean' = clean
      BY <2>1 DEF GiveUp, mcuVars
    <3>2. Arrived
      BY <3>1 DEF Arrived
    <3> QED BY <3>1, <3>2, <1>0 DEF Arrived, EndOnWire
  <2>2. CASE BreakOff \/ LoseByte
    <3>1. lost' = lost + 1
      BY <2>2 DEF BreakOff, LoseByte
    <3> QED BY <3>1
  <2> QED BY <1>5, <2>1, <2>2
<1>6. CASE Receive
  <2>1. /\ hpc' = hpc /\ pos' = pos /\ out' = out /\ clean' = clean
        /\ wire' = NoByte /\ wire # NoByte /\ hpc # "idle"
    BY <1>6, <1>0 DEF Receive, ReceiveEsc, ReceiveEscaped, ReceiveStart,
       ReceiveEnd, ReceiveOther, Got, hostVars
  <2>2. CASE EndOnWire
    <3>1. ReceiveEnd \/ ReceiveOther
      BY <1>6, <2>2, <1>0
      DEF EndOnWire, Receive, ReceiveEsc, ReceiveEscaped, ReceiveStart, Got
    <3>2. (reply' => i' = 0) /\ ~escaped'
      <4>1. CASE ReceiveEnd
        BY <4>1, <2>2 DEF ReceiveEnd, EndOnWire
      <4>2. CASE ReceiveOther
        <5>1. reply' = reply /\ escaped' = escaped
          BY <4>2 DEF ReceiveOther
        <5> QED BY <5>1, <2>2 DEF EndOnWire
      <4> QED BY <3>1, <4>1, <4>2
    <3>3. hpc = "wait"
      BY <2>1, <2>2, <1>0 DEF EndOnWire
    <3>4. ~EndOnWire'
      BY <2>1, <1>0 DEF EndOnWire
    <3> QED BY <2>1, <2>2, <3>2, <3>3, <3>4 DEF EndOnWire
  <2>3. CASE ~EndOnWire
    <3>1. StartOnWire \/ EscOnWire \/ ByteOnWire
      BY <2>1, <2>3 DEF InTransit, Arrived, AtStart, Between
    <3>2. pos <= Len(out) + 1
      BY <3>1, <1>0 DEF StartOnWire, EscOnWire, ByteOnWire
    <3>3. ~ReceiveEnd
      BY <3>1, <1>0, ByteAssumption
      DEF StartOnWire, EscOnWire, ByteOnWire, ReceiveEnd, Got, Special
    <3>4. reply' = reply /\ hpc = "send"
      BY <1>6, <2>1, <3>2, <3>3, <1>0 DEF Receive, ReceiveEsc, ReceiveEscaped,
         ReceiveStart, ReceiveOther
    <3> QED BY <2>1, <3>2, <3>4, <1>0 DEF EndOnWire, Arrived
  <2> QED BY <2>2, <2>3
<1>7. CASE UNCHANGED framingVars
  BY <1>7 DEF framingVars, hostVars, mcuVars, EndOnWire, Arrived, Collected
<1> QED
  BY <1>1, <1>2, <1>3, <1>4, <1>5, <1>6, <1>7 DEF FramingNext, Send

(***************************************************************************)
(* On a line that loses nothing the MCU answers only a host that waits     *)
(* (main.c:173 and 301, btld.py:92-104), whatever the messages are and     *)
(* however they wrap round msg[].                                          *)
(***************************************************************************)
THEOREM AnswersTheorem == FramingSpec => []AnswersOnlyWaitingHost
<1> DEFINE InStepTillLoss == lost = 0 => InStep
<1>1. FramingInit => InStepTillLoss
  BY MessageType DEF FramingInit, InStep, EndOnWire, Arrived
<1>2. FramingInv /\ InStepTillLoss /\ [FramingNext]_framingVars => InStepTillLoss'
  <2> SUFFICES ASSUME FramingInv, InStepTillLoss, [FramingNext]_framingVars, lost' = 0
               PROVE  InStep'
    OBVIOUS
  <2>1. lost = 0
    BY MaxLostAssumption
    DEF FramingInv, FramingTypeOK, FramingNext, StartMessage, Send, SendEsc,
        SendByte, ReadReply, GiveUp, BreakOff, LoseByte, Receive, ReceiveEsc,
        ReceiveEscaped, ReceiveStart, ReceiveEnd, ReceiveOther, framingVars
  <2> QED BY <2>1, InStepStep
<1>3. FramingInv /\ InStepTillLoss => AnswersOnlyWaitingHost
  <2> SUFFICES ASSUME FramingInv, InStep, reply
               PROVE  hpc = "wait" /\ wire = NoByte /\ pos = Len(out) + 2 /\ i = 0
    BY DEF AnswersOnlyWaitingHost
  <2>1. hpc = "wait" /\ pos = Len(out) + 2 /\ Len(out) \in Nat \ {0}
    BY MessageType DEF InStep, FramingInv, FramingTypeOK
  <2>2. Arrived
    BY <2>1 DEF InStep, FramingInv, InTransit, AtStart, StartOnWire, Between,
       EscOnWire, ByteOnWire
  <2> QED BY <2>1, <2>2 DEF InStep, Arrived
<1> HIDE DEF InStepTillLoss
<1> QED BY <1>1, <1>2, <1>3, FramingInvariance, PTL DEF FramingSpec
============================================================================
