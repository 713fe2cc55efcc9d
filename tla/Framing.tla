------------------------------ MODULE Framing ------------------------------
(***************************************************************************)
(* How a message crosses the serial line, byte by byte.                    *)
(*                                                                         *)
(* The host (host/btld.py) wraps a message - operation byte and payload -  *)
(* between START and END and puts ESC before every byte of it that is one  *)
(* of the three (encode_for_uart), then waits for a one-byte reply         *)
(* (wait_for_mcu).  The MCU (fw_receive in bootloader/main.c) collects     *)
(* bytes in the circular buffer msg[] and hands a complete frame to        *)
(* message_handle(); module MessageHandle has what that does.              *)
(*                                                                         *)
(* encode_for_uart builds the whole list and ser.write() sends it; here    *)
(* the bytes are produced as the line takes them, in the same order.       *)
(***************************************************************************)
EXTENDS Naturals, Sequences

CONSTANTS
  START, END, ESC,  \* '@', '\n', '\\'
  Plain,            \* the bytes that need no escape
  NoByte,           \* an idle line
  MSG_SIZ,          \* sizeof(msg): 70 in the code
  Messages,         \* what the host may send: operation byte and payload
  MaxLost           \* bound on the bytes the line loses and on the messages
                    \* the host breaks off

Special == {START, END, ESC}

Byte == Special \cup Plain

ASSUME ByteAssumption ==
  /\ START # END /\ START # ESC /\ END # ESC
  /\ Special \cap Plain = {}
  /\ NoByte \notin Byte

ASSUME BufferAssumption == MSG_SIZ \in Nat /\ MSG_SIZ >= 3

ASSUME MessagesAssumption ==
  Messages \subseteq Seq(Byte) \ {<< >>}

ASSUME MaxLostAssumption == MaxLost \in Nat

VARIABLES
  \* the host
  hpc,       \* "idle", "send" (in ser.write), "wait" (in wait_for_mcu)
  out,       \* the message it sends
  pos,       \* next of its bytes to put on the line: 0 START, Len(out)+1 END
  escSent,   \* the ESC before out[pos] has been put on the line
  \* the line
  wire,      \* the byte on its way to the MCU, or NoByte
  reply,     \* a reply byte is on its way to the host
  lost,      \* how many bytes were lost and messages broken off so far
  \* fw_receive()
  msg, i, escaped,
  \* history
  handled,   \* the last frame given to message_handle since out was started
  clean      \* out is whole: no byte lost, not broken off, and it did not meet
             \* an old ESC or byte

\* A message fits in msg[] with its START and its END.
Fits(m) == Len(m) <= MSG_SIZ - 2

hostVars == <<hpc, out, pos, escSent>>
mcuVars == <<msg, i, escaped>>
framingVars == <<hostVars, wire, reply, lost, mcuVars, handled, clean>>

Buffer == [0 .. MSG_SIZ - 1 -> Byte]

\* msg[] is an uninitialised local variable.
FramingInit ==
  /\ hpc = "idle" /\ out \in Messages /\ pos = 0 /\ escSent = FALSE
  /\ wire = NoByte /\ reply = FALSE /\ lost = 0
  /\ msg \in Buffer /\ i = 0 /\ escaped = FALSE
  /\ handled = << >> /\ clean = TRUE

-----------------------------------------------------------------------------
(* The host.                                                               *)

StartMessage ==
  /\ hpc = "idle"
  /\ out' \in Messages
  /\ hpc' = "send" /\ pos' = 0 /\ escSent' = FALSE
  /\ clean' = (~escaped /\ wire = NoByte)
  /\ handled' = << >>
  /\ UNCHANGED <<wire, reply, lost, mcuVars>>

\* One round of the loop of encode_for_uart: the ESC of a special byte ...
SendEsc ==
  /\ hpc = "send" /\ wire = NoByte
  /\ pos \in 1 .. Len(out) /\ out[pos] \in Special /\ ~escSent
  /\ wire' = ESC /\ escSent' = TRUE
  /\ UNCHANGED <<hpc, out, pos, reply, lost, mcuVars, handled, clean>>

\* ... and the byte itself; START before the loop and END after it.
SendByte ==
  /\ hpc = "send" /\ wire = NoByte
  /\ pos \in 1 .. Len(out) => (out[pos] \in Special <=> escSent)
  /\ wire' = IF pos = 0 THEN START
             ELSE IF pos <= Len(out) THEN out[pos] ELSE END
  /\ escSent' = FALSE
  /\ pos' = pos + 1
  /\ hpc' = IF pos > Len(out) THEN "wait" ELSE "send"
  /\ UNCHANGED <<out, reply, lost, mcuVars, handled, clean>>

\* wait_for_mcu() reads a byte: it returns on a success, exits on an error,
\* and the user then starts the tool again.
ReadReply ==
  /\ hpc = "wait" /\ reply
  /\ reply' = FALSE /\ hpc' = "idle"
  /\ UNCHANGED <<out, pos, escSent, wire, lost, mcuVars, handled, clean>>

\* wait_for_mcu() has no timeout: when a byte was lost, or the message was
\* too long for msg[], the user kills the tool and starts it again.
GiveUp ==
  /\ hpc = "wait" /\ ~reply /\ wire = NoByte
  /\ lost > 0 \/ ~Fits(out)
  /\ hpc' = "idle"
  /\ UNCHANGED <<out, pos, escSent, wire, reply, lost, mcuVars, handled, clean>>

\* The tool is killed in the middle of ser.write(): the frame stays open in
\* msg[], perhaps with an ESC that escapes the START of the next message.
BreakOff ==
  /\ hpc = "send" /\ lost < MaxLost
  /\ hpc' = "idle" /\ lost' = lost + 1 /\ clean' = FALSE
  /\ UNCHANGED <<out, pos, escSent, wire, reply, mcuVars, handled>>

LoseByte ==
  /\ wire # NoByte /\ lost < MaxLost
  /\ wire' = NoByte /\ lost' = lost + 1 /\ clean' = FALSE
  /\ UNCHANGED <<hostVars, reply, mcuVars, handled>>

-----------------------------------------------------------------------------
(* fw_receive(): one round of its loop per byte, by what the byte does.    *)

\* Mutant: the index is not wrapped.
FollowingUnwrapped(k) == k + 1

\* Mutant: the index is wrapped one byte too early.
FollowingEarly(k) == IF k + 2 = MSG_SIZ THEN 0 ELSE k + 1

\* The index after k, modulo the size of the buffer.
Following(k) == IF k + 1 = MSG_SIZ THEN 0 ELSE k + 1

\* uart_get_byte() returns b.
Got(b) == wire = b /\ wire' = NoByte

ReceiveEsc ==
  /\ Got(ESC) /\ ~escaped
  /\ escaped' = TRUE
  /\ UNCHANGED <<hostVars, reply, lost, msg, i, handled, clean>>

ReceiveEscaped ==
  \E b \in Byte :
    /\ Got(b) /\ escaped
    /\ escaped' = FALSE
    /\ msg' = [msg EXCEPT ![i] = b]
    /\ i' = Following(i)
    /\ UNCHANGED <<hostVars, reply, lost, handled, clean>>

\* Mutant: a START inside a frame is one of its bytes.
ReceiveStartInFrame ==
  /\ Got(START) /\ ~escaped /\ i > 0
  /\ msg' = [msg EXCEPT ![i] = START]
  /\ i' = Following(i)
  /\ UNCHANGED <<hostVars, reply, lost, escaped, handled, clean>>

\* A START inside a frame begins a new one.
ReceiveStart ==
  /\ Got(START) /\ ~escaped /\ i > 0
  /\ msg' = [msg EXCEPT ![i] = START, ![0] = START]
  /\ i' = 1
  /\ UNCHANGED <<hostVars, reply, lost, escaped, handled, clean>>

\* Mutant: an escaped END ends the frame too.
ReceiveAnyEnd ==
  /\ Got(END)
  /\ LET m == [msg EXCEPT ![i] = END] IN
       /\ m[0] = START
       /\ msg' = m
       /\ IF i > 1 THEN handled' = [k \in 1 .. i - 1 |-> m[k]]
                   ELSE UNCHANGED handled
  /\ i' = 0 /\ escaped' = FALSE
  /\ reply' = TRUE
  /\ UNCHANGED <<hostVars, lost, clean>>

\* END of a frame: message_handle() if there is at least an operation byte.
\* Whatever it returns there is a reply; if it is not STATUS_NO_ERR, main()
\* resets the MCU after it and fw_receive is entered again with i = 0.
ReceiveEnd ==
  /\ Got(END) /\ ~escaped
  /\ LET m == [msg EXCEPT ![i] = END] IN
       /\ m[0] = START
       /\ msg' = m
       /\ IF i > 1 THEN handled' = [k \in 1 .. i - 1 |-> m[k]]
                   ELSE UNCHANGED handled
  /\ i' = 0
  /\ reply' = TRUE
  /\ UNCHANGED <<hostVars, lost, escaped, clean>>

ReceiveOther ==
  \E b \in Byte \ {ESC} :
    /\ Got(b) /\ ~escaped
    /\ ~(b = START /\ i > 0)
    /\ LET m == [msg EXCEPT ![i] = b] IN
         /\ ~(b = END /\ m[0] = START)
         /\ msg' = m
    /\ i' = Following(i)
    /\ UNCHANGED <<hostVars, reply, lost, escaped, handled, clean>>

Receive ==
  \/ ReceiveEsc
  \/ ReceiveEscaped
  \/ ReceiveStart
  \/ ReceiveEnd
  \/ ReceiveOther

Send == SendEsc \/ SendByte

FramingNext ==
  \/ StartMessage
  \/ Send
  \/ ReadReply
  \/ GiveUp
  \/ BreakOff
  \/ LoseByte
  \/ Receive

FramingSpec == FramingInit /\ [][FramingNext]_framingVars

(***************************************************************************)
(* The MCU polls its receiver in a loop, ser.write() and ser.read() go on  *)
(* as long as the line does.  Nothing obliges the user to start a message, *)
(* to give up, or the line to lose bytes.                                  *)
(***************************************************************************)
FairFramingSpec ==
  /\ FramingSpec
  /\ WF_framingVars(Send)
  /\ WF_framingVars(Receive)
  /\ WF_framingVars(ReadReply)

-----------------------------------------------------------------------------

FramingTypeOK ==
  /\ hpc \in {"idle", "send", "wait"}
  /\ out \in Messages
  /\ pos \in 0 .. Len(out) + 2
  /\ escSent \in BOOLEAN
  /\ wire \in Byte \cup {NoByte}
  /\ reply \in BOOLEAN
  /\ lost \in 0 .. MaxLost
  /\ msg \in Buffer
  /\ i \in 0 .. MSG_SIZ - 1
  /\ escaped \in BOOLEAN
  /\ handled \in Seq(Byte)
  /\ clean \in BOOLEAN

(***************************************************************************)
(* What message_handle() gets is what the host sent, special bytes and     *)
(* all, whatever an earlier message left in the buffer and however many    *)
(* bytes of earlier messages were lost, broken off or went round the end   *)
(* of msg[]: START resynchronises the receiver.  It needs a message that fits in     *)
(* msg[] with its START and END, started when the line is quiet and no ESC *)
(* is pending in the receiver.                                             *)
(***************************************************************************)
DeliveredIntact ==
  [][clean /\ Fits(out) /\ ReceiveEnd => handled' = out]_framingVars

(***************************************************************************)
(* Stop and wait stays in step: the MCU answers only a host that has sent  *)
(* its whole message and waits for that answer, and never while a byte is  *)
(* still on the line, as long as nothing is lost or broken off             *)
(* (main.c:173); a message that wraps round msg[] may be taken for a       *)
(* frame, but only at its own END.                                         *)
(***************************************************************************)
AnswersOnlyWaitingHost ==
  lost = 0 /\ reply => hpc = "wait" /\ wire = NoByte /\ pos = Len(out) + 2 /\ i = 0

(***************************************************************************)
(* "Bootloader replies to every message with a single byte"                *)
(* (README.md:194): every message that fits in msg[] is answered, unless   *)
(* bytes are lost or a message is broken off; messages that do not fit may *)
(* have come before.                                                       *)
(***************************************************************************)
EveryMessageAnswered == hpc = "send" /\ Fits(out) ~> reply \/ lost > 0
============================================================================
