----------------------------- MODULE Handshake -----------------------------
(***************************************************************************)
(* uart_expect_msg() of bootloader/uart/uart.c, poll by poll, against the  *)
(* handshake loop of host/btld.py.  Bootloader has the same in two         *)
(* actions, Accept and ExpectTimeout.                                      *)
(***************************************************************************)
EXTENDS Integers, Sequences

CONSTANTS
  MSG,       \* "@BTL\n"
  Stale,     \* bytes that may be on the line before the tool speaks
  TIMEOUT,   \* polls before the MCU gives up: 60000 in the code
  MaxWire,   \* bound on the bytes between the two
  MaxKills,  \* bound on how often the tool is killed
  MaxLost    \* bound on the bytes the line loses

ASSUME HandshakeAssumption ==
  /\ MSG \in Seq(Stale \cup {MSG[k] : k \in 1 .. Len(MSG)}) /\ Len(MSG) > 0
  /\ \A k \in 2 .. Len(MSG) : MSG[k] # MSG[1]
  /\ TIMEOUT \in Nat \ {0} /\ MaxKills \in Nat
  /\ MaxWire \in Nat /\ MaxWire >= Len(MSG)
  /\ MaxLost \in Nat

Bytes == Stale \cup {MSG[k] : k \in 1 .. Len(MSG)}

VARIABLES
  mcu,          \* "expect", or what uart_expect_msg() has returned
  i,            \* bytes of MSG it has matched; len is Len(MSG) - i
  timeout_us,   \* polls it has left
  wire,         \* bytes sent and not received
  got,          \* the bytes received last (a history variable)
  next,         \* bytes of MSG the tool has sent in this round of its loop
  kills, lost

handshakeVars == <<mcu, i, timeout_us, wire, got, next, kills, lost>>

HandshakeInit ==
  /\ mcu = "expect" /\ i = 0 /\ timeout_us = TIMEOUT
  /\ wire \in {<< >>} \cup {<<b>> : b \in Stale} \cup {SubSeq(MSG, k, Len(MSG)) : k \in 2 .. Len(MSG)}
  /\ got = << >>
  /\ next = 0 /\ kills = 0 /\ lost = 0

-----------------------------------------------------------------------------

\* As many bytes of s as two messages have.
Latest(s) == IF Len(s) > 2 * Len(MSG) THEN Tail(s) ELSE s

\* Mutant: a byte that does not match is skipped.
MatchedSkip(byte) == IF byte = MSG[i + 1] THEN i + 1 ELSE i

\* Mutant: the NUL behind the message is waited for.
MatchedNul(byte) == IF byte = MSG[i + 1] /\ i + 1 < Len(MSG) THEN i + 1 ELSE 0

\* A byte that does not match is not tried as the first of the message.
Matched(byte) == IF byte = MSG[i + 1] THEN i + 1 ELSE 0

\* Mutant: only a poll that finds a byte counts.
PollEmptyFree == mcu = "expect" /\ UNCHANGED handshakeVars

\* uart_get_byte() finds no byte.
PollEmpty ==
  /\ mcu = "expect"
  /\ timeout_us' = timeout_us - 1
  /\ mcu' = IF timeout_us' = 0 THEN "timeout" ELSE "expect"
  /\ UNCHANGED <<i, wire, got, next, kills, lost>>

\* The byte of the last poll is received and not looked at.
PollLast ==
  /\ mcu = "expect" /\ wire # << >> /\ timeout_us = 1
  /\ mcu' = "timeout" /\ timeout_us' = 0
  /\ wire' = Tail(wire) /\ got' = Latest(Append(got, Head(wire)))
  /\ UNCHANGED <<i, next, kills, lost>>

PollByte ==
  /\ mcu = "expect" /\ wire # << >> /\ timeout_us > 1
  /\ timeout_us' = timeout_us - 1
  /\ i' = Matched(Head(wire))
  /\ mcu' = IF i' = Len(MSG) THEN "accepted" ELSE "expect"
  /\ wire' = Tail(wire) /\ got' = Latest(Append(got, Head(wire)))
  /\ UNCHANGED <<next, kills, lost>>

Poll == PollEmpty \/ PollLast \/ PollByte

\* The tool writes the message byte by byte, then waits for an answer, and
\* begins again.
SendByte ==
  /\ mcu = "expect" /\ next < Len(MSG) /\ Len(wire) < MaxWire
  /\ wire' = Append(wire, MSG[next + 1])
  /\ next' = next + 1
  /\ UNCHANGED <<mcu, i, timeout_us, got, kills, lost>>

ReadTimeout ==
  /\ mcu = "expect" /\ next = Len(MSG)
  /\ next' = 0
  /\ UNCHANGED <<mcu, i, timeout_us, wire, got, kills, lost>>

\* The tool is killed in the middle of the message and started again.
Restart ==
  /\ mcu = "expect" /\ next \in 1 .. Len(MSG) - 1 /\ kills < MaxKills
  /\ next' = 0 /\ kills' = kills + 1
  /\ UNCHANGED <<mcu, i, timeout_us, wire, got, lost>>

LoseByte ==
  /\ mcu = "expect" /\ wire # << >> /\ lost < MaxLost
  /\ wire' = Tail(wire) /\ lost' = lost + 1
  /\ UNCHANGED <<mcu, i, timeout_us, got, next, kills>>

HandshakeNext == Poll \/ SendByte \/ ReadTimeout \/ Restart \/ LoseByte

HandshakeSpec == HandshakeInit /\ [][HandshakeNext]_handshakeVars

\* The MCU polls: nothing else runs on it.
FairHandshakeSpec == HandshakeSpec /\ WF_handshakeVars(Poll)

-----------------------------------------------------------------------------

HandshakeTypeOK ==
  /\ mcu \in {"expect", "timeout", "accepted"}
  /\ i \in 0 .. Len(MSG)
  /\ timeout_us \in 0 .. TIMEOUT
  /\ wire \in Seq(Bytes) /\ Len(wire) <= MaxWire
  /\ got \in Seq(Bytes) /\ Len(got) <= 2 * Len(MSG)
  /\ next \in 0 .. Len(MSG) /\ kills \in 0 .. MaxKills
  /\ lost \in 0 .. MaxLost
  /\ mcu = "timeout" <=> timeout_us = 0

(***************************************************************************)
(* Flash is erased for nothing but the whole message, received in one      *)
(* piece: not for one with a stale byte in it or put together from the     *)
(* rests of two (uart.c:53-62).                                            *)
(***************************************************************************)
AcceptsOnlyHandshake ==
  mcu = "accepted" =>
    /\ Len(got) >= Len(MSG)
    /\ SubSeq(got, Len(got) - Len(MSG) + 1, Len(got)) = MSG

(***************************************************************************)
(* The wait for a handshake ends, whatever comes in (uart.c:47-51).        *)
(***************************************************************************)
ExpectReturns == <>(mcu # "expect")

(***************************************************************************)
(* "Bootloader checks at its start for this message with a timeout"        *)
(* (README.md:214).  A handshake right behind a piece of another one is    *)
(* not heard, because the byte that does not match is not tried as a first *)
(* one (uart.c:58-61), but the next one is: the loop of the tool           *)
(* (btld.py:117-128) makes up for it.                                      *)
(***************************************************************************)
SecondHandshakeHeard == got = MSG \o MSG => mcu # "expect"
============================================================================
