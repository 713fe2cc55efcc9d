----------------------------- MODULE Bootloader -----------------------------
(***************************************************************************)
(* The whole update: main() of bootloader/main.c on the MCU, main() of     *)
(* host/btld.py on the computer and the serial line between them, with     *)
(* resets, power cuts, a tool that is killed and restarted, late, stale    *)
(* and damaged messages.                                                   *)
(*                                                                         *)
(* The steps of erase_flash are those of module EraseFlash, whose "boot"   *)
(* and "recv" are taken apart here by a second program counter, at.        *)
(* Messages are whole: modules Framing and Handshake have their bytes.     *)
(***************************************************************************)
EXTENDS EraseFlash, Sequences

CONSTANTS
  Images,       \* the firmware images their owner has signed
  Blks(_),      \* how many blocks an image has
  CodeCell(_, _), SigCell(_), SizeCell(_),  \* cells of an image: code, metadata
  NoiseCell,    \* a cell of a damaged message
  None,         \* no message on the line
  LineMax,      \* bytes the host's receive buffer can hold
  MaxSessions,  \* how often the tool may be started
  MaxFaults,    \* how many messages the line may damage
  Timely        \* the host's 0.5 s timeout is longer than erase_flash() (some
                \* 0.1 s) and shorter than signature_valid() (seconds)

Last == ERASE_BLK_CNT - 1

\* A signature belongs to one image, and no signature is left behind when one
\* is programmed over another.
ASSUME ImageAssumption ==
  /\ Images # {} /\ None \notin Images
  /\ NoiseCell \in UserCell /\ NoiseCell \notin Images \cup {None}
  /\ \A m, n \in Images : SigCell(m) = SigCell(n) => m = n
  /\ \A m \in Images : SigCell(m) # GARBLED
  /\ \A m \in Images :
       /\ Blks(m) \in 1 .. ERASE_BLK_CNT
       /\ SigCell(m) \in UserCell /\ SizeCell(Blks(m)) \in UserCell
       /\ \A b \in Blocks : CodeCell(m, b) \in UserCell

ASSUME BoundAssumption ==
  /\ LineMax \in Nat /\ LineMax >= 5
  /\ MaxSessions \in Nat /\ MaxFaults \in Nat
  /\ Timely \in BOOLEAN

VARIABLES
  \* the MCU
  at,        \* where main() is inside pc = "boot" or "recv"
  status,    \* what fw_receive() returns or message_handle() has returned
  deaf,      \* the receiver has overrun and OERR is set
  half,      \* fw_receive() holds a message of this operation that ends in an
             \* ESC, because the tool was killed there; or "none"
  spliced,   \* history: such a message was completed by other bytes and
             \* programmed since the memory was erased
  \* the line
  wire,      \* the message on its way to the MCU, or None
  toHost,    \* the bytes the host has not read yet
  \* the host
  hpc, img, idx, sessions,
  faults     \* how many messages have been damaged

mcuVars == <<eraseVars, at, status, deaf, half, spliced>>
hostVars == <<hpc, img, idx, sessions>>
vars == <<mcuVars, wire, toHost, hostVars, faults>>

-----------------------------------------------------------------------------
(* Messages.                                                               *)

BTL == [op |-> "B"]
STOP == [op |-> "X"]
Damaged == [op |-> "?"]
DataMsg(m, b) == [op |-> "D", blk |-> b, cell |-> CodeCell(m, b)]
SizeMsg(m) == [op |-> "M", cell |-> SizeCell(Blks(m))]
SignatMsg(m) == [op |-> "N", cell |-> SigCell(m)]

\* Mutant: the tool has no stop message.
SessionMsgNoStop(m, k) ==
  IF k < Blks(m) THEN DataMsg(m, k)
  ELSE IF k = Blks(m) THEN SizeMsg(m)
  ELSE SignatMsg(m)

\* The message number k of a session: the records, the size, the signature.
SessionMsg(m, k) ==
  IF k < Blks(m) THEN DataMsg(m, k)
  ELSE IF k = Blks(m) THEN SizeMsg(m)
  ELSE IF k = Blks(m) + 1 THEN SignatMsg(m)
  ELSE STOP

Message == {BTL, STOP, Damaged}
  \cup {SessionMsg(m, k) : m \in Images, k \in 0 .. ERASE_BLK_CNT + 1}

ASSUME MessageAssumption == None \notin Message

\* MCU_HANDSHAKE_RESP "@OK\n"; its K is the byte of a failed verification.
OK == <<"@", "O", "K", "nl">>

\* The bytes the MCU sends; "?" is any byte that means nothing to the host.
McuByte == {"@", "O", "K", "nl", "F", "I", "A", "S", "?"}

-----------------------------------------------------------------------------
(* What the flash holds, as signature_valid() sees it.                     *)

\* The size and the signature are those of m and the code they cover is m's,
\* with its first cell read from address 4.
Holds(f, m) ==
  /\ Blks(m) <= Last
  /\ f[Last] = [head |-> SigCell(m), body |-> SizeCell(Blks(m))]
  /\ f[0].body = CodeCell(m, 0)
  /\ \A b \in 1 .. Blks(m) - 1 :
       f[b] = [head |-> CodeCell(m, b), body |-> CodeCell(m, b)]

\* Nothing verifies but what the owner of the key has signed.
SignatureValid(f) == \E m \in Images : Holds(f, m)

-----------------------------------------------------------------------------

PortOpen == hpc \notin {"off", "done", "failed"}

\* uart_write_byte(): the byte is lost when nobody has the port open.
Send(bytes) ==
  IF PortOpen
    THEN /\ Len(toHost) + Len(bytes) <= LineMax
         /\ toHost' = toHost \o bytes
    ELSE UNCHANGED toHost

\* main() from its start: uart_init(), uart_rx_enable().
Restart ==
  /\ pc' \in AfterReset(flash)
  /\ at' = "expect"
  /\ status' = "STATUS_NO_ERR"
  /\ deaf' = FALSE /\ half' = "none"
  /\ UNCHANGED <<flash, save_goto_btld, curr_erase_blk, spliced>>

Init ==
  /\ EraseInit
  /\ at = "expect" /\ status = "STATUS_NO_ERR" /\ deaf = FALSE
  /\ half = "none" /\ spliced = FALSE
  /\ wire = None /\ toHost = << >>
  /\ hpc = "off" /\ img \in Images /\ idx = 0 /\ sessions = 0
  /\ faults = 0

-----------------------------------------------------------------------------
(* main(): the handshake and the boot.  Erasing and verifying take much    *)
(* longer (tens of ms to seconds) than a message does (5 to 15 ms): a      *)
(* message that meets them is over, and missed, before they are.           *)

\* Mutant: main() goes on to fw_receive() with the old image in the flash.
AcceptWithoutErasing ==
  /\ at = "expect" /\ wire = BTL /\ pc = "boot"
  /\ pc' = "recv" /\ at' = "ready"
  /\ wire' = None
  /\ UNCHANGED <<flash, save_goto_btld, curr_erase_blk, harm, status, deaf, half,
                 spliced, toHost, hostVars, faults>>

\* uart_expect_msg() has seen the handshake; uart_rx_disable(), erase_flash()
Accept ==
  /\ at = "expect" /\ wire = BTL
  /\ Call
  /\ wire' = None
  /\ UNCHANGED <<at, status, deaf, half, spliced, toHost, hostVars, faults>>

\* uart_expect_msg() has timed out
ExpectTimeout ==
  /\ pc = "boot" /\ at = "expect"
  /\ at' = "verify"
  /\ UNCHANGED <<eraseVars, status, deaf, half, spliced, wire, toHost, hostVars, faults>>

\* Mutant: the result of signature_valid() is not looked at.
BootUnverified ==
  /\ at = "verify" /\ wire = None
  /\ StartUser
  /\ Send(<<"S">>)
  /\ UNCHANGED <<at, status, deaf, half, spliced, wire, hostVars, faults>>

\* signature_valid(): goto 4
BootUser ==
  /\ at = "verify" /\ SignatureValid(flash) /\ wire = None
  /\ StartUser
  /\ Send(<<"S">>)
  /\ UNCHANGED <<at, status, deaf, half, spliced, wire, hostVars, faults>>

RejectUser ==
  /\ pc = "boot" /\ at = "verify" /\ ~SignatureValid(flash) /\ wire = None
  /\ Timely /\ hpc \in {"hello", "read4"} => toHost = << >>
  /\ Send(<<"K">>)
  /\ Restart
  /\ UNCHANGED <<harm, wire, hostVars, faults>>

\* erase_flash(), with the receiver off
Erase ==
  /\ wire = None
  /\ EraseStep
  /\ IF pc' = "recv" THEN at' = "ready" /\ spliced' = FALSE
                     ELSE UNCHANGED <<at, spliced>>
  /\ UNCHANGED <<status, deaf, half, wire, toHost, hostVars, faults>>

\* uart_send_buf(MCU_HANDSHAKE_RESP), uart_rx_enable()
SendReady ==
  /\ pc = "recv" /\ at = "ready" /\ wire = None
  /\ Send(OK)
  /\ at' = "listen"
  /\ UNCHANGED <<eraseVars, status, deaf, half, spliced, wire, hostVars, faults>>

-----------------------------------------------------------------------------
(* fw_receive(), message_handle() and the end of main().                   *)

Status == {"STATUS_NO_ERR", "STATUS_FLASHING_DONE",
           "STATUS_ERR_INVALID_PAYLOAD", "STATUS_ERR_DENIED_ADDR"}

Listening == pc = "recv" /\ at = "listen" /\ ~deaf

\* message_handle() returns s.
Handled(s) ==
  /\ Listening
  /\ status' = s /\ at' = "answer" /\ wire' = None /\ half' = "none"
  /\ UNCHANGED <<pc, save_goto_btld, curr_erase_blk, toHost, hostVars, faults>>

\* Mutant: data for address 0 is programmed there.
FirstCellZero(b) == 2 * b

\* The first cell of a record: data for address 0 goes to address 4.
FirstCell(b) == IF b = 0 THEN 1 ELSE 2 * b

LastCell(b) == 2 * b + 1

\* Mutant: the first block of the metadata is not protected.
HandleDataUnchecked ==
  /\ wire # None /\ wire.op = "D" /\ UNCHANGED <<deaf, harm, spliced>>
  /\ flash' = WriteCells(flash, FirstCell(wire.blk), LastCell(wire.blk), wire.cell)
  /\ Handled("STATUS_NO_ERR")

HandleData ==
  /\ wire # None /\ wire.op = "D" /\ UNCHANGED <<deaf, harm, spliced>>
  /\ IF wire.blk >= Last
       THEN UNCHANGED flash /\ Handled("STATUS_ERR_DENIED_ADDR")
       ELSE /\ flash' = WriteCells(flash, FirstCell(wire.blk), LastCell(wire.blk),
                                  wire.cell)
            /\ Handled("STATUS_NO_ERR")

HandleSize ==
  /\ wire # None /\ wire.op = "M" /\ UNCHANGED <<deaf, harm, spliced>>
  /\ flash' = WriteCells(flash, 2 * Last + 1, 2 * Last + 1, wire.cell)
  /\ Handled("STATUS_NO_ERR")

HandleSignat ==
  /\ wire # None /\ wire.op = "N" /\ UNCHANGED <<deaf, harm, spliced>>
  /\ flash' = WriteCells(flash, 2 * Last, 2 * Last, wire.cell)
  /\ Handled("STATUS_NO_ERR")

HandleStop ==
  /\ wire = STOP /\ UNCHANGED <<flash, deaf, harm, spliced>>
  /\ Handled("STATUS_FLASHING_DONE")

\* A handshake sent again has an operation that does not exist.
HandleUnknown ==
  /\ wire = BTL /\ half = "none" /\ UNCHANGED <<flash, deaf, harm, spliced>>
  /\ Handled("STATUS_ERR_INVALID_PAYLOAD")

\* Behind an ESC the "@" of a handshake is a byte like any other, and its end is
\* the end of the old frame: too short, for a denied address, or programmed with
\* what is left in msg[] - at the address of the record or one that has the
\* bytes of the handshake in it, and neither is below 4.
HandleSpliced ==
  /\ wire = BTL /\ half \in {"D", "M", "N"} /\ UNCHANGED <<deaf, harm>>
  /\ \/ /\ UNCHANGED <<flash, spliced>>
        /\ \/ Handled("STATUS_ERR_INVALID_PAYLOAD")
           \/ half = "D" /\ Handled("STATUS_ERR_DENIED_ADDR")
     \/ /\ \E x \in CellNo, y \in CellNo :
             /\ \/ half = "D" /\ 1 <= x /\ x <= y /\ y < 2 * Last
                \/ half = "N" /\ x = 2 * Last /\ y = x
             /\ flash' = WriteCells(flash, x, y, NoiseCell)
        /\ spliced' = TRUE
        /\ Handled("STATUS_NO_ERR")

\* A damaged message is no frame at all, is refused, or puts wrong data
\* anywhere below the metadata, or in one part of those; module MessageHandle
\* has where.  It may also end early, so that its last bytes arrive while the
\* CPU stalls in write_flash() and overrun the receiver, or end in an ESC.
HandleDamaged ==
  /\ wire = Damaged \/ (wire = BTL /\ half = "?")
  /\ UNCHANGED spliced
  /\ \/ /\ Listening
        /\ wire' = None /\ half' \in {half, "none", "?"}
        /\ UNCHANGED <<eraseVars, at, status, deaf, toHost, hostVars, faults>>
     \/ /\ UNCHANGED <<flash, deaf, harm>>
        /\ \E s \in Status : Handled(s)
     \/ /\ \E x \in CellNo, y \in CellNo :
             /\ x <= y /\ (y < 2 * Last \/ x = y)
             /\ flash' = WriteCells(flash, x, y, NoiseCell)
             /\ harm' = IF x = 0 THEN harm \cup {"record"} ELSE harm
        /\ Handled("STATUS_NO_ERR")
        /\ deaf' \in BOOLEAN

HandleMessage ==
  \/ HandleData
  \/ HandleSize
  \/ HandleSignat
  \/ HandleStop
  \/ HandleUnknown
  \/ HandleSpliced
  \/ HandleDamaged

\* mcu_errs[] has three entries and is indexed by a status of 1 to 3: the
\* last one reads whatever byte lies behind the array.
McuErrs(s) ==
  CASE s = "STATUS_FLASHING_DONE" -> {"I"}
    [] s = "STATUS_ERR_INVALID_PAYLOAD" -> {"A"}
    [] s = "STATUS_ERR_DENIED_ADDR" -> McuByte

\* Mutant: fw_receive() goes on without a reply.
AnswerNothing ==
  /\ pc = "recv" /\ at = "answer" /\ status = "STATUS_NO_ERR"
  /\ at' = "listen"
  /\ UNCHANGED <<eraseVars, status, deaf, half, spliced, wire, toHost, hostVars, faults>>

AnswerSuccess ==
  /\ pc = "recv" /\ at = "answer" /\ status = "STATUS_NO_ERR"
  /\ Send(<<"F">>)
  /\ at' = "listen"
  /\ UNCHANGED <<eraseVars, status, deaf, half, spliced, wire, hostVars, faults>>

\* fw_receive() returns; main() sends a byte and resets the MCU.
AnswerAndReset ==
  /\ pc = "recv" /\ at = "answer" /\ status # "STATUS_NO_ERR"
  /\ \E byte \in McuErrs(status) : Send(<<byte>>)
  /\ Restart
  /\ UNCHANGED <<harm, wire, hostVars, faults>>

\* A power cut outlasts any message that is on the line.
Cut ==
  /\ pc \in CutPoints
  /\ Restart
  /\ harm' = harm \cup CutHarm(pc)
  /\ wire' = None
  /\ UNCHANGED <<toHost, hostVars, faults>>

-----------------------------------------------------------------------------
(* The line.                                                               *)

\* The receiver is off or overrun, or main() is not looking for messages.
Miss ==
  /\ wire # None
  /\ deaf \/ pc # "recv" \/ at = "ready"
  /\ wire' = None
  /\ UNCHANGED <<mcuVars, toHost, hostVars, faults>>

\* The message arrives while the CPU programs or answers: it does not fit in
\* the two bytes of the receiver, which stops (OERR) until a reset.
Overrun ==
  /\ wire # None /\ pc = "recv" /\ at = "answer" /\ ~deaf
  /\ wire' = None /\ deaf' = TRUE
  /\ UNCHANGED <<eraseVars, at, status, half, spliced, toHost, hostVars, faults>>

Damage ==
  /\ wire \notin {None, Damaged} /\ faults < MaxFaults
  /\ wire' = Damaged /\ faults' = faults + 1
  /\ UNCHANGED <<mcuVars, toHost, hostVars>>

-----------------------------------------------------------------------------
(* The host: main() of btld.py.                                            *)

\* The user starts the tool, for any image; opening the port empties it.
StartTool ==
  /\ hpc \in {"off", "done", "failed"} /\ sessions < MaxSessions
  /\ hpc' = "hello" /\ img' \in Images /\ idx' = 0 /\ toHost' = << >>
  /\ sessions' = sessions + 1
  /\ UNCHANGED <<mcuVars, wire, faults>>

\* The messages with a byte that may need an ESC.
Escapable == {"D", "M", "N", "?"}

\* Half a message is none, for the next START drops it (module Framing), unless
\* the START comes behind an ESC.
KillTool ==
  /\ PortOpen
  /\ hpc' = "off" /\ toHost' = << >>
  /\ \/ UNCHANGED <<wire, half>>
     \/ /\ wire # None /\ wire' = None
        /\ \/ half' \in {half, "none"}
           \/ Listening /\ wire.op \in Escapable /\ half' = wire.op
  /\ UNCHANGED <<eraseVars, at, status, deaf, spliced, img, idx, sessions, faults>>

\* ser.write() of the handshake
SayHello ==
  /\ hpc = "hello" /\ wire = None
  /\ wire' = BTL /\ hpc' = "read4"
  /\ UNCHANGED <<mcuVars, toHost, img, idx, sessions, faults>>

\* ser.read(4) has four bytes
ReadHello ==
  /\ hpc = "read4" /\ Len(toHost) >= 4
  /\ hpc' = IF SubSeq(toHost, 1, 4) = OK THEN "send" ELSE "hello"
  /\ toHost' = SubSeq(toHost, 5, Len(toHost))
  /\ UNCHANGED <<mcuVars, wire, img, idx, sessions, faults>>

\* ser.read(4) has timed out, long after the handshake (5 ms) left the line
ReadTimeout ==
  /\ hpc = "read4" /\ Len(toHost) < 4 /\ wire = None
  /\ Timely => pc \notin ErasePc /\ ~(pc = "recv" /\ at = "ready")
  /\ hpc' = "hello" /\ toHost' = << >>
  /\ UNCHANGED <<mcuVars, wire, img, idx, sessions, faults>>

\* The next record, the size or the signature; or the stop message, after
\* which the tool returns without waiting.
SendMsg ==
  /\ hpc = "send" /\ wire = None
  /\ wire' = SessionMsg(img, idx)
  /\ hpc' = IF SessionMsg(img, idx) = STOP THEN "done" ELSE "wait"
  /\ toHost' = IF hpc' = "done" THEN << >> ELSE toHost
  /\ UNCHANGED <<mcuVars, img, idx, sessions, faults>>

\* One round of the loop of wait_for_mcu(), which has no timeout.
ReadReply ==
  /\ hpc = "wait" /\ toHost # << >>
  /\ toHost' = Tail(toHost)
  /\ \/ Head(toHost) = "F" /\ hpc' = "send" /\ idx' = idx + 1
     \/ Head(toHost) \in {"I", "A"} /\ hpc' = "failed" /\ UNCHANGED idx
     \/ Head(toHost) \notin {"F", "I", "A"} /\ UNCHANGED <<hpc, idx>>
  /\ UNCHANGED <<mcuVars, wire, img, sessions, faults>>

-----------------------------------------------------------------------------

McuNext ==
  \/ Accept
  \/ ExpectTimeout
  \/ BootUser
  \/ RejectUser
  \/ Erase
  \/ SendReady
  \/ HandleMessage
  \/ AnswerSuccess
  \/ AnswerAndReset

HostNext ==
  \/ SayHello
  \/ ReadHello
  \/ ReadTimeout
  \/ SendMsg
  \/ ReadReply

Next ==
  \/ McuNext
  \/ HostNext
  \/ StartTool
  \/ KillTool
  \/ Miss
  \/ Overrun
  \/ Damage
  \/ Cut

Spec == Init /\ [][Next]_vars

(***************************************************************************)
(* The MCU and the tool run as long as they have something to do, and a    *)
(* message that nobody hears leaves the line.  The user is not obliged to  *)
(* start or kill the tool, nor the environment to damage or to cut.        *)
(***************************************************************************)
FairSpec ==
  /\ Spec
  /\ WF_vars(McuNext)
  /\ WF_vars(HostNext)
  /\ WF_vars(Miss)

-----------------------------------------------------------------------------

TypeOK ==
  /\ EraseTypeOK
  /\ at \in {"expect", "verify", "ready", "listen", "answer"}
  /\ status \in Status
  /\ deaf \in BOOLEAN
  /\ half \in Escapable \cup {"none"}
  /\ spliced \in BOOLEAN
  /\ wire \in Message \cup {None}
  /\ toHost \in Seq(McuByte) /\ Len(toHost) <= LineMax
  /\ hpc \in {"off", "hello", "read4", "send", "wait", "done", "failed"}
  /\ img \in Images
  /\ idx \in 0 .. Blks(img) + 2
  /\ sessions \in 0 .. MaxSessions
  /\ faults \in 0 .. MaxFaults

\* The cells an image can leave in the memory.
CellsOf(m) ==
  {ERASED, SigCell(m), SizeCell(Blks(m))} \cup {CodeCell(m, b) : b \in Blocks}

(***************************************************************************)
(* Two sessions never mix: whenever erase_flash is not at work, what is in *)
(* the memory besides the vector comes from one image, however often the   *)
(* tool was killed and restarted and the power failed.  A tool that starts *)
(* over meets an MCU that is still in fw_receive, or erases everything.    *)
(* The exception is a tool killed right behind an ESC (main.c:140): the    *)
(* next handshake completes its frame, which is programmed (HandleSpliced) *)
(* and stays there until the handshake after that one.                     *)
(***************************************************************************)
NoMixedImages ==
  pc \notin ErasePc /\ faults = 0 /\ ~spliced =>
    \E m \in Images : \A b \in Blocks :
      /\ flash[b].head \in CellsOf(m) \cup {GOTO_BTLD}
      /\ flash[b].body \in CellsOf(m)

(***************************************************************************)
(* "Flashing done" (btld.py:203): when the tool returns, the image it was  *)
(* given is in the flash with its size and its signature, so the next boot *)
(* accepts it.  A line that damages messages breaks it (README.md:320).    *)
(***************************************************************************)
DoneMeansInstalled ==
  [][hpc' = "done" /\ hpc # "done" /\ faults = 0 => Holds(flash, img)]_vars

(***************************************************************************)
(* The response bytes of README.md:197-201: F is a success, A a denied     *)
(* address, I an invalid payload.                                          *)
(***************************************************************************)
InvalidPayloadAnswered ==
  [][status = "STATUS_ERR_INVALID_PAYLOAD" /\ toHost' # toHost
     /\ AnswerAndReset /\ PortOpen
       => toHost'[Len(toHost')] = "I"]_vars

(***************************************************************************)
(* A session that has begun does not hang: once the tool has read the      *)
(* answer to its handshake and nothing interferes, the device ends up      *)
(* running that image, unless the user kills the tool or starts another    *)
(* session first.  Only a tool that was started over can fail instead: its *)
(* handshake may cross the "@OK" meant for the one before it, reach        *)
(* fw_receive as a message and be answered with an error.                  *)
(***************************************************************************)
SessionSucceeds ==
  \A m \in Images :
    (hpc = "send" /\ img = m) ~>
      \/ pc = "user" /\ Holds(flash, m)
      \/ hpc \in {"off", "hello"}
      \/ hpc = "failed" /\ sessions > 1

-----------------------------------------------------------------------------
(* Refinement.                                                             *)

StoredIn(f) ==
  IF SignatureValid(f) THEN CHOOSE m \in Images : Holds(f, m) ELSE None

InstalledImage == StoredIn(flash)

\* User code that was never verified is in no image.
Promise == INSTANCE SecureBoot WITH
  NoImage <- None,
  broken <- harm # {},
  stored <- InstalledImage,
  running <- IF pc # "user" THEN None
             ELSE IF SignatureValid(flash) THEN InstalledImage ELSE NoiseCell

(***************************************************************************)
(* The bootloader keeps its promise: only a whole, signed image ever runs, *)
(* through kills, restarts, damaged messages and power cuts at any moment, *)
(* until the vector is programmed over or lost (harm).                     *)
(***************************************************************************)
KeepsPromise == Promise!SecureSpec

(***************************************************************************)
(* The composition does to the program memory only what EraseFlash says    *)
(* its surroundings may do, so what is proved there holds here.            *)
(***************************************************************************)
ImplementsEraseFlash == EraseSpec
=============================================================================
