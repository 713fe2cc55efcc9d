--------------------------- MODULE MessageHandle ---------------------------
(***************************************************************************)
(* message_handle() of bootloader/main.c, byte by byte: which messages of  *)
(* the tool it accepts and what each does to the program memory.  Module   *)
(* Framing has how the messages get here, Bootloader what becomes of the   *)
(* status.                                                                 *)
(***************************************************************************)
EXTENDS Metadata

CONSTANTS
  ADDR_MOD,    \* one more than the largest uint24_t
  Vector,      \* the four bytes of GOTO BTLD_OFFSET
  JunkByte,    \* what else may be in msg[], and behind it
  Requests,    \* what the tool may send: operation byte, for "D" the count and
               \* the address, and the bytes that follow
  None         \* no message yet

\* Any address, and any count: one byte, far less than there is of 24-bit
\* addresses behind the program memory.
ASSUME RequestAssumption ==
  /\ ADDR_MOD \in Nat /\ ADDR_MOD >= TOP
  /\ JunkByte \subseteq Byte
  /\ \A r \in Requests :
       /\ r.op \in STRING
       /\ r.bytes \in Seq(Byte)
       /\ r.op = "D" => /\ r.addr \in 0 .. ADDR_MOD - 1 /\ r.count \in Nat
                        /\ TOP + r.count <= ADDR_MOD

ASSUME VectorAssumption ==
  Vector \in Seq(Byte) /\ Len(Vector) = 4

VARIABLES
  status,   \* what message_handle() has returned
  request   \* the message it was called for, or None before the first

handleVars == <<flash, status, request>>

Blank == [x \in Addr |-> IF x < 4 THEN Vector[x + 1] ELSE ERASED]

HandleInit ==
  /\ flash = Blank
  /\ status = "STATUS_NO_ERR"
  /\ request = None

-----------------------------------------------------------------------------

Return(r, s) == request' = r /\ status' = s

HandleSize(r) ==
  /\ r.op = "M"
  /\ IF Len(r.bytes) # CODE_SIZE_BYTES
       THEN Return(r, "STATUS_ERR_INVALID_PAYLOAD") /\ UNCHANGED flash
       ELSE /\ Return(r, "STATUS_NO_ERR")
            /\ flash' = WriteBytes(flash, CODE_SIZE_OFFSET, r.bytes)

HandleSignat(r) ==
  /\ r.op = "N"
  /\ IF Len(r.bytes) # SIGNAT_SIZE
       THEN Return(r, "STATUS_ERR_INVALID_PAYLOAD") /\ UNCHANGED flash
       ELSE /\ Return(r, "STATUS_NO_ERR")
            /\ flash' = WriteBytes(flash, SIGNAT_OFFSET, r.bytes)

\* No data behind the address, or not even the whole address: len < 5.
RefuseEmpty(r) ==
  /\ r.op = "D" /\ r.bytes = << >>
  /\ Return(r, "STATUS_ERR_INVALID_PAYLOAD")
  /\ UNCHANGED flash

\* Mutant: only where the record begins is looked at.
DeniedStart(r) == r.addr % ADDR_MOD >= SIGNAT_OFFSET

\* addr + payload_size is a uint24_t.
Denied(r) == (r.addr + r.count) % ADDR_MOD >= SIGNAT_OFFSET

RefuseAddress(r) ==
  /\ r.op = "D" /\ r.bytes # << >> /\ Denied(r)
  /\ Return(r, "STATUS_ERR_DENIED_ADDR")
  /\ UNCHANGED flash

\* What data[4] and on may hold, n bytes at least: those received, then what
\* is behind the message in msg[] or on the stack.
Behind(r, n) ==
  {r.bytes \o junk :
     junk \in [1 .. (IF Len(r.bytes) < n THEN n - Len(r.bytes) ELSE 0) -> JunkByte]}

\* The user's GOTO goes to address 4, whatever follows address 7 to its place.
\* Four bytes are written even when the message has fewer of them.
HandleStart(r) ==
  /\ r.op = "D" /\ r.bytes # << >> /\ ~Denied(r) /\ r.addr = 0
  /\ Return(r, "STATUS_NO_ERR")
  /\ \E data \in Behind(r, IF r.count < 4 THEN 4 ELSE r.count) :
       LET goto == SubSeq(data, 1, 4)
           rest == SubSeq(data, 9, r.count)
       IN  flash' = WriteBytes(WriteBytes(flash, 4, goto), 8, rest)

\* write_flash(a, s, Len(s)) with the table pointer going on at 0 behind the last
\* address: x is the byte number x - a, or so many behind the end of s.
WriteRound(f, a, s) ==
  [x \in DOMAIN f |->
     LET k == IF x < a THEN x - a + ADDR_MOD ELSE x - a
     IN  IF k < Len(s) THEN f[x] \cap s[k + 1] ELSE f[x]]

\* The count is not compared with the bytes received, and nothing keeps the
\* record off the vector.
HandleRecord(r) ==
  /\ r.op = "D" /\ r.bytes # << >> /\ ~Denied(r) /\ r.addr # 0
  /\ Return(r, "STATUS_NO_ERR")
  /\ \E data \in Behind(r, r.count) :
       flash' = WriteRound(flash, r.addr, SubSeq(data, 1, r.count))

HandleStop(r) ==
  /\ r.op = "X"
  /\ Return(r, IF r.bytes # << >> THEN "STATUS_ERR_INVALID_PAYLOAD"
               ELSE "STATUS_FLASHING_DONE")
  /\ UNCHANGED flash

HandleUnknown(r) ==
  /\ r.op \notin {"M", "N", "D", "X"}
  /\ Return(r, "STATUS_ERR_INVALID_PAYLOAD")
  /\ UNCHANGED flash

Handle(r) ==
  \/ HandleSize(r)
  \/ HandleSignat(r)
  \/ RefuseEmpty(r)
  \/ RefuseAddress(r)
  \/ HandleStart(r)
  \/ HandleRecord(r)
  \/ HandleStop(r)
  \/ HandleUnknown(r)

\* fw_receive() calls it for one message after the other until it returns
\* something else than STATUS_NO_ERR.
HandleRequest ==
  /\ status = "STATUS_NO_ERR"
  /\ \E r \in Requests : Handle(r)

\* The MCU has reset, seen a handshake and run erase_flash(), which keeps what
\* is at address 0.
NewSession ==
  /\ status # "STATUS_NO_ERR"
  /\ flash' = [x \in Addr |-> IF x < 4 THEN flash[x] ELSE ERASED]
  /\ status' = "STATUS_NO_ERR" /\ request' = None

HandleNext == HandleRequest \/ NewSession

HandleSpec == HandleInit /\ [][HandleNext]_handleVars

-----------------------------------------------------------------------------

HandleTypeOK ==
  /\ flash \in [Addr -> Byte]
  /\ status \in {"STATUS_NO_ERR", "STATUS_FLASHING_DONE",
                 "STATUS_ERR_INVALID_PAYLOAD", "STATUS_ERR_DENIED_ADDR"}
  /\ request \in Requests \cup {None}
  /\ request = None => \A x \in Addr : x >= 4 => flash[x] = ERASED

\* The part of the memory a message is meant for, or can reach anyway: a record
\* the rest of the vector it begins in, or the beginning of the memory if it
\* wraps round behind the last address.
Place(r) ==
  IF r.op = "M" THEN CODE_SIZE_OFFSET .. BTLD_OFFSET - 1
  ELSE IF r.op = "N" THEN SIGNAT_OFFSET .. CODE_SIZE_OFFSET - 1
  ELSE IF r.op = "D" THEN
    (4 .. SIGNAT_OFFSET - 1)
      \cup (IF r.addr \in 1 .. 3 THEN r.addr .. 3 ELSE {})
      \cup {x \in 0 .. SIGNAT_OFFSET - 1 : x < r.addr + r.count - ADDR_MOD}
  ELSE {}

(***************************************************************************)
(* What lies at SIGNAT_OFFSET and above - signature, size, the bootloader  *)
(* itself - changes only by the message meant for it, whatever address and *)
(* count a record has and however few bytes; the signature and the size    *)
(* overlap neither each other nor the bootloader (main.c:71, 91, 98-118).  *)
(* The GOTO to the bootloader at address 0 is as safe from the record for  *)
(* address 0, but not from one for address 1, 2 or 3, nor from one whose   *)
(* end passes the check of main.c:102 only because it wraps at 2^24.       *)
(***************************************************************************)
EachToItsPlace ==
  [][status = "STATUS_NO_ERR" =>
       \A x \in Addr : flash'[x] # flash[x] => x \in Place(request')]_handleVars
============================================================================
