----------------------------- MODULE Transfer -----------------------------
(***************************************************************************)
(* What one session makes of a hex file: the record loop of main() in      *)
(* host/btld.py, which hashes what it sends, against message_handle() and, *)
(* after the reset, signature_valid(), which hashes what it finds in the   *)
(* program memory.  The line loses nothing here and every message fits     *)
(* into msg[] (Framing and Bootloader have the rest).                      *)
(***************************************************************************)
EXTENDS MessageHandle, SignatureValid

CONSTANTS
  Files,        \* the hex files: sequences of records
  SEGMENT,      \* 2^16, what an extended address counts in
  LAST_UPPER,   \* 0x10, the last extended address that is not ignored
  Signature     \* the bytes of a signature (which ones does not matter here)

\* The type of a line that does not begin with a colon; a record has one digit.
NoRecord == 16

\* A record has a type; data and the low part of its address for type 0, the
\* upper part of the addresses to follow for type 4: of the 16 bits there the
\* 24-bit addresses of a PIC18 use eight.
ASSUME FilesAssumption ==
  /\ SEGMENT \in Nat /\ LAST_UPPER \in Nat
  /\ \A f \in Files :
       /\ Len(f) \in Nat
       /\ \A n \in 1 .. Len(f) :
            /\ f[n].type \in 0 .. NoRecord
            /\ f[n].type = 0 =>
                 /\ f[n].data \in Seq(Byte) /\ f[n].addr \in 0 .. SEGMENT - 1
                 /\ (LAST_UPPER + 1) * SEGMENT + Len(f[n].data) <= ADDR_MOD
            /\ f[n].type = 4 => f[n].upper \in Nat /\ f[n].upper < 256

\* A size that fits into the program memory fits into the three bytes for it.
ASSUME SizeAssumption == TOP <= SIZE_MOD /\ TOP <= RADIX * RADIX * RADIX

ASSUME SignatureAssumption ==
  Signature \in Seq(Byte) /\ Len(Signature) = SIGNAT_SIZE

ASSUME NoneAssumption ==
  /\ None \notin [op : {"D"}, count : Nat, addr : Nat, bytes : Seq(Byte)]
  /\ None \notin [op : {"M", "N", "X"}, bytes : Seq(Byte)]

VARIABLES
  file,                  \* the hex file
  hpc,                   \* where main() of the tool is
  line,                  \* how many records it has read
  addr_upper, ignore_next_data_rec, next_expect_addr, fw_size,
  fw_hash,               \* the bytes fed to fw_hash
  sent                   \* a message the MCU has not handled, or None

mcuVars == <<flash, status, request, verifyVars>>
segmentVars == <<addr_upper, ignore_next_data_rec>>
hashVars == <<next_expect_addr, fw_size, fw_hash>>
transferVars == <<mcuVars, file, hpc, line, segmentVars, hashVars, sent>>

TransferInit ==
  /\ HandleInit
  /\ step = "off" /\ siz = 0 /\ addr = 0 /\ hashed = << >>
  /\ file \in Files
  /\ hpc = "line" /\ line = 0
  /\ addr_upper = 0 /\ ignore_next_data_rec = FALSE
  /\ next_expect_addr = 0 /\ fw_size = 0 /\ fw_hash = << >>
  /\ sent = None

-----------------------------------------------------------------------------

Record == file[line + 1]

\* main() reads a record of this type.
ReadLine(type) ==
  /\ hpc = "line" /\ line < Len(file) /\ Record.type = type
  /\ line' = line + 1
  /\ UNCHANGED <<mcuVars, file>>

RecordAddr == addr_upper * SEGMENT + Record.addr

\* How many bytes 0xFF stand between the last record and this one.
Gap == IF next_expect_addr < RecordAddr THEN RecordAddr - next_expect_addr ELSE 0

Fill == [k \in 1 .. Gap |-> ERASED]

IgnoreData ==
  /\ ReadLine(0) /\ ignore_next_data_rec
  /\ UNCHANGED <<hpc, segmentVars, hashVars, sent>>

\* Mutant: the next record is expected where this one begins.
HashRecordStart ==
  /\ fw_size' = fw_size + Len(Record.data) + Gap
  /\ fw_hash' = fw_hash \o Fill \o Record.data
  /\ next_expect_addr' = RecordAddr

HashRecord ==
  /\ fw_size' = fw_size + Len(Record.data) + Gap
  /\ fw_hash' = fw_hash \o Fill \o Record.data
  /\ next_expect_addr' = RecordAddr + Len(Record.data)

SendData ==
  /\ ReadLine(0) /\ ~ignore_next_data_rec
  /\ HashRecord
  /\ sent' = [op |-> "D", count |-> Len(Record.data), addr |-> RecordAddr,
              bytes |-> Record.data]
  /\ hpc' = "reply"
  /\ UNCHANGED segmentVars

\* The low byte of the upper address, all the tool reads of it.
Upper == Record.upper % 256

\* Mutant: what is behind a segment that is ignored is ignored, too.
ReadExtendedSticky ==
  /\ ReadLine(4)
  /\ IF Upper > LAST_UPPER
       THEN ignore_next_data_rec' = TRUE /\ UNCHANGED addr_upper
       ELSE addr_upper' = Upper /\ UNCHANGED ignore_next_data_rec
  /\ UNCHANGED <<hpc, hashVars, sent>>

ReadExtended ==
  /\ ReadLine(4)
  /\ IF Upper > LAST_UPPER
       THEN ignore_next_data_rec' = TRUE /\ UNCHANGED addr_upper
       ELSE ignore_next_data_rec' = FALSE /\ addr_upper' = Upper
  /\ UNCHANGED <<hpc, hashVars, sent>>

SendSize ==
  /\ ReadLine(1)
  /\ sent' = [op |-> "M", bytes |-> SizeBytes(fw_size)]
  /\ hpc' = "size"
  /\ UNCHANGED <<segmentVars, hashVars>>

IgnoreOther ==
  /\ \E type \in 0 .. NoRecord - 1 \ {0, 1, 4} : ReadLine(type)
  /\ UNCHANGED <<hpc, segmentVars, hashVars, sent>>

\* The tool returns where it is.
UnexpectedLine ==
  /\ ReadLine(NoRecord)
  /\ hpc' = "ended"
  /\ UNCHANGED <<segmentVars, hashVars, sent>>

\* A file without a record of type 1: the tool just ends.
EndOfFile ==
  /\ hpc = "line" /\ line = Len(file)
  /\ hpc' = "ended"
  /\ UNCHANGED <<mcuVars, file, line, segmentVars, hashVars, sent>>

McuHandle ==
  /\ sent # None /\ status = "STATUS_NO_ERR"
  /\ Handle(sent)
  /\ sent' = None
  /\ UNCHANGED <<verifyVars, file, hpc, line, segmentVars, hashVars>>

\* The MCU has handled the message and answered F.
Answered(at) ==
  /\ hpc = at /\ sent = None /\ status = "STATUS_NO_ERR"
  /\ UNCHANGED <<mcuVars, file, line, segmentVars, hashVars>>

NextRecord == Answered("reply") /\ hpc' = "line" /\ UNCHANGED sent

SendSignat ==
  /\ Answered("size")
  /\ sent' = [op |-> "N", bytes |-> Signature] /\ hpc' = "signat"

SendStop ==
  /\ Answered("signat")
  /\ sent' = [op |-> "X", bytes |-> << >>] /\ hpc' = "done"

\* Any other answer, or none: the tool ends or waits for ever.  If the byte that
\* main.c:301 reads behind mcu_errs[] happens to be an F, it sends one message
\* more, which nobody hears, and waits then.
Refused ==
  /\ hpc \in {"reply", "size", "signat"} /\ sent = None
  /\ status # "STATUS_NO_ERR"
  /\ hpc' = "refused"
  /\ UNCHANGED <<mcuVars, file, line, segmentVars, hashVars, sent>>

\* fw_receive() has returned, the MCU has reset and hears no handshake.
Reset ==
  /\ status # "STATUS_NO_ERR" /\ step = "off"
  /\ step' = "size"
  /\ UNCHANGED <<flash, status, request, siz, addr, hashed, file, hpc, line,
                 segmentVars, hashVars, sent>>

ReadImage ==
  /\ VerifyNext
  /\ UNCHANGED <<status, request, file, hpc, line, segmentVars, hashVars, sent>>

TransferNext ==
  \/ IgnoreData \/ SendData \/ ReadExtended \/ SendSize \/ IgnoreOther
  \/ UnexpectedLine \/ EndOfFile
  \/ McuHandle
  \/ NextRecord \/ SendSignat \/ SendStop \/ Refused
  \/ Reset \/ ReadImage

TransferSpec == TransferInit /\ [][TransferNext]_transferVars

-----------------------------------------------------------------------------

\* The upper part of the address of record n, its address, and the records the
\* tool is to send.
UpperAt(f, n) ==
  LET before == {k \in 1 .. n - 1 : f[k].type = 4} IN
    IF before = {} THEN 0
    ELSE f[CHOOSE k \in before : \A j \in before : j <= k].upper

AddrAt(f, n) == UpperAt(f, n) * SEGMENT + f[n].addr

EndAt(f, n) == AddrAt(f, n) + Len(f[n].data)

Loaded(f) == {n \in 1 .. Len(f) : f[n].type = 0 /\ UpperAt(f, n) <= LAST_UPPER}

\* What compiler and linker make: records in the order of their addresses, the
\* one that ends the file last, the GOTO in one piece, nothing from 4 to 7, and
\* a chunk of code at least.
WellFormed(f) ==
  /\ \A n \in 1 .. Len(f) : f[n].type = 1 => n = Len(f)
  /\ \A m, n \in Loaded(f) : m < n => EndAt(f, m) <= AddrAt(f, n)
  /\ \A n \in Loaded(f) :
       /\ AddrAt(f, n) \notin 1 .. 3
       /\ AddrAt(f, n) = 0 => Len(f[n].data) >= 4
       /\ \A k \in 1 .. Len(f[n].data) :
            AddrAt(f, n) + k - 1 \in 4 .. 7 => f[n].data[k] = ERASED
  /\ \E n \in Loaded(f) : EndAt(f, n) >= CHUNK

(***************************************************************************)
(* For a file a compiler makes, the MCU hashes after the reset what the    *)
(* tool has hashed: the GOTO that moved, the fill of gaps, ignored         *)
(* segments and the size agree on both sides (btld.py:146-179,             *)
(* main.c:106-118, 197-239).                                               *)
(***************************************************************************)
HashesAgree ==
  hpc = "done" /\ step = "verify" /\ WellFormed(file) => hashed = fw_hash

\* The file has a byte for address x.
Covered(f, x) == \E n \in Loaded(f) : AddrAt(f, n) <= x /\ x < EndAt(f, n)

\* Where message_handle() puts what is meant for x.
Moved(x) == IF x < 4 THEN x + 4 ELSE x

(***************************************************************************)
(* A tool that is done has put every byte of the file that is meant for    *)
(* program memory where it belongs, whatever segments come in between      *)
(* (btld.py:206-215), and left all other user code blank; the stored size  *)
(* is where the last record ends, and the signature lies where the boot    *)
(* looks for it.                                                           *)
(***************************************************************************)
InstallsTheFile ==
  hpc = "done" /\ WellFormed(file) =>
    /\ \A n \in Loaded(file) : \A k \in 1 .. Len(file[n].data) :
         LET x == AddrAt(file, n) + k - 1 IN
           x \notin 4 .. 7 => flash[Moved(x)] = file[n].data[k]
    /\ \A x \in 0 .. SIGNAT_OFFSET - 1 :
         x \notin 4 .. 7 /\ ~Covered(file, x) => flash[Moved(x)] = ERASED
    /\ \E n \in Loaded(file) :
         /\ StoredSize(flash) = EndAt(file, n)
         /\ \A m \in Loaded(file) : EndAt(file, m) <= EndAt(file, n)
    /\ \A k \in 1 .. SIGNAT_SIZE : flash[SIGNAT_OFFSET + k - 1] = Signature[k]

(***************************************************************************)
(* "User code must end before this bootloader metadata region starts"      *)
(* (README.md:133), and A means a "bootloader metadata or code overwrite"  *)
(* (README.md:200): only a file with an empty record, or with one that     *)
(* runs into the metadata, is refused.  It is not so: main.c:102 refuses   *)
(* one that ends right before the metadata, too.                           *)
(***************************************************************************)
RefusesOnlyMisfits ==
  hpc = "refused" =>
    \E n \in Loaded(file) :
      file[n].data = << >> \/ EndAt(file, n) > SIGNAT_OFFSET
============================================================================
