----------------------------- MODULE EraseFlash -----------------------------
(***************************************************************************)
(* erase_flash() of bootloader/flash/flash.c, one action per flash         *)
(* operation, with a power cut possible between any two of them.           *)
(*                                                                         *)
(* The function has to erase block 0, which holds the reset vector, on a   *)
(* device that can lose power at any time.  It reads the vector into RAM,  *)
(* copies it to the head of block 1, erases block 0, writes the vector     *)
(* back and only then erases the other blocks, the copy included.          *)
(*                                                                         *)
(* The rest of the firmware is reduced to what it does to this memory:     *)
(* before the call ("boot"), while the new image is received ("recv") and  *)
(* while the CPU executes user code ("user").  Module Bootloader refines   *)
(* those three.                                                            *)
(***************************************************************************)
EXTENDS FlashDevice

CONSTANTS
  CutPoints       \* the values of pc at which the power may fail

VARIABLES
  flash,           \* program memory below BTLD_OFFSET
  pc,              \* what the CPU executes
  save_goto_btld,  \* the copy of the vector in RAM
  curr_erase_blk,  \* loop counter of the erase loop
  harm             \* history: what has happened so far that can take the
                   \* vector away, in Harms

eraseVars == <<flash, pc, save_goto_btld, curr_erase_blk, harm>>

\* A record programmed over the vector; a power cut in the window in which block
\* 0 is blank.
Harms == {"record", "window"}

ErasePc == {"read", "spare", "backup", "erase", "restore"}

AnyPc == ErasePc \cup {"boot", "recv", "user"}

\* The bootloader has been flashed by a programmer; there is no user code yet.
EraseInit ==
  /\ flash = OnlyVector(GOTO_BTLD)
  /\ pc = "boot"
  /\ save_goto_btld = ERASED
  /\ curr_erase_blk = 0
  /\ harm = {}

\* main() calls erase_flash(BTLD_OFFSET).
Call ==
  /\ pc = "boot"
  /\ pc' = "read"
  /\ UNCHANGED <<flash, save_goto_btld, curr_erase_blk, harm>>

\* Mutant: the block of the copy is not erased before it is programmed.
EraseSpareMissing ==
  /\ pc = "spare"
  /\ pc' = "backup"
  /\ UNCHANGED <<flash, save_goto_btld, curr_erase_blk, harm>>

\* Mutant: the loop goes on behind the block of the copy.
RestoreAndSkip ==
  /\ pc = "restore"
  /\ flash' = WriteHead(flash, 0, save_goto_btld)
  /\ curr_erase_blk' = curr_erase_blk + 2
  /\ pc' = "erase"
  /\ UNCHANGED <<save_goto_btld, harm>>

\* read_flash(0, save_goto_btld, 4)
ReadVector ==
  /\ pc = "read"
  /\ save_goto_btld' = flash[0].head
  /\ pc' = "spare"
  /\ UNCHANGED <<flash, curr_erase_blk, harm>>

\* flash_erase_blk(1)
EraseSpare ==
  /\ pc = "spare"
  /\ flash' = EraseBlock(flash, 1)
  /\ pc' = "backup"
  /\ UNCHANGED <<save_goto_btld, curr_erase_blk, harm>>

\* write_flash(FLASH_BLOCK_SIZ, save_goto_btld, 4), then the loop starts at 0
WriteBackup ==
  /\ pc = "backup"
  /\ flash' = WriteHead(flash, 1, save_goto_btld)
  /\ curr_erase_blk' = 0
  /\ pc' = "erase"
  /\ UNCHANGED <<save_goto_btld, harm>>

\* flash_erase_blk(curr_erase_blk); block 0 is followed by RestoreVector
EraseCurrent ==
  /\ pc = "erase"
  /\ curr_erase_blk < ERASE_BLK_CNT
  /\ flash' = EraseBlock(flash, curr_erase_blk)
  /\ IF curr_erase_blk = 0
       THEN pc' = "restore" /\ UNCHANGED curr_erase_blk
       ELSE curr_erase_blk' = curr_erase_blk + 1 /\ UNCHANGED pc
  /\ UNCHANGED <<save_goto_btld, harm>>

\* write_flash(0, save_goto_btld, 4)
RestoreVector ==
  /\ pc = "restore"
  /\ flash' = WriteHead(flash, 0, save_goto_btld)
  /\ curr_erase_blk' = curr_erase_blk + 1
  /\ pc' = "erase"
  /\ UNCHANGED <<save_goto_btld, harm>>

\* The loop is over; the caller goes on to fw_receive().
EraseReturn ==
  /\ pc = "erase"
  /\ curr_erase_blk = ERASE_BLK_CNT
  /\ pc' = "recv"
  /\ UNCHANGED <<flash, save_goto_btld, curr_erase_blk, harm>>

EraseStep ==
  \/ ReadVector
  \/ EraseSpare
  \/ WriteBackup
  \/ EraseCurrent
  \/ RestoreVector
  \/ EraseReturn

-----------------------------------------------------------------------------
(* The rest of the firmware.                                               *)

\* message_handle() programs one more record, wherever it says: data for address
\* 0 goes to address 4, but a record for address 1, 2 or 3, or one that wraps
\* round behind the last address, reaches the vector.
ReceiveCells ==
  /\ pc = "recv"
  /\ \E x \in CellNo, y \in CellNo, c \in BodyCell :
       /\ x <= y
       /\ flash' = WriteCells(flash, x, y, c)
       /\ harm' = IF x = 0 THEN harm \cup {"record"} ELSE harm
  /\ UNCHANGED <<pc, save_goto_btld, curr_erase_blk>>

\* signature_valid() succeeded: goto 4
StartUser ==
  /\ pc = "boot"
  /\ pc' = "user"
  /\ UNCHANGED <<flash, save_goto_btld, curr_erase_blk, harm>>

\* Where the CPU may be after a reset.  A vector that was programmed over jumps
\* anywhere, to the bootloader perhaps.
AfterReset(f) ==
  IF RunsBootloader(f) THEN {"boot"}
  ELSE IF f[0].head = GARBLED THEN {"boot", "user"}
  ELSE {"user"}

\* asm("reset") at the end of main() or after a failed verification
Reset ==
  /\ pc \in {"boot", "recv"}
  /\ pc' \in AfterReset(flash)
  /\ UNCHANGED <<flash, save_goto_btld, curr_erase_blk, harm>>

\* What a power cut at p adds to harm.
CutHarm(p) == IF p = "restore" THEN {"window"} ELSE {}

PowerCut ==
  /\ pc \in CutPoints
  /\ pc' \in AfterReset(flash)
  /\ harm' = harm \cup CutHarm(pc)
  /\ UNCHANGED <<flash, save_goto_btld, curr_erase_blk>>

EraseNext ==
  \/ Call
  \/ EraseStep
  \/ ReceiveCells
  \/ StartUser
  \/ Reset
  \/ PowerCut

EraseSpec == EraseInit /\ [][EraseNext]_eraseVars

-----------------------------------------------------------------------------

EraseTypeOK ==
  /\ flash \in [Blocks -> Block]
  /\ pc \in AnyPc
  /\ save_goto_btld \in Cell
  /\ curr_erase_blk \in 0 .. ERASE_BLK_CNT
  /\ harm \subseteq Harms

(***************************************************************************)
(* "This ensures that at every reset the bootloader code will be executed" *)
(* (README.md:123), as long as no record is programmed over the vector.    *)
(* It is not so: a power cut between the erasure of block 0 and the        *)
(* restoration of the vector leaves the copy in block 1 only, and the next *)
(* call of erase_flash reads a blank vector and erases the copy.           *)
(***************************************************************************)
ResetRunsBootloader == "record" \notin harm => RunsBootloader(flash)

(***************************************************************************)
(* With neither of the two, a reset at any moment finds its way to the     *)
(* bootloader, whatever erase_flash has done to the memory so far and      *)
(* whatever code was received: sliding over erased cells ends in a         *)
(* GOTO_BTLD.                                                              *)
(***************************************************************************)
UnharmedRunsBootloader == harm = {} => RunsBootloader(flash)

(***************************************************************************)
(* The purpose of the copy in block 1: once erase_flash has read a good    *)
(* vector, a power cut at ANY of its steps, the window in which block 0 is *)
(* blank included, restarts the bootloader and not old user code.          *)
(***************************************************************************)
CutRestartsBootloader ==
  [][( /\ pc \in ErasePc \ {"read"}
       /\ pc' \in {"boot", "user"}
       /\ save_goto_btld = GOTO_BTLD) => pc' = "boot"]_eraseVars

(***************************************************************************)
(* When erase_flash returns, nothing of the old image is left: every block *)
(* is blank but for the vector it was entered with.  The copy in block 1   *)
(* is gone too, so that block can be programmed.                           *)
(***************************************************************************)
EraseReturnsBlank ==
  [][(pc \in ErasePc /\ pc' = "recv") => flash' = OnlyVector(save_goto_btld)]_eraseVars
=============================================================================
