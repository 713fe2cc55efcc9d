---------------------------- MODULE FlashDevice ----------------------------
(***************************************************************************)
(* The program memory of the PIC18 below BTLD_OFFSET, seen through the     *)
(* primitives of bootloader/flash/flash.c: erase one block, program        *)
(* cells, read them back, and what the CPU executes after a reset.         *)
(*                                                                         *)
(* A block has two cells: its "head", the GOTO-sized group of bytes at its *)
(* first address, and its "body", everything after it.  The head of block  *)
(* 0 is the reset vector (addresses 0..3); its body starts with the        *)
(* relocated user GOTO at address 4.  The head of block 1 is where         *)
(* erase_flash keeps its copy of the vector.  The last block is where the  *)
(* boot metadata sits: head = signature, body = code size.                 *)
(***************************************************************************)
EXTENDS Naturals

CONSTANTS
  ERASE_BLK_CNT,  \* BTLD_OFFSET / FLASH_BLOCK_SIZ: 64 blocks in the build
  ERASED,         \* the content of an erased cell: all bytes 0xFF
  GOTO_BTLD,      \* the instruction GOTO BTLD_OFFSET
  GARBLED,        \* what is left when a programmed cell is programmed again
  UserCell        \* everything else the host can put in a cell

ASSUME BlockCountAssumption == ERASE_BLK_CNT \in Nat /\ ERASE_BLK_CNT >= 2

ASSUME CellAssumption ==
  /\ ERASED # GOTO_BTLD
  /\ ERASED # GARBLED
  /\ GOTO_BTLD # GARBLED
  /\ ERASED \notin UserCell
  /\ GOTO_BTLD \notin UserCell

Blocks == 0 .. ERASE_BLK_CNT - 1

Cell == UserCell \cup {ERASED, GOTO_BTLD, GARBLED}

\* A body is many instructions long: it is never just one GOTO_BTLD.
BodyCell == UserCell \cup {ERASED, GARBLED}

Block == [head : Cell, body : BodyCell]

ErasedBlock == [head |-> ERASED, body |-> ERASED]

\* Nothing but v at the reset address.
OnlyVector(v) ==
  [b \in Blocks |-> IF b = 0 THEN [head |-> v, body |-> ERASED] ELSE ErasedBlock]

(***************************************************************************)
(* Programming clears bits and never sets them: an erased cell takes the   *)
(* new content, programming 0xFF changes nothing, programming the same     *)
(* content again changes nothing, anything else is a bitwise AND that is   *)
(* neither the old nor the new content.                                    *)
(***************************************************************************)
Programmed(old, new) ==
  IF old = ERASED THEN new
  ELSE IF new \in {ERASED, old} THEN old
  ELSE GARBLED

\* flash_erase_blk(b)
EraseBlock(f, b) == [f EXCEPT ![b] = ErasedBlock]

\* write_flash(b * FLASH_BLOCK_SIZ, c, 4)
WriteHead(f, b, c) == [f EXCEPT ![b].head = Programmed(@, c)]

\* The cells in the order of their addresses: 2b is the head of block b, 2b + 1
\* its body.
CellNo == 0 .. 2 * ERASE_BLK_CNT - 1

\* write_flash(), from the cell x to the cell y
WriteCells(f, x, y, c) ==
  [b \in Blocks |->
     [head |-> IF 2 * b \in x .. y THEN Programmed(f[b].head, c) ELSE f[b].head,
      body |-> IF 2 * b + 1 \in x .. y THEN Programmed(f[b].body, c)
               ELSE f[b].body]]

(***************************************************************************)
(* After a reset the CPU executes from address 0.  0xFFFF is a NOP, so it  *)
(* slides over erased cells; a GOTO_BTLD in the head of a block enters the *)
(* bootloader, and so does sliding past the last block, because the        *)
(* bootloader is linked at BTLD_OFFSET.  Any other cell is user code.      *)
(* RunsBootloader(f): the CPU meets no user code before a GOTO_BTLD.       *)
(***************************************************************************)
RunsBootloader(f) ==
  \A b \in Blocks :
    /\ f[b].head \notin {ERASED, GOTO_BTLD} =>
         \E a \in 0 .. b - 1 : f[a].head = GOTO_BTLD
    /\ f[b].body # ERASED =>
         \E a \in 0 .. b : f[a].head = GOTO_BTLD
============================================================================
