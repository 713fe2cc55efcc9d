---------------------------- MODULE WriteFlash ----------------------------
(***************************************************************************)
(* write_flash() of bootloader/flash/flash.c, byte by byte: the table      *)
(* pointer, the holding registers it fills and the blocks it programs from *)
(* them, with a power cut at any step.  ByteFlash has what it adds up to   *)
(* as one operator, WriteBytes; FlashDevice the same block by block.       *)
(***************************************************************************)
EXTENDS ByteFlash

CONSTANTS
  FLASH_BLOCK_SIZ,   \* 64 in the code
  Calls              \* the calls: address and bytes

ASSUME CallsAssumption ==
  /\ FLASH_BLOCK_SIZ \in Nat \ {0}
  /\ \A c \in Calls :
       /\ c.addr \in Nat /\ c.buf \in Seq(Byte)
       /\ c.addr + Len(c.buf) <= TOP

VARIABLES
  pc,        \* "idle", or in the loop of write_flash()
  call,      \* the call that runs or ran last
  before,    \* the memory it found (a history variable)
  written,   \* bytes it has gone through, i in the code
  addr,      \* its copy of the address, which decides when to program
  TBLPTR,    \* the table pointer, which decides where to
  holding    \* the holding registers of the device, shared by all blocks

writeVars == <<flash, pc, call, before, written, addr, TBLPTR, holding>>

\* The device clears the holding registers to this after programming.
NoLatch == [j \in 0 .. FLASH_BLOCK_SIZ - 1 |-> ERASED]

WriteInit ==
  /\ flash \in [Addr -> Byte] /\ before = flash
  /\ pc = "idle" /\ call \in Calls
  /\ written = 0 /\ addr = 0 /\ TBLPTR = 0
  /\ holding = NoLatch

-----------------------------------------------------------------------------

Call(c) ==
  /\ pc = "idle"
  /\ pc' = "loop" /\ call' = c /\ before' = flash
  /\ written' = 0 /\ addr' = c.addr /\ TBLPTR' = c.addr
  /\ UNCHANGED <<flash, holding>>

\* Mutant: a block is only programmed when the buffer ends.
BufferEndsOnly == written = Len(call.buf) - 1

BlockComplete ==
  \/ (addr + 1) % FLASH_BLOCK_SIZ = 0
  \/ written = Len(call.buf) - 1

\* TBLWT writes TABLAT to the holding register TBLPTR selects.
Latched == [holding EXCEPT ![TBLPTR % FLASH_BLOCK_SIZ] = call.buf[written + 1]]

\* Programming the block TBLPTR is in from the holding registers.
Programmed(latches) ==
  [x \in DOMAIN flash |->
     IF x \div FLASH_BLOCK_SIZ = TBLPTR \div FLASH_BLOCK_SIZ
       THEN flash[x] \cap (latches[x % FLASH_BLOCK_SIZ])
       ELSE flash[x]]

NextByte == written' = written + 1 /\ addr' = addr + 1 /\ TBLPTR' = TBLPTR + 1

\* TBLWT*+
LatchByte ==
  /\ pc = "loop" /\ written < Len(call.buf) /\ ~BlockComplete
  /\ holding' = Latched
  /\ NextByte
  /\ UNCHANGED <<flash, pc, call, before>>

\* Mutant: the pointer moves on before the block is programmed.
ProgramNext ==
  /\ pc = "loop" /\ written < Len(call.buf) /\ BlockComplete
  /\ flash' = [x \in DOMAIN flash |->
                 IF x \div FLASH_BLOCK_SIZ = (TBLPTR + 1) \div FLASH_BLOCK_SIZ
                   THEN flash[x] \cap (Latched[x % FLASH_BLOCK_SIZ])
                   ELSE flash[x]]
  /\ holding' = NoLatch
  /\ NextByte
  /\ UNCHANGED <<pc, call, before>>

\* TBLWT*, the programming, and TBLRD*+ for the pointer.
Program ==
  /\ pc = "loop" /\ written < Len(call.buf) /\ BlockComplete
  /\ flash' = Programmed(Latched)
  /\ holding' = NoLatch
  /\ NextByte
  /\ UNCHANGED <<pc, call, before>>

\* The table pointer gets back what it held; it is 0 outside these calls.
Return ==
  /\ pc = "loop" /\ written = Len(call.buf)
  /\ pc' = "idle" /\ written' = 0 /\ addr' = 0 /\ TBLPTR' = 0
  /\ UNCHANGED <<flash, call, before, holding>>

\* The power is cut, perhaps while a block is being programmed: some of the
\* bits that were to be cleared are not.  The registers are lost, the memory is
\* not.
PowerCut ==
  /\ pc = "loop"
  /\ \/ UNCHANGED flash
     \/ /\ written < Len(call.buf) /\ BlockComplete
        /\ \E torn \in [0 .. FLASH_BLOCK_SIZ - 1 -> Byte] :
             /\ \A j \in DOMAIN torn : Latched[j] \subseteq torn[j]
             /\ flash' = Programmed(torn)
  /\ pc' = "idle" /\ written' = 0 /\ addr' = 0 /\ TBLPTR' = 0
  /\ holding' = NoLatch
  /\ UNCHANGED <<call, before>>

WriteNext ==
  \/ \E c \in Calls : Call(c)
  \/ LatchByte
  \/ Program
  \/ Return
  \/ PowerCut

WriteSpec == WriteInit /\ [][WriteNext]_writeVars

-----------------------------------------------------------------------------

WriteTypeOK ==
  /\ flash \in [Addr -> Byte] /\ before \in [Addr -> Byte]
  /\ pc \in {"idle", "loop"}
  /\ call \in Calls
  /\ written \in 0 .. Len(call.buf)
  /\ addr \in 0 .. TOP /\ TBLPTR \in 0 .. TOP
  /\ holding \in [0 .. FLASH_BLOCK_SIZ - 1 -> Byte]
  /\ pc = "idle" => holding = NoLatch

\* The bytes that are in the memory and no longer in the holding registers:
\* all of them at the end of the buffer, those before this block otherwise.
Flushed ==
  IF written = Len(call.buf) THEN written
  ELSE IF written > addr % FLASH_BLOCK_SIZ THEN written - (addr % FLASH_BLOCK_SIZ) ELSE 0

(***************************************************************************)
(* At every step the memory holds a prefix of the buffer, in whole blocks, *)
(* and at the return all of it; nothing an earlier call or another block   *)
(* left in the holding registers comes with it (flash.c:38-56).            *)
(***************************************************************************)
WritesPrefix ==
  pc = "loop" =>
    flash = WriteBytes(before, call.addr, SubSeq(call.buf, 1, Flushed))

(***************************************************************************)
(* Not even a write that is torn touches a byte outside the buffer's       *)
(* place, or sets a bit: writing the GOTO next to a block's other data, as *)
(* main.c:110-113 does, leaves that data alone.                            *)
(***************************************************************************)
OnlyTheTarget ==
  \A x \in Addr :
    IF x \in call.addr .. call.addr + Len(call.buf) - 1
      THEN /\ flash[x] \subseteq before[x]
           /\ before[x] \cap call.buf[x - call.addr + 1] \subseteq flash[x]
      ELSE flash[x] = before[x]
============================================================================
