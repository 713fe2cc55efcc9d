------------------------ MODULE Bootloader_proofs ------------------------
(***************************************************************************)
(* EraseFlash and Bootloader for every number of blocks, images, sessions, *)
(* faults and every set of moments at which the power may fail.            *)
(*                                                                         *)
(* First comes erase_flash() by itself: at every step at least one good    *)
(* copy of the vector is in the memory, unless it was entered with a bad   *)
(* one.  EraseInv says where that copy is at each value of pc, and how     *)
(* much of the memory is blank.  What can take the vector away - a record  *)
(* programmed over it, a cut in the window - is remembered in harm, and    *)
(* the theorems say what holds until then.                                 *)
(*                                                                         *)
(* Then the composition.  From its types every step is one of EraseFlash   *)
(* or leaves the memory alone, so what has been proved of the vector holds *)
(* here: a reset never lands in user code.  The only way into user code is *)
(* BootUser, and the only way from one image to another is through a       *)
(* memory that holds none.  The last part follows a session message by     *)
(* message, on a line that damages nothing: what the MCU has programmed    *)
(* agrees with what the tool has read, so "Flashing done" is true and no   *)
(* two images are mixed.                                                   *)
(***************************************************************************)
EXTENDS Bootloader, SequenceTheorems, TLAPS

-----------------------------------------------------------------------------
(* erase_flash().                                                          *)

\* If erase_flash was entered with a good vector, there is a good copy.
VectorKept ==
  save_goto_btld = GOTO_BTLD =>
    /\ pc \in {"spare", "backup", "erase"} => flash[0].head = GOTO_BTLD
    /\ pc = "erase" /\ curr_erase_blk = 0 => flash[1].head = GOTO_BTLD
    /\ pc = "restore" => flash[1].head = GOTO_BTLD

\* What the steps of erase_flash have already blanked.
BlankSoFar ==
  /\ pc = "backup" => flash[1] = ErasedBlock
  /\ pc = "restore" => curr_erase_blk = 0 /\ flash[0] = ErasedBlock
  /\ pc = "erase" /\ curr_erase_blk > 0 =>
       /\ flash[0] = [head |-> save_goto_btld, body |-> ERASED]
       /\ \A b \in 1 .. curr_erase_blk - 1 : flash[b] = ErasedBlock

EraseInv == EraseTypeOK /\ VectorKept /\ BlankSoFar

\* Unharmed, the vector is always there but in the window.
VectorThere ==
  harm = {} =>
    /\ pc # "restore" => flash[0].head = GOTO_BTLD
    /\ pc \in ErasePc \ {"read"} => save_goto_btld = GOTO_BTLD

-----------------------------------------------------------------------------
(* What the flash primitives preserve.                                     *)

\* Programming a cell gives a cell, and an erased one takes what is programmed.
LEMMA ProgrammedType ==
  ASSUME NEW old, NEW new
  PROVE  /\ old \in Cell /\ new \in Cell => Programmed(old, new) \in Cell
         /\ old \in BodyCell /\ new \in BodyCell => Programmed(old, new) \in BodyCell
         /\ Programmed(ERASED, new) = new
BY CellAssumption DEF Programmed, Cell, BodyCell

\* Erasing and programming blocks keeps the memory in its type.
LEMMA FlashPrimitives ==
  ASSUME NEW f \in [Blocks -> Block], NEW b \in Blocks,
         NEW h \in Cell
  PROVE  /\ EraseBlock(f, b) \in [Blocks -> Block]
         /\ WriteHead(f, b, h) \in [Blocks -> Block]
<1>1. ErasedBlock \in Block
  BY DEF ErasedBlock, Block, Cell, BodyCell
<1>2. EraseBlock(f, b) \in [Blocks -> Block]
  BY <1>1 DEF EraseBlock
<1>3. f[b] \in Block /\ f[b].head \in Cell /\ f[b].body \in BodyCell
  BY DEF Block
<1>4. WriteHead(f, b, h) \in [Blocks -> Block]
  <2>1. Programmed(f[b].head, h) \in Cell
    BY <1>3, ProgrammedType
  <2>2. [f[b] EXCEPT !.head = Programmed(@, h)] \in Block
    BY <2>1, <1>3 DEF Block
  <2> QED BY <2>2 DEF WriteHead
<1> QED BY <1>2, <1>4

\* Programming some cells in a row keeps the memory in its type.
LEMMA WriteCellsType ==
  ASSUME NEW f \in [Blocks -> Block], NEW x, NEW y, NEW c \in BodyCell
  PROVE  WriteCells(f, x, y, c) \in [Blocks -> Block]
<1> SUFFICES ASSUME NEW b \in Blocks
             PROVE  [head |-> IF 2 * b \in x .. y THEN Programmed(f[b].head, c)
                              ELSE f[b].head,
                     body |-> IF 2 * b + 1 \in x .. y THEN Programmed(f[b].body, c)
                              ELSE f[b].body] \in Block
  BY DEF WriteCells
<1>1. f[b].head \in Cell /\ f[b].body \in BodyCell /\ c \in Cell
  BY DEF Block, Cell, BodyCell
<1>2. Programmed(f[b].head, c) \in Cell /\ Programmed(f[b].body, c) \in BodyCell
  BY <1>1, ProgrammedType
<1> QED BY <1>1, <1>2 DEF Block

\* There are at least the block of the vector and that of its copy.
LEMMA FirstBlocks == 0 \in Blocks /\ 1 \in Blocks
BY BlockCountAssumption DEF Blocks

\* A memory that holds nothing but a vector is one of the memories.
LEMMA OnlyVectorType ==
  ASSUME NEW v \in Cell
  PROVE  OnlyVector(v) \in [Blocks -> Block]
BY DEF OnlyVector, ErasedBlock, Block, Cell, BodyCell

\* Programming the vector into a blank block 0 puts exactly the vector there.
LEMMA WriteVector ==
  ASSUME NEW f \in [Blocks -> Block], NEW b \in Blocks, NEW v \in Cell,
         f[b] = ErasedBlock
  PROVE  /\ WriteHead(f, b, v)[b] = [head |-> v, body |-> ERASED]
         /\ WriteHead(f, b, v)[b].head = v
         /\ \A a \in Blocks \ {b} : WriteHead(f, b, v)[a] = f[a]
<1>1. [f[b] EXCEPT !.head = Programmed(@, v)] = [head |-> v, body |-> ERASED]
  BY ProgrammedType DEF ErasedBlock
<1> QED BY <1>1 DEF WriteHead

\* A good copy of the vector in block 0, or in block 1 with block 0 blank, is
\* enough for a reset to find the bootloader.
LEMMA CopyIsEnough ==
  ASSUME NEW f \in [Blocks -> Block],
         \/ f[0].head = GOTO_BTLD
         \/ f[0] = ErasedBlock /\ f[1].head = GOTO_BTLD
  PROVE  RunsBootloader(f)
<1> USE FirstBlocks, BlockCountAssumption
<1>1. CASE f[0].head = GOTO_BTLD
  <2> SUFFICES ASSUME NEW b \in Blocks
               PROVE  /\ f[b].head \notin {ERASED, GOTO_BTLD} =>
                           \E a \in 0 .. b - 1 : f[a].head = GOTO_BTLD
                      /\ f[b].body # ERASED =>
                           \E a \in 0 .. b : f[a].head = GOTO_BTLD
    BY DEF RunsBootloader
  <2>1. CASE b = 0
    BY <2>1, <1>1
  <2>2. CASE b # 0
    <3>1. 0 \in 0 .. b - 1 /\ 0 \in 0 .. b
      BY <2>2 DEF Blocks
    <3> QED BY <3>1, <1>1
  <2> QED BY <2>1, <2>2
<1>2. CASE f[0] = ErasedBlock /\ f[1].head = GOTO_BTLD
  <2> SUFFICES ASSUME NEW b \in Blocks
               PROVE  /\ f[b].head \notin {ERASED, GOTO_BTLD} =>
                           \E a \in 0 .. b - 1 : f[a].head = GOTO_BTLD
                      /\ f[b].body # ERASED =>
                           \E a \in 0 .. b : f[a].head = GOTO_BTLD
    BY DEF RunsBootloader
  <2>1. CASE b = 0
    BY <2>1, <1>2 DEF ErasedBlock
  <2>2. CASE b = 1
    <3>1. 1 \in 0 .. b
      BY <2>2
    <3> QED BY <3>1, <2>2, <1>2
  <2>3. CASE b # 0 /\ b # 1
    <3>1. 1 \in 0 .. b - 1 /\ 1 \in 0 .. b
      BY <2>3 DEF Blocks
    <3> QED BY <3>1, <1>2
  <2> QED BY <2>1, <2>2, <2>3
<1> QED BY <1>1, <1>2

\* A record that harms nothing leaves the head of block 0 alone.
LEMMA ReceiveKeepsVector ==
  ASSUME EraseTypeOK, ReceiveCells, "record" \notin harm'
  PROVE  /\ flash'[0].head = flash[0].head
         /\ harm' = harm
<1>1. PICK x \in CellNo, y \in CellNo, c \in BodyCell :
        /\ flash' = WriteCells(flash, x, y, c)
        /\ harm' = IF x = 0 THEN harm \cup {"record"} ELSE harm
  BY DEF ReceiveCells
<1>2. x # 0
  BY <1>1
<1>3. 2 * 0 \notin x .. y
  BY <1>2, BlockCountAssumption DEF CellNo
<1> QED BY <1>1, <1>2, <1>3, FirstBlocks DEF WriteCells

-----------------------------------------------------------------------------
(* The invariant, one lemma for each of its conjuncts.                     *)

\* Each step of erase_flash() and of its surroundings keeps the types.
LEMMA TypeStep ==
  ASSUME EraseTypeOK, BlankSoFar, [EraseNext]_eraseVars
  PROVE  EraseTypeOK'
<1> USE BlockCountAssumption, FirstBlocks DEF EraseTypeOK, AnyPc, ErasePc
<1>1. CASE Call
  BY <1>1 DEF Call
<1>2. CASE ReadVector
  BY <1>2 DEF ReadVector, Block
<1>3. CASE EraseSpare
  <2>1. flash' \in [Blocks -> Block]
    BY <1>3, FlashPrimitives DEF EraseSpare, Cell, BodyCell
  <2> QED BY <1>3, <2>1 DEF EraseSpare
<1>4. CASE WriteBackup
  <2>1. flash' \in [Blocks -> Block]
    BY <1>4, FlashPrimitives DEF WriteBackup, BodyCell
  <2> QED BY <1>4, <2>1 DEF WriteBackup
<1>5. CASE EraseCurrent
  <2>1. curr_erase_blk \in Blocks
    BY <1>5 DEF EraseCurrent, Blocks
  <2>2. flash' \in [Blocks -> Block]
    BY <1>5, <2>1, FlashPrimitives DEF EraseCurrent, Cell, BodyCell
  <2>3. curr_erase_blk' \in 0 .. ERASE_BLK_CNT
    BY <1>5 DEF EraseCurrent
  <2> QED BY <1>5, <2>2, <2>3 DEF EraseCurrent
<1>6. CASE RestoreVector
  <2>1. flash' \in [Blocks -> Block]
    BY <1>6, FlashPrimitives DEF RestoreVector, BodyCell
  <2>2. curr_erase_blk' \in 0 .. ERASE_BLK_CNT
    BY <1>6 DEF RestoreVector, BlankSoFar
  <2> QED BY <1>6, <2>1, <2>2 DEF RestoreVector
<1>7. CASE EraseReturn
  BY <1>7 DEF EraseReturn
<1>8. CASE ReceiveCells
  <2>1. PICK x \in CellNo, y \in CellNo, c \in BodyCell :
          /\ flash' = WriteCells(flash, x, y, c)
          /\ harm' = IF x = 0 THEN harm \cup {"record"} ELSE harm
    BY <1>8 DEF ReceiveCells
  <2>2. flash' \in [Blocks -> Block]
    BY <2>1, WriteCellsType
  <2>3. harm' \subseteq Harms
    BY <2>1 DEF Harms
  <2> QED BY <1>8, <2>2, <2>3 DEF ReceiveCells
<1>9. CASE StartUser
  BY <1>9 DEF StartUser
<1>10. CASE Reset
  BY <1>10 DEF Reset, AfterReset
<1>11. CASE PowerCut
  BY <1>11 DEF PowerCut, AfterReset, CutHarm, Harms
<1>12. CASE UNCHANGED eraseVars
  BY <1>12 DEF eraseVars
<1> QED
  BY <1>1, <1>2, <1>3, <1>4, <1>5, <1>6, <1>7, <1>8, <1>9, <1>10, <1>11, <1>12
  DEF EraseNext, EraseStep

\* Each step keeps what erase_flash() has already blanked.
LEMMA BlankStep ==
  ASSUME EraseTypeOK, BlankSoFar, [EraseNext]_eraseVars
  PROVE  BlankSoFar'
<1> USE BlockCountAssumption, FirstBlocks DEF EraseTypeOK, BlankSoFar
<1>1. CASE Call
  BY <1>1 DEF Call
<1>2. CASE ReadVector
  BY <1>2 DEF ReadVector
<1>3. CASE EraseSpare
  BY <1>3 DEF EraseSpare, EraseBlock
<1>4. CASE WriteBackup
  BY <1>4 DEF WriteBackup
<1>5. CASE EraseCurrent
  <2>1. CASE curr_erase_blk = 0
    BY <1>5, <2>1 DEF EraseCurrent, EraseBlock
  <2>2. CASE curr_erase_blk > 0
    <3>1. curr_erase_blk \in Blocks /\ pc = "erase" /\ pc' = "erase"
          /\ curr_erase_blk' = curr_erase_blk + 1
          /\ flash' = [flash EXCEPT ![curr_erase_blk] = ErasedBlock]
          /\ save_goto_btld' = save_goto_btld
      BY <1>5, <2>2 DEF EraseCurrent, EraseBlock, Blocks
    <3>2. flash'[0] = flash[0]
      BY <3>1, <2>2
    <3>3. \A b \in 1 .. curr_erase_blk : flash'[b] = ErasedBlock
      BY <3>1, <2>2 DEF Blocks
    <3> QED BY <3>1, <3>2, <3>3, <2>2
  <2> QED BY <2>1, <2>2
<1>6. CASE RestoreVector
  <2>1. curr_erase_blk = 0 /\ flash[0] = ErasedBlock
    BY <1>6 DEF RestoreVector
  <2>2. flash'[0] = [head |-> save_goto_btld, body |-> ERASED]
    BY <1>6, <2>1, WriteVector DEF RestoreVector
  <2>3. pc' = "erase" /\ curr_erase_blk' = 1 /\ save_goto_btld' = save_goto_btld
    BY <1>6, <2>1 DEF RestoreVector
  <2> QED BY <2>2, <2>3
<1>7. CASE EraseReturn
  BY <1>7 DEF EraseReturn
<1>8. CASE ReceiveCells
  BY <1>8 DEF ReceiveCells
<1>9. CASE StartUser
  BY <1>9 DEF StartUser
<1>10. CASE Reset
  BY <1>10 DEF Reset, AfterReset
<1>11. CASE PowerCut
  BY <1>11 DEF PowerCut, AfterReset
<1>12. CASE UNCHANGED eraseVars
  BY <1>12 DEF eraseVars
<1> QED
  BY <1>1, <1>2, <1>3, <1>4, <1>5, <1>6, <1>7, <1>8, <1>9, <1>10, <1>11, <1>12
  DEF EraseNext, EraseStep

\* Each step keeps a good copy of the vector somewhere.
LEMMA KeptStep ==
  ASSUME EraseInv, [EraseNext]_eraseVars
  PROVE  VectorKept'
<1> USE BlockCountAssumption, FirstBlocks DEF EraseInv, EraseTypeOK, VectorKept
<1>1. CASE Call
  BY <1>1 DEF Call
<1>2. CASE ReadVector
  BY <1>2 DEF ReadVector
<1>3. CASE EraseSpare
  BY <1>3 DEF EraseSpare, EraseBlock
<1>4. CASE WriteBackup
  <2>1. flash[1] = ErasedBlock
    BY <1>4 DEF WriteBackup, BlankSoFar
  <2>2. WriteHead(flash, 1, save_goto_btld)[1].head = save_goto_btld
    <3>1. flash \in [Blocks -> Block] /\ save_goto_btld \in Cell
      OBVIOUS
    <3>2. [flash[1] EXCEPT !.head = Programmed(@, save_goto_btld)]
            = [head |-> save_goto_btld, body |-> ERASED]
      BY <2>1, ProgrammedType DEF ErasedBlock
    <3> QED BY <3>1, <3>2 DEF WriteHead
  <2>3. flash'[0] = flash[0]
    BY <1>4 DEF WriteBackup, WriteHead
  <2>4. flash'[1].head = save_goto_btld
    BY <1>4, <2>2 DEF WriteBackup
  <2> QED BY <1>4, <2>3, <2>4 DEF WriteBackup
<1>5. CASE EraseCurrent
  <2>1. curr_erase_blk \in Blocks /\ pc = "erase"
    BY <1>5 DEF EraseCurrent, Blocks
  <2>2. curr_erase_blk = 0 => flash'[1] = flash[1]
    BY <1>5 DEF EraseCurrent, EraseBlock
  <2>3. curr_erase_blk # 0 => flash'[0] = flash[0] /\ curr_erase_blk' # 0
    BY <1>5 DEF EraseCurrent, EraseBlock
  <2> QED BY <1>5, <2>1, <2>2, <2>3 DEF EraseCurrent
<1>6. CASE RestoreVector
  <2>1. curr_erase_blk = 0 /\ flash[0] = ErasedBlock
    BY <1>6 DEF RestoreVector, BlankSoFar
  <2>2. flash'[0].head = save_goto_btld
    BY ZenonT(30), <1>6, <2>1, WriteVector DEF RestoreVector
  <2> QED BY <1>6, <2>1, <2>2 DEF RestoreVector
<1>7. CASE EraseReturn
  BY <1>7 DEF EraseReturn
<1>8. CASE ReceiveCells
  BY <1>8 DEF ReceiveCells
<1>9. CASE StartUser
  BY <1>9 DEF StartUser
<1>10. CASE Reset
  BY <1>10 DEF Reset, AfterReset
<1>11. CASE PowerCut
  BY <1>11 DEF PowerCut, AfterReset
<1>12. CASE UNCHANGED eraseVars
  BY <1>12 DEF eraseVars
<1> QED
  BY <1>1, <1>2, <1>3, <1>4, <1>5, <1>6, <1>7, <1>8, <1>9, <1>10, <1>11, <1>12
  DEF EraseNext, EraseStep

\* EraseInv is an invariant.
LEMMA EraseInvariance == EraseSpec => []EraseInv
<1>1. EraseInit => EraseInv
  <2> SUFFICES ASSUME EraseInit PROVE EraseInv OBVIOUS
  <2>1. flash \in [Blocks -> Block]
    BY OnlyVectorType DEF EraseInit, Cell
  <2>2. EraseTypeOK
    BY <2>1, BlockCountAssumption DEF EraseInit, EraseTypeOK, AnyPc, ErasePc, Cell
  <2> QED
    BY <2>2, CellAssumption DEF EraseInit, EraseInv, VectorKept, BlankSoFar
<1>2. EraseInv /\ [EraseNext]_eraseVars => EraseInv'
  BY TypeStep, BlankStep, KeptStep DEF EraseInv
<1> QED BY <1>1, <1>2, PTL DEF EraseSpec

-----------------------------------------------------------------------------
(* The theorems.                                                           *)

(***************************************************************************)
(* The state of erase_flash and of the memory always has its type: the     *)
(* loop never addresses a block that is not there (flash.c:106).           *)
(***************************************************************************)
THEOREM EraseTypeCorrect == EraseSpec => []EraseTypeOK
BY EraseInvariance, PTL DEF EraseInv

(***************************************************************************)
(* Until a record is programmed over the vector (main.c:117) or the power  *)
(* fails between the erasure of block 0 and the restoration of the vector  *)
(* (flash.c:107-110), a reset at any moment enters the bootloader, as      *)
(* README.md:123 promises.                                                 *)
(***************************************************************************)
THEOREM VectorTheorem == EraseSpec => []UnharmedRunsBootloader
<1>1. EraseInit => VectorThere
  BY FirstBlocks DEF EraseInit, VectorThere, OnlyVector, ErasePc
<1>2. EraseInv /\ VectorThere /\ [EraseNext]_eraseVars => VectorThere'
  <2> SUFFICES ASSUME EraseInv, VectorThere, [EraseNext]_eraseVars
               PROVE  VectorThere'
    OBVIOUS
  <2> USE FirstBlocks DEF EraseInv, EraseTypeOK, VectorThere, ErasePc
  <2>1. CASE Call
    BY <2>1 DEF Call
  <2>2. CASE ReadVector
    BY <2>2 DEF ReadVector
  <2>3. CASE EraseSpare
    BY <2>3 DEF EraseSpare, EraseBlock
  <2>4. CASE WriteBackup
    <3>1. flash'[0] = flash[0]
      BY <2>4 DEF WriteBackup, WriteHead
    <3> QED BY <2>4, <3>1 DEF WriteBackup
  <2>5. CASE EraseCurrent
    BY <2>5 DEF EraseCurrent, EraseBlock
  <2>6. CASE RestoreVector
    <3>1. flash[0] = ErasedBlock
      BY <2>6 DEF RestoreVector, BlankSoFar
    <3>2. flash'[0].head = save_goto_btld
      BY <2>6, <3>1, WriteVector DEF RestoreVector
    <3> QED BY <2>6, <3>2 DEF RestoreVector
  <2>7. CASE EraseReturn
    BY <2>7 DEF EraseReturn
  <2>8. CASE ReceiveCells
    <3>1. harm' = {} => flash'[0].head = flash[0].head /\ harm' = harm
      BY <2>8, ReceiveKeepsVector
    <3> QED BY <2>8, <3>1 DEF ReceiveCells
  <2>9. CASE StartUser
    BY <2>9 DEF StartUser
  <2>10. CASE Reset
    BY <2>10 DEF Reset, AfterReset
  <2>11. CASE PowerCut
    <3>1. harm' = {} => harm = {} /\ pc # "restore"
      BY <2>11 DEF PowerCut, CutHarm
    <3> QED BY <2>11, <3>1 DEF PowerCut, AfterReset
  <2>12. CASE UNCHANGED eraseVars
    BY <2>12 DEF eraseVars
  <2> QED
    BY <2>1, <2>2, <2>3, <2>4, <2>5, <2>6, <2>7, <2>8, <2>9, <2>10, <2>11, <2>12
    DEF EraseNext, EraseStep
<1>3. EraseInv /\ VectorThere => UnharmedRunsBootloader
  <2> SUFFICES ASSUME EraseInv, VectorThere, harm = {} PROVE RunsBootloader(flash)
    BY DEF UnharmedRunsBootloader
  <2>1. \/ flash[0].head = GOTO_BTLD
        \/ flash[0] = ErasedBlock /\ flash[1].head = GOTO_BTLD
    BY DEF EraseInv, VectorThere, VectorKept, BlankSoFar, ErasePc
  <2> QED BY <2>1, CopyIsEnough DEF EraseInv, EraseTypeOK
<1> QED BY <1>1, <1>2, <1>3, EraseInvariance, PTL DEF EraseSpec

(***************************************************************************)
(* Wherever the power fails, the copy in block 1 brings the CPU back to    *)
(* the bootloader if erase_flash had read a good vector (flash.c:102-104). *)
(***************************************************************************)
THEOREM CutTheorem == EraseSpec => CutRestartsBootloader
<1>1. EraseInv /\ [EraseNext]_eraseVars =>
        [( /\ pc \in ErasePc \ {"read"}
           /\ pc' \in {"boot", "user"}
           /\ save_goto_btld = GOTO_BTLD) => pc' = "boot"]_eraseVars
  <2> SUFFICES ASSUME EraseInv, EraseNext,
                      pc \in ErasePc \ {"read"},
                      pc' \in {"boot", "user"},
                      save_goto_btld = GOTO_BTLD
               PROVE  pc' = "boot"
    OBVIOUS
  <2>1. \/ flash[0].head = GOTO_BTLD
        \/ flash[0] = ErasedBlock /\ flash[1].head = GOTO_BTLD
    BY DEF EraseInv, VectorKept, BlankSoFar, ErasePc
  <2>2. RunsBootloader(flash)
    BY <2>1, CopyIsEnough DEF EraseInv, EraseTypeOK
  <2>3. pc' \in AfterReset(flash)
    BY DEF EraseNext, EraseStep, Call, ReadVector, EraseSpare, WriteBackup,
           EraseCurrent, RestoreVector, EraseReturn, ReceiveCells, StartUser,
           Reset, PowerCut, ErasePc
  <2> QED BY <2>2, <2>3 DEF AfterReset
<1> QED
  BY <1>1, EraseInvariance, PTL DEF EraseSpec, CutRestartsBootloader

(***************************************************************************)
(* When the loop of erase_flash ends, every block but the vector's is      *)
(* blank, for any number of blocks (flash.c:106-112).                      *)
(***************************************************************************)
THEOREM BlankTheorem == EraseSpec => EraseReturnsBlank
<1>1. EraseInv /\ [EraseNext]_eraseVars =>
        [(pc \in ErasePc /\ pc' = "recv") => flash' = OnlyVector(save_goto_btld)]_eraseVars
  <2> SUFFICES ASSUME EraseInv, EraseNext, pc \in ErasePc, pc' = "recv"
               PROVE  flash' = OnlyVector(save_goto_btld)
    OBVIOUS
  <2>1. EraseReturn
    BY DEF EraseNext, EraseStep, Call, ReadVector, EraseSpare, WriteBackup,
           EraseCurrent, RestoreVector, EraseReturn, ReceiveCells, StartUser,
           Reset, PowerCut, ErasePc, AfterReset
  <2>2. /\ flash[0] = [head |-> save_goto_btld, body |-> ERASED]
        /\ \A b \in 1 .. ERASE_BLK_CNT - 1 : flash[b] = ErasedBlock
    BY <2>1, BlockCountAssumption DEF EraseReturn, EraseInv, BlankSoFar
  <2>3. \A b \in Blocks :
          flash[b] = IF b = 0 THEN [head |-> save_goto_btld, body |-> ERASED]
                     ELSE ErasedBlock
    BY <2>2 DEF Blocks
  <2>4. flash = [b \in Blocks |-> flash[b]] /\ flash' = flash
    BY <2>1 DEF EraseReturn, EraseInv, EraseTypeOK
  <2> QED BY <2>3, <2>4 DEF OnlyVector
<1> QED
  BY <1>1, EraseInvariance, PTL DEF EraseSpec, EraseReturnsBlank

-----------------------------------------------------------------------------
(* The composition.                                                        *)

\* A tool that waits for a reply has not sent its last message.
WaitingFor == hpc = "wait" => idx <= Blks(img) + 1

BootInv == TypeOK /\ WaitingFor /\ BlankSoFar

-----------------------------------------------------------------------------
(* Messages.                                                               *)

\* Everything that the tool sends after the handshake is a message.
LEMMA MessageType ==
  ASSUME NEW m \in Images, NEW k \in 0 .. Blks(m) + 2
  PROVE  /\ SessionMsg(m, k) \in Message
         /\ SessionMsg(m, k) # STOP => k <= Blks(m) + 1
<1>1. Blks(m) \in Nat /\ Blks(m) <= ERASE_BLK_CNT
  BY ImageAssumption, BlockCountAssumption
<1>2. CASE k <= Blks(m) + 1
  BY <1>1, <1>2, BlockCountAssumption DEF Message
<1>3. CASE k = Blks(m) + 2
  BY <1>1, <1>3 DEF Message, SessionMsg
<1> QED BY <1>1, <1>2, <1>3

\* What message_handle() finds in a message is what an image is made of.
LEMMA MessageCells ==
  ASSUME NEW w \in Message
  PROVE  /\ w.op = "D" => w.blk \in Blocks /\ w.cell \in UserCell
         /\ w.op \in {"M", "N"} => w.cell \in UserCell
<1>1. CASE w \in {BTL, STOP, Damaged}
  BY <1>1 DEF BTL, STOP, Damaged
<1>2. CASE \E m \in Images, k \in 0 .. ERASE_BLK_CNT + 1 : w = SessionMsg(m, k)
  <2>1. PICK m \in Images, k \in 0 .. ERASE_BLK_CNT + 1 : w = SessionMsg(m, k)
    BY <1>2
  <2>2. /\ Blks(m) \in Nat /\ Blks(m) <= ERASE_BLK_CNT
        /\ SigCell(m) \in UserCell /\ SizeCell(Blks(m)) \in UserCell
        /\ \A b \in Blocks : CodeCell(m, b) \in UserCell
    BY ImageAssumption, BlockCountAssumption
  <2>3. CASE k < Blks(m)
    <3>1. k \in Blocks
      BY <2>2, <2>3, BlockCountAssumption DEF Blocks
    <3> QED BY <2>1, <2>2, <2>3, <3>1 DEF SessionMsg, DataMsg
  <2>4. CASE k >= Blks(m)
    BY <2>1, <2>2, <2>4 DEF SessionMsg, SizeMsg, SignatMsg, STOP
  <2> QED BY <2>2, <2>3, <2>4
<1> QED BY <1>1, <1>2 DEF Message

\* What a user program may have is what the body of a block may have.
LEMMA UserCellIsBody == UserCell \subseteq BodyCell /\ ERASED \in BodyCell
BY DEF BodyCell

\* Programming cells is what EraseFlash allows fw_receive to do.
LEMMA ProgramReceives ==
  ASSUME pc = "recv", NEW x \in CellNo, NEW y \in CellNo, NEW c \in BodyCell,
         x <= y, flash' = WriteCells(flash, x, y, c),
         harm' = IF x = 0 THEN harm \cup {"record"} ELSE harm,
         UNCHANGED <<pc, save_goto_btld, curr_erase_blk>>
  PROVE  ReceiveCells
BY DEF ReceiveCells

\* The cells of a block, and those of the metadata.
LEMMA CellNumbers ==
  /\ \A b \in Blocks :
       /\ FirstCell(b) \in CellNo \ {0} /\ LastCell(b) \in CellNo
       /\ FirstCell(b) <= LastCell(b)
  /\ Last \in Nat /\ Last >= 1
  /\ 2 * Last \in CellNo \ {0} /\ 2 * Last + 1 \in CellNo \ {0}
BY BlockCountAssumption DEF Blocks, FirstCell, LastCell, CellNo, Last

-----------------------------------------------------------------------------
(* Every step is one of EraseFlash or leaves its variables alone.          *)

\* A step of the composition is one of EraseFlash or stutters there.
LEMMA StepsErase ==
  ASSUME TypeOK, Next
  PROVE  [EraseNext]_eraseVars
<1> USE DEF EraseNext
<1>1. CASE Accept
  BY <1>1 DEF Accept
<1>2. CASE ExpectTimeout
  BY <1>2 DEF ExpectTimeout
<1>3. CASE BootUser
  BY <1>3 DEF BootUser
<1>4. CASE RejectUser
  BY <1>4 DEF RejectUser, Restart, Reset
<1>5. CASE Erase
  BY <1>5 DEF Erase
<1>6. CASE SendReady
  BY <1>6 DEF SendReady
<1>7. CASE HandleMessage
  <2> USE UserCellIsBody
  <2>1. wire # None => wire \in Message
    BY DEF TypeOK
  <2>2. CASE HandleData
    <3>1. wire.blk \in Blocks /\ wire.cell \in BodyCell
      BY <2>1, <2>2, MessageCells DEF HandleData
    <3>2. CASE wire.blk >= Last
      BY <2>2, <3>2 DEF HandleData, Handled, eraseVars
    <3>3. CASE ~(wire.blk >= Last)
      <4>1. /\ pc = "recv"
            /\ flash' = WriteCells(flash, FirstCell(wire.blk), LastCell(wire.blk),
                                  wire.cell)
            /\ UNCHANGED <<pc, save_goto_btld, curr_erase_blk, harm>>
        BY <2>2, <3>3 DEF HandleData, Handled, Listening
      <4> QED BY <3>1, <4>1, CellNumbers, ProgramReceives
    <3> QED BY <3>2, <3>3
  <2>3. CASE HandleSize \/ HandleSignat
    <3>1. wire.cell \in BodyCell
      BY <2>1, <2>3, MessageCells DEF HandleSize, HandleSignat
    <3>2. PICK x \in {2 * Last, 2 * Last + 1} :
            flash' = WriteCells(flash, x, x, wire.cell)
      BY <2>3 DEF HandleSize, HandleSignat
    <3>3. x \in CellNo /\ x # 0 /\ x <= x
      BY CellNumbers DEF CellNo
    <3>4. pc = "recv" /\ UNCHANGED <<pc, save_goto_btld, curr_erase_blk, harm>>
      BY <2>3 DEF HandleSize, HandleSignat, Handled, Listening
    <3> QED BY <3>1, <3>2, <3>3, <3>4, ProgramReceives
  <2>4. CASE HandleStop \/ HandleUnknown
    BY <2>4 DEF HandleStop, HandleUnknown, Handled, eraseVars
  <2>5. CASE HandleDamaged
    <3>1. CASE UNCHANGED eraseVars
      BY <3>1
    <3>2. CASE UNCHANGED <<flash, harm>> /\ \E t \in Status : Handled(t)
      BY <3>2 DEF Handled, eraseVars
    <3>3. CASE /\ \E x \in CellNo, y \in CellNo :
                    /\ x <= y /\ (y < 2 * Last \/ x = y)
                    /\ flash' = WriteCells(flash, x, y, NoiseCell)
                    /\ harm' = IF x = 0 THEN harm \cup {"record"} ELSE harm
               /\ Handled("STATUS_NO_ERR")
      <4>1. PICK x \in CellNo, y \in CellNo :
              /\ x <= y
              /\ flash' = WriteCells(flash, x, y, NoiseCell)
              /\ harm' = IF x = 0 THEN harm \cup {"record"} ELSE harm
        BY <3>3
      <4>2. NoiseCell \in BodyCell
        BY ImageAssumption
      <4>3. pc = "recv" /\ UNCHANGED <<pc, save_goto_btld, curr_erase_blk>>
        BY <3>3 DEF Handled, Listening
      <4> QED BY <4>1, <4>2, <4>3, ProgramReceives
    <3> QED BY <2>5, <3>1, <3>2, <3>3 DEF HandleDamaged
  <2>6. CASE HandleSpliced
    <3>1. UNCHANGED <<pc, save_goto_btld, curr_erase_blk, harm>> /\ pc = "recv"
      BY <2>6 DEF HandleSpliced, Handled, Listening
    <3>2. CASE UNCHANGED flash
      BY <3>1, <3>2 DEF eraseVars
    <3>3. CASE flash' # flash
      <4>1. PICK x \in CellNo, y \in CellNo :
              /\ \/ half = "D" /\ 1 <= x /\ x <= y /\ y < 2 * Last
                 \/ half = "N" /\ x = 2 * Last /\ y = x
              /\ flash' = WriteCells(flash, x, y, NoiseCell)
        BY <2>6, <3>3 DEF HandleSpliced
      <4>2. x # 0 /\ x <= y
        BY <4>1, CellNumbers DEF CellNo
      <4>3. NoiseCell \in BodyCell
        BY ImageAssumption
      <4> QED BY <3>1, <4>1, <4>2, <4>3, ProgramReceives
    <3> QED BY <3>2, <3>3
  <2> QED BY <1>7, <2>2, <2>3, <2>4, <2>5, <2>6 DEF HandleMessage
<1>8. CASE AnswerSuccess
  BY <1>8 DEF AnswerSuccess
<1>9. CASE AnswerAndReset
  BY <1>9 DEF AnswerAndReset, Restart, Reset
<1>10. CASE HostNext \/ StartTool \/ KillTool \/ Miss \/ Overrun \/ Damage
  BY <1>10 DEF HostNext, SayHello, ReadHello, ReadTimeout, SendMsg, ReadReply,
     StartTool, KillTool, Miss, Overrun, Damage, mcuVars, eraseVars
<1>11. CASE Cut
  BY <1>11 DEF Cut, Restart, PowerCut
<1> QED
  BY <1>1, <1>2, <1>3, <1>4, <1>5, <1>6, <1>7, <1>8, <1>9, <1>10, <1>11
  DEF Next, McuNext

-----------------------------------------------------------------------------
(* Typing.                                                                 *)

\* What the MCU sends leaves the line to the tool in its type.
LEMMA SendType ==
  ASSUME TypeOK, NEW bytes \in Seq(McuByte), Send(bytes)
  PROVE  toHost' \in Seq(McuByte) /\ Len(toHost') <= LineMax
<1>1. toHost \in Seq(McuByte) /\ Len(toHost) <= LineMax
  BY DEF TypeOK
<1>2. CASE PortOpen
  <2>1. toHost' = toHost \o bytes /\ Len(toHost) + Len(bytes) <= LineMax
    BY <1>2 DEF Send
  <2>2. Len(toHost \o bytes) = Len(toHost) + Len(bytes)
    BY <1>1
  <2> QED BY <1>1, <2>1, <2>2
<1>3. CASE ~PortOpen
  BY <1>1, <1>3 DEF Send
<1> QED BY <1>2, <1>3

\* What the MCU sends in one go are bytes it may send.
LEMMA SentBytes ==
  /\ OK \in Seq(McuByte)
  /\ \A b \in McuByte : <<b>> \in Seq(McuByte)
  /\ \A s \in Status \ {"STATUS_NO_ERR"} : McuErrs(s) \subseteq McuByte
<1>1. OK \in Seq(McuByte)
  BY DEF OK, McuByte
<1>2. \A b \in McuByte : <<b>> \in Seq(McuByte)
  OBVIOUS
<1>3. ASSUME NEW s \in Status \ {"STATUS_NO_ERR"}
      PROVE  McuErrs(s) \subseteq McuByte
  BY <1>3 DEF Status, McuErrs, McuByte
<1> QED BY <1>1, <1>2, <1>3

\* The MCU's part of the state.
McuTypeOK ==
  /\ at \in {"expect", "verify", "ready", "listen", "answer"}
  /\ status \in Status
  /\ deaf \in BOOLEAN
  /\ half \in Escapable \cup {"none"}
  /\ spliced \in BOOLEAN

LineTypeOK ==
  /\ wire \in Message \cup {None}
  /\ toHost \in Seq(McuByte) /\ Len(toHost) <= LineMax

HostTypeOK ==
  /\ hpc \in {"off", "hello", "read4", "send", "wait", "done", "failed"}
  /\ img \in Images
  /\ idx \in 0 .. Blks(img) + 2
  /\ sessions \in 0 .. MaxSessions
  /\ faults \in 0 .. MaxFaults

\* Each step keeps the types of what the MCU has.
LEMMA McuTypeStep ==
  ASSUME TypeOK, Next
  PROVE  McuTypeOK'
<1>1. McuTypeOK
  BY DEF TypeOK, McuTypeOK
<1> USE DEF McuTypeOK, Status, Escapable
<1>2. CASE Accept \/ ExpectTimeout \/ BootUser \/ Erase \/ SendReady
  BY <1>1, <1>2 DEF Accept, ExpectTimeout, BootUser, Erase, SendReady
<1>3. CASE RejectUser \/ AnswerAndReset \/ Cut
  BY <1>1, <1>3 DEF RejectUser, AnswerAndReset, Cut, Restart
<1>4. CASE HandleMessage
  BY <1>1, <1>4 DEF HandleMessage, HandleData, HandleSize, HandleSignat,
     HandleStop, HandleUnknown, HandleSpliced, HandleDamaged, Handled, mcuVars
<1>5. CASE AnswerSuccess \/ Miss \/ Overrun \/ Damage
  BY <1>1, <1>5 DEF AnswerSuccess, Miss, Overrun, Damage, mcuVars
<1>6. CASE HostNext \/ StartTool \/ KillTool
  BY <1>1, <1>6 DEF HostNext, SayHello, ReadHello, ReadTimeout, SendMsg,
     ReadReply, StartTool, KillTool, mcuVars
<1> QED
  BY <1>2, <1>3, <1>4, <1>5, <1>6 DEF Next, McuNext

\* Each step keeps the types of the line.
LEMMA LineTypeStep ==
  ASSUME TypeOK, WaitingFor, Next
  PROVE  LineTypeOK'
<1>1. LineTypeOK
  BY DEF TypeOK, LineTypeOK
<1> USE DEF LineTypeOK
<1>2. << >> \in Seq(McuByte) /\ Len(<< >>) <= LineMax
  BY BoundAssumption
<1>3. CASE Accept \/ ExpectTimeout \/ Erase
  BY <1>1, <1>3 DEF Accept, ExpectTimeout, Erase
<1>4. CASE BootUser \/ RejectUser \/ AnswerSuccess
  <2>1. /\ "S" \in McuByte /\ "K" \in McuByte /\ "F" \in McuByte
        /\ Send(<<"S">>) \/ Send(<<"K">>) \/ Send(<<"F">>)
        /\ wire' = wire
    BY <1>4 DEF BootUser, RejectUser, AnswerSuccess, McuByte
  <2> QED BY <2>1, <1>1, SentBytes, SendType
<1>5. CASE SendReady
  BY <1>1, <1>5, SentBytes, SendType DEF SendReady
<1>6. CASE AnswerAndReset
  <2>1. PICK b \in McuErrs(status) : Send(<<b>>)
    BY <1>6 DEF AnswerAndReset
  <2>2. b \in McuByte
    BY <2>1, <1>6, SentBytes DEF AnswerAndReset, TypeOK
  <2> QED BY <1>1, <1>6, <2>1, <2>2, SentBytes, SendType DEF AnswerAndReset
<1>7. CASE HandleMessage
  BY <1>1, <1>7 DEF HandleMessage, HandleData, HandleSize, HandleSignat,
     HandleStop, HandleUnknown, HandleSpliced, HandleDamaged, Handled
<1>8. CASE Miss \/ Overrun \/ Cut
  BY <1>1, <1>8 DEF Miss, Overrun, Cut
<1>9. CASE StartTool \/ KillTool
  BY <1>1, <1>2, <1>9 DEF StartTool, KillTool
<1>10. CASE Damage \/ SayHello
  BY <1>1, <1>10 DEF Damage, SayHello, Message
<1>11. CASE ReadHello \/ ReadReply
  <2>1. SubSeq(toHost, 5, Len(toHost)) \in Seq(McuByte)
        /\ (Len(toHost) >= 4 => Len(SubSeq(toHost, 5, Len(toHost))) <= LineMax)
    BY <1>1, BoundAssumption
  <2>2. toHost # << >> =>
          Tail(toHost) \in Seq(McuByte) /\ Len(Tail(toHost)) <= LineMax
    BY <1>1, BoundAssumption
  <2> QED BY <1>1, <1>11, <2>1, <2>2 DEF ReadHello, ReadReply
<1>12. CASE ReadTimeout
  BY <1>1, <1>2, <1>12 DEF ReadTimeout
<1>13. CASE SendMsg
  <2>1. SessionMsg(img, idx) \in Message
    BY MessageType DEF TypeOK
  <2> QED BY <1>1, <1>2, <1>13, <2>1 DEF SendMsg
<1> QED
  BY <1>3, <1>4, <1>5, <1>6, <1>7, <1>8, <1>9, <1>10, <1>11, <1>12, <1>13
  DEF Next, McuNext, HostNext

\* Each step keeps the types of what the tool has.
LEMMA HostTypeStep ==
  ASSUME TypeOK, WaitingFor, Next
  PROVE  HostTypeOK' /\ WaitingFor'
<1>1. HostTypeOK
  BY DEF TypeOK, HostTypeOK
<1>2. \A m \in Images : Blks(m) \in Nat
  BY ImageAssumption, BlockCountAssumption
<1> USE DEF HostTypeOK, WaitingFor
<1>3. CASE UNCHANGED <<hostVars, faults>>
  BY <1>1, <1>3 DEF hostVars
<1>4. CASE StartTool
  BY <1>1, <1>2, <1>4, BoundAssumption DEF StartTool
<1>5. CASE KillTool
  BY <1>1, <1>5 DEF KillTool
<1>6. CASE SayHello \/ ReadHello \/ ReadTimeout
  BY <1>1, <1>6 DEF SayHello, ReadHello, ReadTimeout
<1>7. CASE SendMsg
  BY <1>1, <1>2, <1>7, MessageType DEF SendMsg
<1>8. CASE ReadReply
  <2>1. idx <= Blks(img) + 1 /\ idx \in Nat /\ Blks(img) \in Nat
    BY <1>1, <1>2, <1>8 DEF ReadReply
  <2> QED BY <1>1, <1>8, <2>1 DEF ReadReply
<1>9. CASE Damage
  BY <1>1, <1>9, BoundAssumption DEF Damage, hostVars
<1>10. McuNext => UNCHANGED <<hostVars, faults>>
  BY DEF McuNext, Accept, ExpectTimeout, BootUser, RejectUser, Erase, SendReady,
     HandleMessage, HandleData, HandleSize, HandleSignat, HandleStop,
     HandleUnknown, HandleSpliced, HandleDamaged, Handled, AnswerSuccess, AnswerAndReset
<1>11. Miss \/ Overrun \/ Cut => UNCHANGED <<hostVars, faults>>
  BY DEF Miss, Overrun, Cut
<1> QED
  BY <1>3, <1>4, <1>5, <1>6, <1>7, <1>8, <1>9, <1>10, <1>11 DEF Next, HostNext

\* BootInv is an invariant.
LEMMA BootInvariance == Spec => []BootInv
<1>1. Init => BootInv
  <2> SUFFICES ASSUME Init PROVE BootInv OBVIOUS
  <2>1. EraseTypeOK /\ BlankSoFar
    <3>1. flash \in [Blocks -> Block]
      BY OnlyVectorType DEF Init, EraseInit, Cell
    <3> QED BY <3>1, BlockCountAssumption
            DEF Init, EraseInit, EraseTypeOK, BlankSoFar, AnyPc, Cell, Harms
  <2>2. McuTypeOK
    BY DEF Init, McuTypeOK, Status, Escapable
  <2>3. LineTypeOK
    BY BoundAssumption DEF Init, LineTypeOK
  <2>4. HostTypeOK /\ WaitingFor
    BY ImageAssumption, BlockCountAssumption, BoundAssumption
    DEF Init, HostTypeOK, WaitingFor
  <2> QED BY <2>1, <2>2, <2>3, <2>4
          DEF BootInv, TypeOK, McuTypeOK, LineTypeOK, HostTypeOK
<1>2. BootInv /\ [Next]_vars => BootInv'
  <2>1. CASE UNCHANGED vars
    BY <2>1 DEF BootInv, TypeOK, EraseTypeOK, WaitingFor, BlankSoFar, vars,
       mcuVars, eraseVars, hostVars
  <2>2. ASSUME BootInv, Next PROVE BootInv'
    <3>1. [EraseNext]_eraseVars
      BY <2>2, StepsErase DEF BootInv
    <3>2. EraseTypeOK' /\ BlankSoFar'
      BY <2>2, <3>1, TypeStep, BlankStep DEF BootInv, TypeOK
    <3>3. McuTypeOK' /\ LineTypeOK' /\ HostTypeOK' /\ WaitingFor'
      BY <2>2, McuTypeStep, LineTypeStep, HostTypeStep DEF BootInv
    <3> QED BY <3>2, <3>3 DEF BootInv, TypeOK, McuTypeOK, LineTypeOK, HostTypeOK
  <2> QED BY <2>1, <2>2
<1> QED BY <1>1, <1>2, PTL DEF Spec

(***************************************************************************)
(* TypeOK for every instance: the tool never counts beyond its stop        *)
(* message, and only messages and replies of the protocol are on the line. *)
(***************************************************************************)
THEOREM TypeCorrect == Spec => []TypeOK
BY BootInvariance, PTL DEF BootInv

(***************************************************************************)
(* The whole system does to the program memory only what EraseFlash allows *)
(* (main.c:63-129 and 271-305 beside flash.c:98-113).                      *)
(***************************************************************************)
THEOREM EraseFlashImplemented == Spec => ImplementsEraseFlash
<1>1. Init => EraseInit
  BY DEF Init
<1>2. BootInv /\ [Next]_vars => [EraseNext]_eraseVars
  BY StepsErase DEF BootInv, vars, mcuVars, eraseVars
<1> QED
  BY <1>1, <1>2, BootInvariance, PTL DEF Spec, ImplementsEraseFlash, EraseSpec

(***************************************************************************)
(* Until a record is programmed over the vector or the power fails in the  *)
(* unprotected window, no reset in any behaviour of the whole system lands *)
(* in user code (flash.c:98-113 under main.c:131-179).                     *)
(***************************************************************************)
THEOREM ResetTheorem == Spec => []UnharmedRunsBootloader
BY EraseFlashImplemented, VectorTheorem, PTL DEF ImplementsEraseFlash

-----------------------------------------------------------------------------
(* One image gives way to another only through a memory that holds none.   *)

\* The block of the metadata is there and is not that of the vector.
LEMMA LastBlock == Last \in Blocks /\ Last # 0 /\ Last >= 1
BY BlockCountAssumption DEF Last, Blocks

\* A memory holds one image at most, and StoredIn is the one it holds.
LEMMA OneImage ==
  ASSUME NEW f, NEW m \in Images, NEW n \in Images, Holds(f, m), Holds(f, n)
  PROVE  m = n
BY ImageAssumption DEF Holds

\* The image that a memory holds is the one StoredIn() names.
LEMMA StoredIs ==
  ASSUME NEW f
  PROVE  /\ \A m \in Images : Holds(f, m) => StoredIn(f) = m
         /\ ~SignatureValid(f) => StoredIn(f) = None
         /\ SignatureValid(f) => StoredIn(f) \in Images /\ Holds(f, StoredIn(f))
<1>1. ASSUME NEW m \in Images, Holds(f, m)
      PROVE  StoredIn(f) = m
  <2>1. Holds(f, CHOOSE n \in Images : Holds(f, n))
          /\ (CHOOSE n \in Images : Holds(f, n)) \in Images
    BY <1>1
  <2>2. (CHOOSE n \in Images : Holds(f, n)) = m
    BY <1>1, <2>1, OneImage
  <2> QED BY <1>1, <2>2 DEF StoredIn, SignatureValid
<1>2. ~SignatureValid(f) => StoredIn(f) = None
  BY DEF StoredIn
<1> QED BY <1>1, <1>2 DEF SignatureValid

\* What one step of EraseFlash does to the cell of the signature.
SignatureCell(old, new) == new \in {old, ERASED, GARBLED} \/ old = ERASED

\* Programming never turns one signature into another.
LEMMA ProgrammedSignature ==
  ASSUME NEW old, NEW new
  PROVE  SignatureCell(old, Programmed(old, new))
BY DEF SignatureCell, Programmed

\* Neither primitive turns the signature in a head into another one.
LEMMA HeadAfter ==
  ASSUME NEW f \in [Blocks -> Block], NEW b \in Blocks, NEW a \in Blocks, NEW c,
         NEW x, NEW y
  PROVE  /\ SignatureCell(f[a].head, EraseBlock(f, b)[a].head)
         /\ SignatureCell(f[a].head, WriteHead(f, b, c)[a].head)
         /\ SignatureCell(f[a].head, WriteCells(f, x, y, c)[a].head)
<1>1. EraseBlock(f, b)[a].head \in {f[a].head, ERASED}
  BY DEF EraseBlock, ErasedBlock
<1>2. WriteHead(f, b, c)[a].head \in {f[a].head, Programmed(f[a].head, c)}
  BY DEF WriteHead, Block
<1>3. WriteCells(f, x, y, c)[a].head \in {f[a].head, Programmed(f[a].head, c)}
  BY DEF WriteCells
<1> QED BY <1>1, <1>2, <1>3, ProgrammedSignature DEF SignatureCell

\* No step turns the signature that is stored into another one.
LEMMA SignatureStep ==
  ASSUME EraseTypeOK, EraseNext
  PROVE  SignatureCell(flash[Last].head, flash'[Last].head)
<1> USE LastBlock, FirstBlocks
<1>1. flash \in [Blocks -> Block]
  BY DEF EraseTypeOK
<1>2. CASE flash' = flash
  BY <1>2 DEF SignatureCell
<1>3. CASE EraseSpare
  BY <1>1, <1>3, HeadAfter DEF EraseSpare
<1>4. CASE WriteBackup \/ RestoreVector
  BY <1>1, <1>4, HeadAfter DEF WriteBackup, RestoreVector
<1>5. CASE EraseCurrent
  <2>1. curr_erase_blk \in Blocks
    BY <1>5, BlockCountAssumption DEF EraseCurrent, EraseTypeOK, Blocks
  <2> QED BY <1>1, <1>5, <2>1, HeadAfter DEF EraseCurrent
<1>6. CASE ReceiveCells
  <2>1. PICK x \in CellNo, y \in CellNo, c \in BodyCell :
          flash' = WriteCells(flash, x, y, c)
    BY <1>6 DEF ReceiveCells
  <2> QED BY <1>1, <2>1, HeadAfter
<1> QED
  BY <1>2, <1>3, <1>4, <1>5, <1>6
  DEF EraseNext, EraseStep, Call, ReadVector, EraseReturn, StartUser, Reset, PowerCut

\* No step leads from one signed image to another.
LEMMA NoDirectChange ==
  ASSUME EraseTypeOK, EraseNext,
         NEW m \in Images, NEW n \in Images, Holds(flash, m), Holds(flash, n)'
  PROVE  m = n
<1>1. flash[Last].head = SigCell(m) /\ flash'[Last].head = SigCell(n)
  BY DEF Holds
<1>2. /\ SigCell(m) # ERASED /\ SigCell(n) # ERASED /\ SigCell(n) # GARBLED
  BY ImageAssumption, CellAssumption
<1> QED BY <1>1, <1>2, SignatureStep, ImageAssumption DEF SignatureCell

\* User code runs only when its image is in the memory.
RunsInstalled == harm = {} /\ pc = "user" => SignatureValid(flash)

\* What a step does to what is promised.
LEMMA UserSteps ==
  ASSUME BootInv, UnharmedRunsBootloader, harm = {}, Next
  PROVE  /\ pc = "user" => UNCHANGED <<flash, harm>>
         /\ pc' = "user" /\ pc # "user" =>
              SignatureValid(flash) /\ UNCHANGED <<flash, harm>>
<1>1. [EraseNext]_eraseVars
  BY StepsErase DEF BootInv
<1>2. pc = "user" => UNCHANGED <<flash, harm>>
  BY <1>1 DEF EraseNext, EraseStep, Call, ReadVector, EraseSpare, WriteBackup,
     EraseCurrent, RestoreVector, EraseReturn, ReceiveCells, StartUser, Reset,
     PowerCut, CutHarm, eraseVars
<1>3. ASSUME pc' = "user", pc # "user"
      PROVE  BootUser
  <2>1. AfterReset(flash) = {"boot"}
    BY DEF AfterReset, UnharmedRunsBootloader
  <2>2. StartUser
    BY <1>1, <1>3, <2>1 DEF EraseNext, EraseStep, Call, ReadVector, EraseSpare,
       WriteBackup, EraseCurrent, RestoreVector, EraseReturn, ReceiveCells,
       Reset, PowerCut, eraseVars
  <2> QED
    BY <1>3, <2>1, <2>2 DEF Next, McuNext, HostNext, Accept, Call, ExpectTimeout,
       RejectUser, Restart, Erase, EraseStep, ReadVector, EraseSpare,
       WriteBackup, EraseCurrent, RestoreVector, EraseReturn, SendReady,
       HandleMessage, HandleData, HandleSize, HandleSignat, HandleStop,
       HandleUnknown, HandleSpliced, HandleDamaged, Handled, AnswerSuccess, AnswerAndReset,
       SayHello, ReadHello, ReadTimeout, SendMsg, ReadReply, StartTool, KillTool,
       Miss, Overrun, Damage, Cut, mcuVars, eraseVars
<1> QED BY <1>2, <1>3 DEF BootUser, StartUser

\* Between two images there is always a memory with none.
LEMMA InstalledStep ==
  ASSUME BootInv, Next
  PROVE  \/ InstalledImage' = InstalledImage
         \/ InstalledImage' = None
         \/ InstalledImage = None /\ InstalledImage' \in Images
<1>1. InstalledImage = StoredIn(flash) /\ InstalledImage' = StoredIn(flash')
  BY DEF InstalledImage
<1>2. CASE flash' = flash
  BY <1>1, <1>2
<1>3. CASE EraseNext
  <2>1. CASE ~SignatureValid(flash')
    BY <1>1, <2>1, StoredIs
  <2>2. CASE SignatureValid(flash') /\ ~SignatureValid(flash)
    BY <1>1, <2>2, StoredIs
  <2>3. CASE SignatureValid(flash') /\ SignatureValid(flash)
    <3>1. PICK m \in Images, n \in Images : Holds(flash, m) /\ Holds(flash', n)
      BY <2>3 DEF SignatureValid
    <3>2. m = n
      BY <1>3, <3>1, NoDirectChange DEF BootInv, TypeOK
    <3>3. StoredIn(flash) = m /\ StoredIn(flash') = n
      BY <3>1, StoredIs
    <3> QED BY <1>1, <3>2, <3>3
  <2> QED BY <2>1, <2>2, <2>3
<1> QED BY <1>2, <1>3, StepsErase DEF BootInv, eraseVars

\* A harmed vector stays so.
LEMMA HarmGrows ==
  ASSUME [EraseNext]_eraseVars
  PROVE  harm \subseteq harm'
BY DEF EraseNext, EraseStep, Call, ReadVector, EraseSpare, WriteBackup,
   EraseCurrent, RestoreVector, EraseReturn, ReceiveCells, StartUser, Reset,
   PowerCut, eraseVars

\* While the vector is unharmed, each step is one of SecureBoot, or changes
\* nothing that it mentions.
LEMMA UnharmedStep ==
  ASSUME BootInv, UnharmedRunsBootloader, RunsInstalled, Next,
         harm = {}, harm' = {}
  PROVE  [Promise!SecureNext]_(Promise!abstractVars) /\ RunsInstalled'
<1>0. UNCHANGED (harm # {})
  OBVIOUS
<1>1. CASE pc # "user" /\ pc' # "user"
  <2>1. RunsInstalled'
    BY <1>1 DEF RunsInstalled
  <2>2. [Promise!SecureNext]_(Promise!abstractVars)
    BY <1>0, <1>1, InstalledStep
    DEF Promise!SecureNext, Promise!Forget, Promise!Install,
        Promise!abstractVars
  <2> QED BY <2>1, <2>2
<1>2. CASE pc # "user" /\ pc' = "user"
  <2>1. SignatureValid(flash) /\ flash' = flash
    BY <1>2, UserSteps
  <2>2. InstalledImage \in Images /\ InstalledImage' = InstalledImage
    BY <2>1, StoredIs DEF InstalledImage
  <2>3. InstalledImage # None
    BY <2>2, ImageAssumption
  <2>4. Promise!Run
    BY <1>0, <1>2, <2>1, <2>2, <2>3 DEF Promise!Run
  <2> QED BY <2>1, <2>4 DEF RunsInstalled, Promise!SecureNext
<1>3. CASE pc = "user"
  <2>1. flash' = flash /\ SignatureValid(flash)
    BY <1>3, UserSteps DEF RunsInstalled
  <2>2. InstalledImage' = InstalledImage
    BY <2>1 DEF InstalledImage
  <2>3. RunsInstalled'
    BY <2>1 DEF RunsInstalled
  <2>4. ASSUME pc' = "user" PROVE UNCHANGED Promise!abstractVars
    BY <1>0, <1>3, <2>1, <2>2, <2>4 DEF Promise!abstractVars
  <2>5. ASSUME pc' # "user" PROVE Promise!Stop
    BY <1>0, <2>2, <2>5 DEF Promise!Stop
  <2> QED BY <2>3, <2>4, <2>5 DEF Promise!SecureNext
<1> QED BY <1>1, <1>2, <1>3

\* The same for every step: harm breaks the promise and nothing repairs it.
LEMMA PromiseStep ==
  ASSUME BootInv, UnharmedRunsBootloader, RunsInstalled, [Next]_vars
  PROVE  [Promise!SecureNext]_(Promise!abstractVars) /\ RunsInstalled'
<1>1. CASE UNCHANGED vars
  <2>1. flash' = flash /\ pc' = pc /\ harm' = harm
    BY <1>1 DEF vars, mcuVars, eraseVars
  <2> QED
    BY <2>1 DEF RunsInstalled, Promise!abstractVars, InstalledImage
<1>2. CASE Next
  <2>0. harm \subseteq harm'
    BY <1>2, StepsErase, HarmGrows DEF BootInv
  <2>1. CASE harm # {}
    <3>1. harm' # {}
      BY <2>0, <2>1
    <3>2. Promise!Stray
      BY <2>1, <3>1 DEF Promise!Stray
    <3> QED BY <3>1, <3>2 DEF RunsInstalled, Promise!SecureNext
  <2>2. CASE harm = {} /\ harm' # {}
    <3>1. pc # "user" /\ pc' # "user"
      BY <1>2, <2>2, UserSteps
    <3>2. Promise!Break
      BY <2>2, <3>1 DEF Promise!Break
    <3> QED BY <2>2, <3>2 DEF RunsInstalled, Promise!SecureNext
  <2>3. CASE harm = {} /\ harm' = {}
    BY <1>2, <2>3, UnharmedStep
  <2> QED BY <2>1, <2>2, <2>3
<1> QED BY <1>1, <1>2

(***************************************************************************)
(* The bootloader keeps its promise for every number of blocks, images,    *)
(* sessions and damaged messages and for power cuts at any moment: user    *)
(* code runs only as a whole signed image, and an image is replaced only   *)
(* through a memory that holds none - until a record is programmed over    *)
(* the vector or the power fails in the window in which block 0 is blank   *)
(* (main.c:281-304 and 98-117, flash.c:98-113).                            *)
(***************************************************************************)
THEOREM PromiseTheorem == Spec => KeepsPromise
<1>1. Init => Promise!SecureInit /\ RunsInstalled
  <2> SUFFICES ASSUME Init PROVE Promise!SecureInit /\ RunsInstalled
    OBVIOUS
  <2>1. pc = "boot" /\ flash[Last].head = ERASED /\ harm = {}
    BY LastBlock DEF Init, EraseInit, OnlyVector, ErasedBlock
  <2>2. ASSUME NEW m \in Images PROVE ~Holds(flash, m)
    <3>1. SigCell(m) # ERASED
      BY ImageAssumption, CellAssumption
    <3> QED BY <2>1, <3>1 DEF Holds
  <2>3. InstalledImage = None
    BY <2>2 DEF InstalledImage, StoredIn, SignatureValid
  <2>4. Promise!SecureInit
    BY <2>1, <2>3 DEF Promise!SecureInit
  <2> QED BY <2>1, <2>4 DEF RunsInstalled
<1>2. BootInv /\ UnharmedRunsBootloader /\ RunsInstalled /\ [Next]_vars
        => [Promise!SecureNext]_(Promise!abstractVars) /\ RunsInstalled'
  BY PromiseStep
<1>3. Spec => []UnharmedRunsBootloader
  BY ResetTheorem
<1> QED
  BY <1>1, <1>2, <1>3, BootInvariance, PTL
  DEF Spec, KeepsPromise, Promise!SecureSpec
-----------------------------------------------------------------------------
(* What a session leaves in the memory, as long as the line damages        *)
(* nothing.  FollowsSession below is the invariant: where the MCU and the  *)
(* tool are tells how many messages of which image have been programmed.   *)

\* What is in the memory when the first k messages for m have been programmed.
Received(f, m, k) ==
  /\ k > Last => Blks(m) <= Last
  /\ f[0].body = IF k > 0 THEN CodeCell(m, 0) ELSE ERASED
  /\ \A b \in 1 .. Last - 1 :
       f[b] = IF b < k /\ b < Blks(m)
                THEN [head |-> CodeCell(m, b), body |-> CodeCell(m, b)]
                ELSE ErasedBlock
  /\ f[Last] = [head |-> IF k > Blks(m) + 1 THEN SigCell(m) ELSE ERASED,
                body |-> IF k > Blks(m) THEN SizeCell(Blks(m)) ELSE ERASED]

NothingReceived == \A m \in Images : Received(flash, m, 0)

\* A message that fw_receive() has not taken yet and that may program.
OnWire == wire \notin {None, BTL}

\* The replies F in what the host has not read yet, and whether the answer to
\* the handshake may be in it.
NoF(s) == \A j \in 1 .. Len(s) : s[j] # "F"

OneF(s) ==
  \E n \in 1 .. Len(s) : \A j \in 1 .. Len(s) : s[j] = "F" <=> j = n

Greeted(s) == \E j \in 1 .. Len(s) : s[j] = "@"

NoFGreeted(s) ==
  \A j, k \in 1 .. Len(s) : j < k /\ s[j] = "@" => s[k] # "F"

\* The MCU is past erase_flash() exactly when main() is behind the handshake.
AtReceive == pc = "recv" <=> at \in {"ready", "listen", "answer"}

\* A message waiting for fw_receive() is the next one of the image it belongs
\* to, and none waits while one is answered with F.
NextOnWire ==
  /\ at = "listen" /\ OnWire =>
       \E m \in Images : \E k \in 0 .. Blks(m) + 2 :
         wire = SessionMsg(m, k) /\ Received(flash, m, k)
  /\ at = "answer" /\ status = "STATUS_NO_ERR" => ~OnWire

\* fw_receive() has programmed nothing; what it may answer is an error.
Fresh ==
  at \in {"listen", "answer"} =>
    /\ NothingReceived
    /\ at = "answer" => status = "STATUS_ERR_INVALID_PAYLOAD"

\* Before the tool has read the answer to its handshake.
Greeting ==
  hpc \in {"hello", "read4"} =>
    /\ idx = 0 /\ NoFGreeted(toHost)
    /\ Greeted(toHost) => Fresh /\ (at \in {"listen", "answer"} => ~OnWire)

\* fw_receive() has programmed k messages of the tool and waits, or the MCU has
\* been reset with them in the memory.
Stored(k) ==
  /\ pc \notin ErasePc /\ at \notin {"ready", "answer"}
  /\ Received(flash, img, k)

\* The MCU has been reset and hears no message of a session.
Dead == pc \in {"boot", "user"}

\* The tool has read k replies F.  A denied record may have been answered F.
Progress(k) == IF k = 0 THEN Fresh ELSE Stored(k) \/ (Dead /\ k <= Blks(img))

\* Before the tool sends a message.
Sending ==
  hpc = "send" =>
    /\ NoF(toHost) /\ Progress(idx)
    /\ idx > 0 => wire = None
    /\ at \in {"listen", "answer"} => ~OnWire

\* The message number idx is on the line, programmed, denied, answered F, or
\* lost for ever.
MessageSent == wire # None /\ NoF(toHost) /\ Progress(idx)

MessageProgrammed ==
  /\ wire = None /\ at = "answer" /\ status = "STATUS_NO_ERR"
  /\ NoF(toHost) /\ Received(flash, img, idx + 1)

MessageDenied ==
  /\ wire = None /\ at = "answer" /\ status = "STATUS_ERR_DENIED_ADDR"
  /\ NoF(toHost) /\ idx < Blks(img)

MessageAnswered ==
  /\ wire = None /\ OneF(toHost)
  /\ Stored(idx + 1) \/ (Dead /\ idx < Blks(img))

MessageLost ==
  /\ wire = None /\ NoF(toHost)
  /\ at = "answer" => status = "STATUS_ERR_INVALID_PAYLOAD"

Waiting ==
  hpc = "wait" =>
    /\ wire \in {None, SessionMsg(img, idx)}
    /\ \/ MessageSent
       \/ MessageProgrammed
       \/ MessageDenied
       \/ MessageAnswered
       \/ MessageLost

InSession ==
  /\ wire # Damaged /\ AtReceive
  /\ at = "ready" => NothingReceived
  /\ NextOnWire /\ Greeting /\ Sending /\ Waiting

\* An old message that ends in an ESC waits for the tool that was started over,
\* which has read no answer yet; and no record was programmed over the vector.
HalfHeard ==
  /\ half # "none" =>
       /\ half # "?" /\ at = "listen" /\ hpc \notin {"send", "wait"}
       /\ ~OnWire /\ ~Greeted(toHost)
  /\ "record" \notin harm

FollowsSession == faults = 0 => InSession /\ HalfHeard

-----------------------------------------------------------------------------
(* The replies in the buffer of the port.                                  *)

\* What is said of the answers on the line, for two pieces of them in a row.
LEMMA Appended ==
  ASSUME NEW s \in Seq(McuByte), NEW t \in Seq(McuByte)
  PROVE  /\ NoF(s \o t) <=> NoF(s) /\ NoF(t)
         /\ Greeted(s \o t) <=> Greeted(s) \/ Greeted(t)
         /\ NoFGreeted(s) /\ NoFGreeted(t) /\ (Greeted(s) => NoF(t))
              => NoFGreeted(s \o t)
         /\ NoF(s) /\ OneF(t) => OneF(s \o t)
         /\ OneF(s) /\ NoF(t) => OneF(s \o t)
<1> DEFINE st == s \o t
<1>1. /\ Len(st) = Len(s) + Len(t) /\ Len(s) \in Nat /\ Len(t) \in Nat
      /\ \A j \in 1 .. Len(s) : j \in 1 .. Len(st) /\ st[j] = s[j]
      /\ \A j \in 1 .. Len(t) :
           j + Len(s) \in 1 .. Len(st) /\ st[j + Len(s)] = t[j]
      /\ \A j \in 1 .. Len(st) :
           j \in 1 .. Len(s) \/ j - Len(s) \in 1 .. Len(t)
  OBVIOUS
<1>2. \A j \in 1 .. Len(st) : j \notin 1 .. Len(s) => st[j] = t[j - Len(s)]
  OBVIOUS
<1> HIDE DEF st
<1>3. NoF(st) <=> NoF(s) /\ NoF(t)
  BY <1>1, <1>2 DEF NoF
<1>4. Greeted(st) <=> Greeted(s) \/ Greeted(t)
  BY <1>1, <1>2 DEF Greeted
<1>5. ASSUME NoFGreeted(s), NoFGreeted(t), Greeted(s) => NoF(t)
      PROVE  NoFGreeted(st)
  <2> SUFFICES ASSUME NEW j \in 1 .. Len(st), NEW k \in 1 .. Len(st),
                      j < k, st[j] = "@"
               PROVE  st[k] # "F"
    BY DEF NoFGreeted
  <2>1. CASE k \in 1 .. Len(s)
    <3>1. j \in 1 .. Len(s)
      BY <1>1, <2>1
    <3>2. st[j] = s[j] /\ st[k] = s[k]
      BY <1>1, <2>1, <3>1
    <3> QED BY <1>5, <2>1, <3>1, <3>2 DEF NoFGreeted
  <2>2. CASE k \notin 1 .. Len(s) /\ j \in 1 .. Len(s)
    <3>1. s[j] = "@"
      BY <1>1, <2>2
    <3>2. NoF(t)
      BY <1>5, <2>2, <3>1 DEF Greeted
    <3> QED BY <1>1, <1>2, <2>2, <3>2 DEF NoF
  <2>3. CASE k \notin 1 .. Len(s) /\ j \notin 1 .. Len(s)
    <3>1. /\ k - Len(s) \in 1 .. Len(t) /\ j - Len(s) \in 1 .. Len(t)
          /\ st[k] = t[k - Len(s)] /\ st[j] = t[j - Len(s)]
      BY <1>1, <1>2, <2>3
    <3>2. j - Len(s) < k - Len(s)
      BY <1>1, <3>1
    <3> QED BY <1>5, <3>1, <3>2 DEF NoFGreeted
  <2> QED BY <2>1, <2>2, <2>3
<1>6. ASSUME NoF(s), OneF(t)
      PROVE  OneF(st)
  <2>1. PICK n \in 1 .. Len(t) : \A j \in 1 .. Len(t) : t[j] = "F" <=> j = n
    BY <1>6 DEF OneF
  <2>2. ASSUME NEW j \in 1 .. Len(st)
        PROVE  st[j] = "F" <=> j = n + Len(s)
    <3>1. CASE j \in 1 .. Len(s)
      <4>1. st[j] # "F"
        BY <1>1, <1>6, <3>1 DEF NoF
      <4> QED BY <1>1, <2>1, <3>1, <4>1
    <3>2. CASE j \notin 1 .. Len(s)
      <4>1. j - Len(s) \in 1 .. Len(t) /\ st[j] = t[j - Len(s)]
        BY <1>1, <1>2, <3>2
      <4>2. j - Len(s) = n <=> j = n + Len(s)
        BY <1>1, <2>1, <4>1
      <4> QED BY <2>1, <4>1, <4>2
    <3> QED BY <3>1, <3>2
  <2> QED BY <1>1, <2>1, <2>2 DEF OneF
<1>7. ASSUME OneF(s), NoF(t)
      PROVE  OneF(st)
  <2>1. PICK n \in 1 .. Len(s) : \A j \in 1 .. Len(s) : s[j] = "F" <=> j = n
    BY <1>7 DEF OneF
  <2>2. ASSUME NEW j \in 1 .. Len(st)
        PROVE  st[j] = "F" <=> j = n
    <3>1. CASE j \in 1 .. Len(s)
      BY <1>1, <2>1, <3>1
    <3>2. CASE j \notin 1 .. Len(s)
      BY <1>1, <1>2, <1>7, <2>1, <3>2 DEF NoF
    <3> QED BY <3>1, <3>2
  <2> QED BY <1>1, <2>1, <2>2 DEF OneF
<1> QED BY <1>3, <1>4, <1>5, <1>6, <1>7 DEF st

\* The same for an answer of one byte.
LEMMA ByteSent ==
  ASSUME NEW b \in McuByte
  PROVE  /\ <<b>> \in Seq(McuByte)
         /\ NoF(<<b>>) <=> b # "F"
         /\ OneF(<<"F">>) /\ "F" \in McuByte
         /\ NoFGreeted(<<b>>)
BY DEF NoF, OneF, NoFGreeted, McuByte

\* The same for the answer to the handshake.
LEMMA AnswerSent == OK \in Seq(McuByte) /\ NoF(OK) /\ NoFGreeted(OK)
<1>1. OK \in Seq(McuByte) /\ Len(OK) = 4
  BY DEF OK, McuByte
<1>2. OK[1] # "F" /\ OK[2] # "F" /\ OK[3] # "F" /\ OK[4] # "F"
  BY DEF OK
<1>3. \A j \in 1 .. Len(OK) : OK[j] # "F"
  BY <1>1, <1>2
<1> QED BY <1>1, <1>3 DEF NoF, NoFGreeted

\* What is left on the line when the tool has read one byte.
LEMMA OneRead ==
  ASSUME NEW s \in Seq(McuByte), s # << >>
  PROVE  /\ Tail(s) \in Seq(McuByte)
         /\ NoF(s) => NoF(Tail(s)) /\ Head(s) # "F"
         /\ OneF(s) /\ Head(s) = "F" => NoF(Tail(s))
         /\ OneF(s) /\ Head(s) # "F" => OneF(Tail(s))
<1> DEFINE t == Tail(s)
<1>1. /\ t \in Seq(McuByte) /\ Len(t) = Len(s) - 1 /\ Len(s) \in Nat \ {0}
      /\ \A j \in 1 .. Len(t) : t[j] = s[j + 1] /\ j + 1 \in 1 .. Len(s)
      /\ Head(s) = s[1] /\ 1 \in 1 .. Len(s)
      /\ \A j \in 1 .. Len(s) : j # 1 => j - 1 \in 1 .. Len(t)
  OBVIOUS
<1> HIDE DEF t
<1>2. NoF(s) => NoF(t) /\ Head(s) # "F"
  BY <1>1 DEF NoF
<1>3. ASSUME OneF(s)
      PROVE  (Head(s) = "F" => NoF(t)) /\ (Head(s) # "F" => OneF(t))
  <2>1. PICK n \in 1 .. Len(s) : \A j \in 1 .. Len(s) : s[j] = "F" <=> j = n
    BY <1>3 DEF OneF
  <2>2. CASE n = 1
    BY <1>1, <2>1, <2>2 DEF NoF
  <2>3. CASE n # 1
    <3>1. n - 1 \in 1 .. Len(t) /\ \A j \in 1 .. Len(t) : t[j] = "F" <=> j = n - 1
      BY <1>1, <2>1, <2>3
    <3> QED BY <1>1, <2>1, <2>3, <3>1 DEF OneF
  <2> QED BY <2>2, <2>3
<1> QED BY <1>1, <1>2, <1>3 DEF t

\* What is left on the line when the tool has read four bytes.
LEMMA FourRead ==
  ASSUME NEW s \in Seq(McuByte), Len(s) >= 4
  PROVE  LET rest == SubSeq(s, 5, Len(s)) IN
           /\ rest \in Seq(McuByte)
           /\ Greeted(rest) => Greeted(s)
           /\ NoFGreeted(s) => NoFGreeted(rest)
           /\ NoFGreeted(s) /\ SubSeq(s, 1, 4) = OK => NoF(rest) /\ Greeted(s)
<1> DEFINE rest == SubSeq(s, 5, Len(s))
<1>1. /\ rest \in Seq(McuByte) /\ Len(rest) = Len(s) - 4 /\ Len(s) \in Nat
      /\ \A j \in 1 .. Len(rest) : rest[j] = s[j + 4] /\ j + 4 \in 1 .. Len(s)
  <2>0. Len(s) \in Nat /\ Len(s) >= 4 /\ \A j \in 1 .. Len(s) : s[j] \in McuByte
    OBVIOUS
  <2>1. \A j \in 5 .. Len(s) : j \in 1 .. Len(s)
    BY <2>0
  <2>4. \A j \in 5 .. Len(s) : s[j] \in McuByte
    BY <2>0, <2>1
  <2>5. 5 <= Len(s) \/ Len(s) = 4
    <3>1. \A n \in Nat : n >= 4 => 5 <= n \/ n = 4
      OBVIOUS
    <3> QED BY <2>0, <3>1
  <2>6. Len(s) \in Int /\ Len(s) - 5 + 1 = Len(s) - 4
    BY <2>0
  <2>2. /\ rest \in Seq(McuByte)
        /\ Len(rest) = IF 5 <= Len(s) THEN Len(s) - 5 + 1 ELSE 0
        /\ \A j \in 1 .. Len(s) - 5 + 1 : rest[j] = s[5 + j - 1]
    BY <2>4, <2>6, 5 \in Int, SubSeqProperties
  <2>3. \A j \in 1 .. Len(s) - 4 : 5 + j - 1 = j + 4 /\ j + 4 \in 1 .. Len(s)
    BY <2>0
  <2> QED BY <2>0, <2>2, <2>3, <2>5, <2>6
<1>2. SubSeq(s, 1, 4)[1] = s[1] /\ 1 \in 1 .. Len(s)
  OBVIOUS
<1> HIDE DEF rest
<1>3. Greeted(rest) => Greeted(s)
  BY <1>1 DEF Greeted
<1>4. NoFGreeted(s) => NoFGreeted(rest)
  BY <1>1 DEF NoFGreeted
<1>5. ASSUME NoFGreeted(s), SubSeq(s, 1, 4) = OK
      PROVE  NoF(rest) /\ Greeted(s)
  <2>1. OK[1] = "@"
    BY DEF OK
  <2>2. s[1] = "@"
    BY <1>2, <1>5, <2>1
  <2>3. ASSUME NEW j \in 1 .. Len(rest)
        PROVE  rest[j] # "F"
    <3>1. j + 4 \in 1 .. Len(s) /\ rest[j] = s[j + 4] /\ 1 < j + 4
      BY <1>1
    <3> QED BY <1>2, <1>5, <2>2, <3>1 DEF NoFGreeted
  <2> QED BY <1>2, <2>2, <2>3 DEF NoF, Greeted
<1> QED BY <1>1, <1>3, <1>4, <1>5 DEF rest

-----------------------------------------------------------------------------
(* What fw_receive() does with the messages of a session.                  *)

\* An image has a block at least and ends below the bootloader.
LEMMA ImageSizes ==
  ASSUME NEW m \in Images
  PROVE  /\ Blks(m) \in Nat /\ Blks(m) >= 1 /\ Blks(m) <= Last + 1
         /\ Last \in Nat /\ ERASE_BLK_CNT = Last + 1
BY ImageAssumption, BlockCountAssumption DEF Last

\* The operation of a message tells its number.
LEMMA MessageNumber ==
  ASSUME NEW m \in Images, NEW k \in 0 .. Blks(m) + 2
  PROVE  /\ SessionMsg(m, k) \notin {None, BTL, Damaged}
         /\ SessionMsg(m, k).op = "D" <=> k < Blks(m)
         /\ SessionMsg(m, k).op = "M" <=> k = Blks(m)
         /\ SessionMsg(m, k).op = "N" <=> k = Blks(m) + 1
         /\ SessionMsg(m, k) = STOP <=> k = Blks(m) + 2
<1>1. Blks(m) \in Nat /\ k \in Nat /\ k <= Blks(m) + 2
  BY ImageSizes
<1>2. SessionMsg(m, k).op =
        IF k < Blks(m) THEN "D" ELSE IF k = Blks(m) THEN "M"
        ELSE IF k = Blks(m) + 1 THEN "N" ELSE "X"
  BY <1>1 DEF SessionMsg, DataMsg, SizeMsg, SignatMsg, STOP
<1>3. BTL.op = "B" /\ Damaged.op = "?" /\ STOP.op = "X"
  BY DEF BTL, Damaged, STOP
<1>4. SessionMsg(m, k) # None
  BY MessageType, MessageAssumption
<1>5. k = Blks(m) + 2 => SessionMsg(m, k) = STOP
  BY <1>1 DEF SessionMsg
<1> QED BY <1>1, <1>2, <1>3, <1>4, <1>5

\* What programming one block of a record does to the memory.
LEMMA ProgramEffect ==
  ASSUME NEW f \in [Blocks -> Block], NEW b \in Blocks, NEW c \in BodyCell, NEW g,
         g = WriteCells(f, FirstCell(b), LastCell(b), c)
  PROVE  /\ g \in [Blocks -> Block]
         /\ \A a \in Blocks \ {b} : g[a] = f[a]
         /\ b = 0 => /\ g[0].head = f[0].head
                     /\ g[0].body = Programmed(f[0].body, c)
         /\ b # 0 => g[b] = [head |-> Programmed(f[b].head, c),
                             body |-> Programmed(f[b].body, c)]
<1>1. g \in [Blocks -> Block]
  BY WriteCellsType
<1>2. ASSUME NEW a \in Blocks
      PROVE  g[a] = [head |-> IF a = b /\ b # 0 THEN Programmed(f[a].head, c)
                              ELSE f[a].head,
                     body |-> IF a = b THEN Programmed(f[a].body, c)
                              ELSE f[a].body]
  <2>1. 2 * a \in FirstCell(b) .. LastCell(b) <=> a = b /\ b # 0
    BY BlockCountAssumption DEF Blocks, FirstCell, LastCell
  <2>2. 2 * a + 1 \in FirstCell(b) .. LastCell(b) <=> a = b
    BY BlockCountAssumption DEF Blocks, FirstCell, LastCell
  <2> QED BY <2>1, <2>2 DEF WriteCells
<1>3. \A a \in Blocks : f[a] = [head |-> f[a].head, body |-> f[a].body]
  BY DEF Block
<1> QED BY <1>1, <1>2, <1>3, FirstBlocks

\* What programming a cell of the metadata does to the memory.
LEMMA MetadataEffect ==
  ASSUME NEW f \in [Blocks -> Block], NEW c \in BodyCell
  PROVE  LET h == WriteCells(f, 2 * Last, 2 * Last, c)
             g == WriteCells(f, 2 * Last + 1, 2 * Last + 1, c) IN
           /\ \A a \in Blocks \ {Last} : h[a] = f[a] /\ g[a] = f[a]
           /\ h[Last] = [head |-> Programmed(f[Last].head, c), body |-> f[Last].body]
           /\ g[Last] = [head |-> f[Last].head, body |-> Programmed(f[Last].body, c)]
<1>1. ASSUME NEW a \in Blocks
      PROVE  /\ 2 * a \in 2 * Last .. 2 * Last <=> a = Last
             /\ ~(2 * a + 1 \in 2 * Last .. 2 * Last)
             /\ ~(2 * a \in 2 * Last + 1 .. 2 * Last + 1)
             /\ 2 * a + 1 \in 2 * Last + 1 .. 2 * Last + 1 <=> a = Last
  BY BlockCountAssumption DEF Blocks, Last
<1>2. \A a \in Blocks : f[a] = [head |-> f[a].head, body |-> f[a].body]
  BY DEF Block
<1> QED BY <1>1, <1>2, LastBlock DEF WriteCells

\* A record lands in a block that is still blank.
LEMMA DataReceived ==
  ASSUME NEW f \in [Blocks -> Block], NEW g, NEW m \in Images,
         NEW k \in 0 .. Blks(m) + 2,
         k < Blks(m), k < Last, Received(f, m, k),
         g = WriteCells(f, FirstCell(k), LastCell(k), CodeCell(m, k))
  PROVE  Received(g, m, k + 1)
<1> DEFINE c == CodeCell(m, k)
<1>1. k \in Blocks /\ k \in Nat /\ c \in BodyCell /\ k # Last
  BY ImageAssumption, ImageSizes, UserCellIsBody DEF Blocks
<1>2. /\ \A a \in Blocks \ {k} : g[a] = f[a]
      /\ k = 0 => g[0].body = Programmed(f[0].body, c)
      /\ k # 0 => g[k] = [head |-> Programmed(f[k].head, c),
                          body |-> Programmed(f[k].body, c)]
  BY <1>1, ProgramEffect
<1>3. \A a \in 0 .. Last : a \in Blocks
  BY ImageSizes DEF Blocks
<1>4. /\ k + 1 > 0 /\ (k + 1 > Last <=> FALSE) /\ ~(k + 1 > Blks(m) + 1)
      /\ ~(k + 1 > Blks(m)) /\ ~(k > Blks(m) + 1) /\ ~(k > Blks(m))
      /\ Last \in Blocks \ {k} /\ 0 \in Blocks
  BY <1>1, ImageSizes, LastBlock, FirstBlocks
<1>5. g[0].body = CodeCell(m, 0)
  <2>1. CASE k = 0
    <3>1. f[0].body = ERASED
      BY <2>1 DEF Received
    <3> QED BY <1>2, <2>1, <3>1, ProgrammedType
  <2>2. CASE k # 0
    <3>1. k > 0 /\ g[0] = f[0]
      BY <1>1, <1>2, <1>4, <2>2
    <3> QED BY <3>1 DEF Received
  <2> QED BY <2>1, <2>2
<1>6. ASSUME NEW b \in 1 .. Last - 1
      PROVE  g[b] = IF b < k + 1 /\ b < Blks(m)
                      THEN [head |-> CodeCell(m, b), body |-> CodeCell(m, b)]
                      ELSE ErasedBlock
  <2>1. b \in Blocks /\ b \in Nat /\ b # 0
    BY <1>3, ImageSizes
  <2>2. CASE b = k
    <3>0. f[b] = IF b < k /\ b < Blks(m)
                   THEN [head |-> CodeCell(m, b), body |-> CodeCell(m, b)]
                   ELSE ErasedBlock
      BY DEF Received
    <3>1. f[b] = ErasedBlock
      BY <2>1, <2>2, <3>0
    <3>2. g[b] = [head |-> CodeCell(m, b), body |-> CodeCell(m, b)]
      BY <1>2, <2>1, <2>2, <3>1, ProgrammedType DEF ErasedBlock
    <3> QED BY <1>1, <2>2, <3>2
  <2>3. CASE b # k
    <3>1. g[b] = f[b] /\ (b < k + 1 <=> b < k)
      BY <1>1, <1>2, <2>1, <2>3
    <3>2. f[b] = IF b < k /\ b < Blks(m)
                   THEN [head |-> CodeCell(m, b), body |-> CodeCell(m, b)]
                   ELSE ErasedBlock
      BY DEF Received
    <3> QED BY <3>1, <3>2
  <2> QED BY <2>2, <2>3
<1>7. g[Last] = [head |-> ERASED, body |-> ERASED]
  BY <1>2, <1>4 DEF Received
<1> QED BY <1>4, <1>5, <1>6, <1>7 DEF Received

\* The size and the signature land in the cells of the metadata.
LEMMA MetadataReceived ==
  ASSUME NEW f \in [Blocks -> Block], NEW g, NEW m \in Images,
         NEW k \in {Blks(m), Blks(m) + 1}, Received(f, m, k),
         g = IF k = Blks(m)
               THEN WriteCells(f, 2 * Last + 1, 2 * Last + 1, SizeCell(Blks(m)))
               ELSE WriteCells(f, 2 * Last, 2 * Last, SigCell(m))
  PROVE  Received(g, m, k + 1)
<1>1. SizeCell(Blks(m)) \in BodyCell /\ SigCell(m) \in BodyCell
  BY ImageAssumption, UserCellIsBody
<1>2. Last \in Blocks /\ Last # 0 /\ 0 \in Blocks
  BY LastBlock, FirstBlocks
<1>3. /\ \A a \in Blocks \ {Last} : g[a] = f[a]
      /\ k = Blks(m) =>
           g[Last] = [head |-> f[Last].head,
                      body |-> Programmed(f[Last].body, SizeCell(Blks(m)))]
      /\ k # Blks(m) =>
           g[Last] = [head |-> Programmed(f[Last].head, SigCell(m)),
                      body |-> f[Last].body]
  BY <1>1, MetadataEffect
<1>4. /\ \A a \in 1 .. Last - 1 : a \in Blocks \ {Last}
      /\ Blks(m) \in Nat /\ k \in Nat /\ k >= Blks(m) /\ Blks(m) <= Last + 1
      /\ Last \in Nat /\ Blks(m) > 0
  BY ImageSizes DEF Blocks
<1>5. Blks(m) <= Last
  BY <1>4 DEF Received
<1>6. g[Last] = [head |-> IF k + 1 > Blks(m) + 1 THEN SigCell(m) ELSE ERASED,
                 body |-> IF k + 1 > Blks(m) THEN SizeCell(Blks(m)) ELSE ERASED]
  <2>1. CASE k = Blks(m)
    <3>1. f[Last] = [head |-> ERASED, body |-> ERASED]
      BY <1>4, <2>1 DEF Received
    <3>2. g[Last] = [head |-> ERASED, body |-> SizeCell(Blks(m))]
      BY <1>3, <2>1, <3>1, ProgrammedType
    <3> QED BY <1>4, <2>1, <3>2
  <2>2. CASE k = Blks(m) + 1
    <3>1. f[Last] = [head |-> ERASED, body |-> SizeCell(Blks(m))]
      BY <1>4, <2>2 DEF Received
    <3>2. k # Blks(m)
      BY <1>4, <2>2
    <3>4. g[Last] = [head |-> SigCell(m), body |-> SizeCell(Blks(m))]
      BY <1>3, <3>1, <3>2, ProgrammedType
    <3> QED BY <1>4, <2>2, <3>4
  <2> QED BY <2>1, <2>2
<1>7. g[0].body = CodeCell(m, 0) /\ k + 1 > 0
  BY <1>2, <1>3, <1>4 DEF Received
<1>8. ASSUME NEW b \in 1 .. Last - 1
      PROVE  g[b] = IF b < k + 1 /\ b < Blks(m)
                      THEN [head |-> CodeCell(m, b), body |-> CodeCell(m, b)]
                      ELSE ErasedBlock
  <2>1. g[b] = f[b] /\ (b < k + 1 /\ b < Blks(m) <=> b < k /\ b < Blks(m))
    BY <1>3, <1>4
  <2> QED BY <2>1 DEF Received
<1> QED BY <1>5, <1>6, <1>7, <1>8 DEF Received

\* What fw_receive() does with the message it is waiting for.
LEMMA HandledStep ==
  ASSUME TypeOK, HandleMessage, NEW m \in Images, NEW k \in 0 .. Blks(m) + 2,
         wire = SessionMsg(m, k), Received(flash, m, k)
  PROVE  /\ at' = "answer" /\ wire' = None
         /\ UNCHANGED <<pc, save_goto_btld, toHost, hostVars, faults>>
         /\ \/ /\ status' = "STATUS_NO_ERR"
               /\ k <= Blks(m) + 1 /\ Received(flash', m, k + 1)
            \/ /\ status' = "STATUS_ERR_DENIED_ADDR"
               /\ k < Blks(m) /\ UNCHANGED flash
            \/ /\ status' = "STATUS_FLASHING_DONE"
               /\ k = Blks(m) + 2 /\ UNCHANGED flash
<1>1. /\ wire \notin {None, BTL, Damaged}
      /\ wire.op = "D" <=> k < Blks(m)
      /\ wire.op = "M" <=> k = Blks(m)
      /\ wire.op = "N" <=> k = Blks(m) + 1
      /\ wire = STOP <=> k = Blks(m) + 2
  BY MessageNumber
<1>2. Blks(m) \in Nat /\ k \in Nat /\ Last \in Nat /\ flash \in [Blocks -> Block]
  BY ImageSizes DEF TypeOK, EraseTypeOK
<1>3. CASE HandleData
  <2>1. k < Blks(m)
    BY <1>1, <1>3 DEF HandleData
  <2>2. wire.blk = k /\ wire.cell = CodeCell(m, k)
    BY <2>1 DEF SessionMsg, DataMsg
  <2>3. CASE k >= Last
    BY <1>3, <2>1, <2>2, <2>3 DEF HandleData, Handled
  <2>4. CASE ~(k >= Last)
    <3>1. /\ flash' = WriteCells(flash, FirstCell(k), LastCell(k), CodeCell(m, k))
          /\ Handled("STATUS_NO_ERR")
      BY <1>3, <2>2, <2>4 DEF HandleData
    <3>2. Received(flash', m, k + 1)
      BY <1>2, <2>1, <2>4, <3>1, DataReceived
    <3> QED BY <1>2, <2>1, <3>1, <3>2 DEF Handled
  <2> QED BY <2>3, <2>4
<1>4. CASE HandleSize
  <2>1. k = Blks(m) /\ wire.cell = SizeCell(Blks(m))
    BY <1>1, <1>2, <1>4 DEF HandleSize, SessionMsg, SizeMsg
  <2>2. Received(flash', m, k + 1)
    BY <1>2, <1>4, <2>1, LastBlock, MetadataReceived DEF HandleSize
  <2> QED BY <1>2, <1>4, <2>1, <2>2 DEF HandleSize, Handled
<1>5. CASE HandleSignat
  <2>1. k = Blks(m) + 1 /\ wire.cell = SigCell(m) /\ k # Blks(m)
    BY <1>1, <1>2, <1>5 DEF HandleSignat, SessionMsg, SignatMsg
  <2>2. Received(flash', m, k + 1)
    BY <1>2, <1>5, <2>1, LastBlock, MetadataReceived DEF HandleSignat
  <2> QED BY <1>2, <1>5, <2>1, <2>2 DEF HandleSignat, Handled
<1>6. CASE HandleStop
  BY <1>1, <1>6 DEF HandleStop, Handled
<1> QED
  BY <1>1, <1>3, <1>4, <1>5, <1>6
  DEF HandleMessage, HandleUnknown, HandleSpliced, HandleDamaged

-----------------------------------------------------------------------------
(* The session, step by step.                                              *)

\* A status that fw_receive() answers with F belongs to a message that was on
\* the line before.
LEMMA NotAnswering ==
  ASSUME InSession, at = "answer", NEW k, Progress(k)
  PROVE  status = "STATUS_ERR_INVALID_PAYLOAD"
BY DEF InSession, AtReceive, Progress, Fresh, Stored, Dead

\* What Progress says where fw_receive() waits for a message.
LEMMA ProgressListening ==
  ASSUME TypeOK, InSession, at = "listen", Progress(idx)
  PROVE  Received(flash, img, idx)
BY DEF TypeOK, InSession, AtReceive, Progress, Fresh, NothingReceived, Stored, Dead

\* erase_flash() runs only before the first message.
LEMMA NotErasing ==
  ASSUME InSession, pc \in ErasePc \/ at = "ready", NEW k, Progress(k)
  PROVE  k = 0
BY DEF InSession, AtReceive, Progress, Stored, Dead, ErasePc

\* The MCU resets, or main() goes on to the verification.
LEMMA BootStep ==
  ASSUME TypeOK, InSession,
         pc' \in {"boot", "user"}, at' \in {"expect", "verify"},
         UNCHANGED <<flash, hostVars>>, wire' \in {wire, None},
         \/ toHost' = toHost
         \/ \E b \in McuByte :
              /\ toHost' = toHost \o <<b>>
              /\ b = "F" =>
                   at = "answer" /\ status = "STATUS_ERR_DENIED_ADDR"
  PROVE  InSession'
<1> DEFINE denied == at = "answer" /\ status = "STATUS_ERR_DENIED_ADDR"
<1>1. toHost \in Seq(McuByte) /\ UNCHANGED <<hpc, img, idx>>
  BY DEF TypeOK, hostVars
<1>2. /\ NoF(toHost) /\ ~denied => NoF(toHost')
      /\ NoF(toHost) => NoF(toHost') \/ OneF(toHost')
      /\ OneF(toHost) /\ ~denied => OneF(toHost')
      /\ NoFGreeted(toHost) /\ (Greeted(toHost) => ~denied) => NoFGreeted(toHost')
  <2>1. CASE toHost' = toHost
    BY <2>1
  <2>2. ASSUME NEW b \in McuByte, toHost' = toHost \o <<b>>, b = "F" => denied
        PROVE  /\ NoF(toHost) /\ ~denied => NoF(toHost')
               /\ NoF(toHost) => NoF(toHost') \/ OneF(toHost')
               /\ OneF(toHost) /\ ~denied => OneF(toHost')
               /\ NoFGreeted(toHost) /\ (Greeted(toHost) => ~denied)
                    => NoFGreeted(toHost')
    BY <1>1, <2>2, Appended, ByteSent
  <2> QED BY <2>1, <2>2
<1>3. \A k : Progress(k) => Progress(k)' /\ ~denied
  <2> SUFFICES ASSUME NEW k, Progress(k) PROVE Progress(k)' /\ ~denied
    OBVIOUS
  <2>1. ~denied
    BY NotAnswering
  <2> QED BY <1>1, <2>1 DEF Progress, Fresh, Stored, Dead, ErasePc
<1> HIDE DEF denied
<1>4. AtReceive' /\ NextOnWire' /\ (wire # Damaged)' /\ (at # "ready")'
  BY ImageAssumption, MessageAssumption
  DEF AtReceive, NextOnWire, InSession, Message
<1>5. Fresh'
  BY DEF Fresh
<1>6. Greeting'
  <2>1. Greeting /\ (Greeted(toHost) /\ hpc \in {"hello", "read4"} => ~denied)
    BY DEF InSession, Greeting, Fresh, denied
  <2> QED BY <1>1, <1>2, <1>5, <2>1 DEF Greeting
<1>7. Sending'
  BY <1>1, <1>2, <1>3 DEF InSession, Sending
<1>8. Waiting'
  <2> SUFFICES ASSUME hpc' = "wait" PROVE Waiting'
    BY DEF Waiting
  <2>1. /\ hpc = "wait" /\ wire \in {None, SessionMsg(img, idx)}
        /\ wire' \in {None, SessionMsg(img, idx)'}
    BY <1>1 DEF InSession, Waiting
  <2>2. CASE MessageSent
    <3>1. NoF(toHost') /\ Progress(idx)'
      BY <1>1, <1>2, <1>3, <2>2 DEF MessageSent
    <3>2. wire' # None => MessageSent'
      BY <3>1 DEF MessageSent
    <3>3. wire' = None => MessageLost'
      BY <3>1 DEF MessageLost
    <3> QED BY <2>1, <3>2, <3>3 DEF Waiting
  <2>3. CASE MessageProgrammed
    <3>1. NoF(toHost') /\ wire' = None
      BY <1>2, <2>3 DEF MessageProgrammed, denied
    <3> QED BY <2>1, <3>1 DEF Waiting, MessageLost
  <2>4. CASE MessageDenied
    <3>1. wire' = None /\ (NoF(toHost') \/ OneF(toHost')) /\ idx < Blks(img)
      BY <1>2, <2>4 DEF MessageDenied
    <3>2. NoF(toHost') => MessageLost'
      BY <3>1 DEF MessageLost
    <3>3. OneF(toHost') => MessageAnswered'
      BY <1>1, <3>1 DEF MessageAnswered, Dead
    <3> QED BY <2>1, <3>1, <3>2, <3>3 DEF Waiting
  <2>5. CASE MessageAnswered
    <3>1. ~denied
      BY <2>5 DEF MessageAnswered, denied, Stored, Dead, InSession, AtReceive
    <3>2. MessageAnswered'
      BY <1>1, <1>2, <2>5, <3>1 DEF MessageAnswered, Stored, Dead, ErasePc
    <3> QED BY <2>1, <3>2 DEF Waiting
  <2>6. CASE MessageLost
    <3>1. ~denied
      BY <2>6 DEF MessageLost, denied
    <3>2. MessageLost'
      BY <1>2, <2>6, <3>1 DEF MessageLost
    <3> QED BY <2>1, <3>2 DEF Waiting
  <2> QED BY <2>1, <2>2, <2>3, <2>4, <2>5, <2>6 DEF InSession, Waiting
<1> QED BY <1>4, <1>6, <1>7, <1>8 DEF InSession

\* The steps around the boot decision keep what is known of a session.
LEMMA BootSteps ==
  ASSUME TypeOK, InSession,
         ExpectTimeout \/ BootUser \/ RejectUser \/ AnswerAndReset \/ Cut
  PROVE  InSession'
<1>1. AfterReset(flash) \subseteq {"boot", "user"}
  BY DEF AfterReset
<1>2. \A b \in McuByte : Send(<<b>>) => toHost' = toHost \/ toHost' = toHost \o <<b>>
  BY DEF Send
<1>3. CASE ExpectTimeout
  BY <1>3, BootStep DEF ExpectTimeout, eraseVars
<1>4. CASE BootUser
  <2>1. "S" \in McuByte
    BY DEF McuByte
  <2> QED BY <1>2, <1>4, <2>1, BootStep DEF BootUser, StartUser
<1>5. CASE RejectUser
  <2>1. "K" \in McuByte
    BY DEF McuByte
  <2> QED BY <1>1, <1>2, <1>5, <2>1, BootStep DEF RejectUser, Restart
<1>6. CASE AnswerAndReset
  <2>1. PICK b \in McuErrs(status) : Send(<<b>>)
    BY <1>6 DEF AnswerAndReset
  <2>2. b \in McuByte
    BY <1>6, <2>1, SentBytes DEF AnswerAndReset, TypeOK
  <2>3. b = "F" => status = "STATUS_ERR_DENIED_ADDR"
    BY <1>6, <2>1 DEF AnswerAndReset, TypeOK, Status, McuErrs
  <2>4. \/ toHost' = toHost
        \/ \E c \in McuByte :
             /\ toHost' = toHost \o <<c>>
             /\ c = "F" => at = "answer" /\ status = "STATUS_ERR_DENIED_ADDR"
    BY <1>2, <1>6, <2>1, <2>2, <2>3 DEF AnswerAndReset
  <2> QED BY <1>1, <1>6, <2>4, BootStep DEF AnswerAndReset, Restart
<1>7. CASE Cut
  BY <1>1, <1>7, BootStep DEF Cut, Restart
<1> QED BY <1>3, <1>4, <1>5, <1>6, <1>7

\* erase_flash() runs, or has just been called.
LEMMA EraseSteps ==
  ASSUME TypeOK, BlankSoFar, InSession, Accept \/ Erase
  PROVE  InSession'
<1>1. UNCHANGED <<status, toHost, hpc, img, idx>> /\ wire' = None
  BY DEF Accept, Erase, hostVars
<1>2. CASE Accept \/ (Erase /\ pc' # "recv")
  <2>1. /\ pc' \in ErasePc /\ UNCHANGED at
        /\ at \notin {"ready", "listen", "answer"}
    BY <1>2 DEF Accept, Call, Erase, EraseStep, ReadVector, EraseSpare,
       WriteBackup, EraseCurrent, RestoreVector, EraseReturn, ErasePc,
       InSession, AtReceive
  <2>2. /\ hpc = "send" => idx = 0
        /\ hpc = "wait" => MessageLost
    <3>1. CASE Accept
      <4>1. wire = BTL /\ wire # None
        BY <3>1, MessageAssumption DEF Accept, Message
      <4>2. hpc # "wait"
        BY <4>1, MessageNumber DEF InSession, Waiting, TypeOK
      <4>3. idx \in Nat
        BY ImageSizes DEF TypeOK
      <4> QED BY <4>1, <4>2, <4>3 DEF InSession, Sending
    <3>2. CASE Erase
      <4>1. pc \in ErasePc /\ wire = None
        BY <3>2 DEF Erase, EraseStep, ReadVector, EraseSpare, WriteBackup,
           EraseCurrent, RestoreVector, EraseReturn, ErasePc
      <4>2. hpc = "send" => idx = 0
        BY <4>1, NotErasing DEF InSession, Sending
      <4>3. hpc = "wait" => MessageLost
        BY <2>1, <4>1 DEF InSession, Waiting, MessageSent, MessageProgrammed,
           MessageDenied, MessageAnswered, Stored, Dead, ErasePc
      <4> QED BY <4>2, <4>3
    <3> QED BY <1>2, <3>1, <3>2
  <2>3. Fresh'
    BY <2>1 DEF Fresh
  <2>4. AtReceive' /\ NextOnWire' /\ (wire # Damaged)' /\ (at # "ready")'
    BY <1>1, <2>1, MessageAssumption
    DEF AtReceive, NextOnWire, ErasePc, OnWire, Message
  <2>5. Greeting' /\ Sending'
    BY <1>1, <2>1, <2>2, <2>3 DEF InSession, Greeting, Sending, Progress
  <2>6. Waiting'
    BY <1>1, <2>1, <2>2 DEF Waiting, MessageLost
  <2> QED BY <2>4, <2>5, <2>6 DEF InSession
<1>3. CASE Erase /\ pc' = "recv"
  <2>1. /\ pc = "erase" /\ curr_erase_blk = ERASE_BLK_CNT /\ wire = None
        /\ at' = "ready" /\ UNCHANGED flash
    BY <1>3 DEF Erase, EraseStep, ReadVector, EraseSpare, WriteBackup,
       EraseCurrent, RestoreVector, EraseReturn
  <2>2. /\ flash[0].body = ERASED
        /\ \A b \in 1 .. Last : flash[b] = ErasedBlock
    <3>1. curr_erase_blk > 0 /\ curr_erase_blk - 1 = Last
      BY <2>1, BlockCountAssumption DEF Last
    <3> QED BY <2>1, <3>1 DEF BlankSoFar
  <2>3. ASSUME NEW m \in Images
        PROVE  Received(flash, m, 0)
    <3>1. /\ Blks(m) \in Nat /\ Last \in Nat /\ Last \in 1 .. Last
          /\ \A b \in 1 .. Last - 1 : b \in 1 .. Last /\ ~(b < 0)
      BY ImageSizes, LastBlock
    <3>2. ~(0 > Last) /\ ~(0 > Blks(m) + 1) /\ ~(0 > Blks(m))
      BY <3>1
    <3> QED BY <2>2, <3>1, <3>2 DEF Received, ErasedBlock
  <2>4. NothingReceived' /\ Fresh'
    BY <2>1, <2>3 DEF NothingReceived, Fresh
  <2>5. AtReceive' /\ NextOnWire' /\ (wire # Damaged)'
    BY <1>1, <1>3, <2>1, MessageAssumption DEF AtReceive, NextOnWire, Message
  <2>6. hpc = "send" => idx = 0
    BY <2>1, NotErasing DEF InSession, Sending, ErasePc
  <2>7. hpc = "wait" => MessageLost
    BY <2>1 DEF InSession, AtReceive, Waiting, MessageSent, MessageProgrammed,
       MessageDenied, MessageAnswered, Stored, Dead, ErasePc
  <2>8. Greeting' /\ Sending'
    BY <1>1, <2>1, <2>4, <2>6 DEF InSession, Greeting, Sending, Progress
  <2>9. Waiting'
    BY <1>1, <2>1, <2>7 DEF Waiting, MessageLost
  <2> QED BY <2>4, <2>5, <2>8, <2>9 DEF InSession
<1> QED BY <1>2, <1>3

\* The answer to the handshake goes to whoever has the port open.
LEMMA ReadyStep ==
  ASSUME TypeOK, InSession, SendReady
  PROVE  InSession'
<1>1. /\ UNCHANGED <<flash, pc, status, hpc, img, idx>>
      /\ pc = "recv" /\ at = "ready" /\ wire = None /\ wire' = None /\ at' = "listen"
      /\ toHost' \in {toHost, toHost \o OK}
  BY DEF SendReady, Send, eraseVars, hostVars
<1>2. Fresh'
  BY <1>1 DEF InSession, Fresh, NothingReceived
<1>3. /\ NoF(toHost) => NoF(toHost')
      /\ NoFGreeted(toHost) => NoFGreeted(toHost')
  BY <1>1, Appended, AnswerSent DEF TypeOK
<1>4. AtReceive' /\ NextOnWire' /\ (wire # Damaged)' /\ (at # "ready")'
  BY <1>1, MessageAssumption DEF AtReceive, NextOnWire, OnWire, Message
<1>5. Greeting'
  BY <1>1, <1>2, <1>3 DEF InSession, Greeting, OnWire
<1>6. Sending'
  <2>1. hpc = "send" => idx = 0
    BY <1>1, NotErasing DEF InSession, Sending
  <2> QED BY <1>1, <1>2, <1>3, <2>1 DEF InSession, Sending, Progress, OnWire
<1>7. Waiting'
  <2>1. hpc = "wait" => MessageLost
    BY <1>1 DEF InSession, Waiting, MessageSent, MessageProgrammed,
       MessageDenied, MessageAnswered, Stored, Dead
  <2> QED BY <1>1, <1>3, <2>1 DEF Waiting, MessageLost
<1> QED BY <1>4, <1>5, <1>6, <1>7 DEF InSession

\* fw_receive() takes a message.
LEMMA HandleSteps ==
  ASSUME TypeOK, WaitingFor, InSession, HalfHeard, HandleMessage
  PROVE  InSession'
<1>1. wire # Damaged /\ wire # None /\ ~HandleDamaged
  BY MessageAssumption DEF InSession, HalfHeard, BTL, Damaged, HandleMessage,
     HandleData, HandleSize,
     HandleSignat, HandleStop, HandleUnknown, HandleSpliced, HandleDamaged, Message
<1>2. /\ pc = "recv" /\ pc' = "recv" /\ at = "listen" /\ at' = "answer"
      /\ wire' = None /\ UNCHANGED <<toHost, hpc, img, idx>>
  BY <1>1 DEF HandleMessage, HandleData, HandleSize, HandleSignat, HandleStop,
     HandleUnknown, HandleSpliced, HandleDamaged, Handled, Listening, hostVars
<1>3. AtReceive' /\ NextOnWire' /\ (wire # Damaged)' /\ (at # "ready")'
  BY <1>2, MessageAssumption DEF AtReceive, NextOnWire, OnWire, Message
<1>4. CASE wire = BTL /\ half = "none"
  <2>1. UNCHANGED flash /\ status' = "STATUS_ERR_INVALID_PAYLOAD"
    BY <1>1, <1>4 DEF HandleMessage, HandleData, HandleSize, HandleSignat,
       HandleStop, HandleUnknown, HandleSpliced, HandleDamaged, Handled, BTL, STOP
  <2>2. Fresh => Fresh'
    BY <1>2, <2>1 DEF Fresh, NothingReceived
  <2>3. Greeting'
    BY <1>2, <2>2 DEF InSession, Greeting, OnWire
  <2>4. Sending'
    <3>0. idx \in Nat
      BY ImageSizes DEF TypeOK
    <3>1. hpc = "send" => idx = 0
      BY <1>1, <3>0 DEF InSession, Sending
    <3> QED BY <1>2, <2>2, <3>1 DEF InSession, Sending, Progress, OnWire
  <2>5. hpc # "wait"
    BY <1>1, <1>4, MessageNumber DEF InSession, Waiting, TypeOK
  <2> QED BY <1>2, <1>3, <2>3, <2>4, <2>5 DEF InSession, Waiting
<1>6. CASE wire = BTL /\ half # "none"
  <2>1. hpc \notin {"send", "wait"} /\ ~Greeted(toHost)
    BY <1>6 DEF HalfHeard
  <2> QED BY <1>2, <1>3, <2>1 DEF InSession, Greeting, Sending, Waiting
<1>5. CASE wire # BTL
  <2>1. OnWire
    BY <1>1, <1>5 DEF OnWire
  <2>2. hpc # "send" /\ (hpc \in {"hello", "read4"} => ~Greeted(toHost))
    BY <1>2, <2>1 DEF InSession, Sending, Greeting
  <2>3. Greeting' /\ Sending'
    BY <1>2, <2>2 DEF InSession, Greeting, Sending
  <2>4. ASSUME hpc = "wait"
        PROVE  MessageProgrammed' \/ MessageDenied'
    <3>1. wire = SessionMsg(img, idx) /\ MessageSent
      BY <1>1, <2>4 DEF InSession, Waiting, MessageProgrammed, MessageDenied,
         MessageAnswered, MessageLost
    <3>2. Received(flash, img, idx)
      BY <1>2, <3>1, ProgressListening DEF MessageSent
    <3>3. img \in Images /\ idx \in 0 .. Blks(img) + 2 /\ idx <= Blks(img) + 1
      BY <2>4 DEF TypeOK, WaitingFor
    <3>4. \/ status' = "STATUS_NO_ERR" /\ Received(flash', img, idx + 1)
          \/ status' = "STATUS_ERR_DENIED_ADDR" /\ idx < Blks(img)
      <4>1. idx # Blks(img) + 2
        BY <3>3, ImageSizes
      <4> QED BY <3>1, <3>2, <3>3, <4>1, HandledStep
    <3> QED BY <1>2, <3>1, <3>4 DEF MessageSent, MessageProgrammed, MessageDenied
  <2> QED BY <1>2, <1>3, <2>3, <2>4 DEF InSession, Waiting
<1> QED BY <1>4, <1>5, <1>6

\* fw_receive() answers F and waits for the next message.
LEMMA SuccessStep ==
  ASSUME TypeOK, InSession, AnswerSuccess
  PROVE  InSession'
<1>1. /\ UNCHANGED <<flash, pc, status, wire, hpc, img, idx>>
      /\ pc = "recv" /\ at = "answer" /\ status = "STATUS_NO_ERR" /\ at' = "listen"
      /\ toHost' = IF PortOpen THEN toHost \o <<"F">> ELSE toHost
  BY DEF AnswerSuccess, Send, eraseVars, hostVars
<1>2. toHost \in Seq(McuByte) /\ ~OnWire /\ ~OnWire'
  BY <1>1 DEF TypeOK, InSession, NextOnWire, OnWire
<1>3. AtReceive' /\ NextOnWire' /\ (wire # Damaged)' /\ (at # "ready")'
  BY <1>1, <1>2 DEF InSession, AtReceive, NextOnWire
<1>4. \A k : ~Progress(k)
  BY <1>1, NotAnswering
<1>5. Greeting'
  <2> SUFFICES ASSUME hpc \in {"hello", "read4"}
               PROVE  idx = 0 /\ NoFGreeted(toHost') /\ ~Greeted(toHost')
    BY <1>1 DEF Greeting
  <2>1. NoFGreeted(toHost) /\ ~Greeted(toHost) /\ idx = 0
    BY <1>1 DEF InSession, Greeting, Fresh
  <2>2. /\ <<"F">> \in Seq(McuByte) /\ NoFGreeted(<<"F">>)
        /\ ~Greeted(<<"F">>)
    <3>1. "F" \in McuByte
      BY DEF McuByte
    <3>2. ~Greeted(<<"F">>)
      BY DEF Greeted
    <3> QED BY <3>1, <3>2, ByteSent
  <2> QED BY <1>1, <1>2, <2>1, <2>2, Appended
<1>6. hpc # "send"
  BY <1>4 DEF InSession, Sending
<1>7. hpc = "wait" => MessageAnswered'
  <2> SUFFICES ASSUME hpc = "wait" PROVE MessageAnswered'
    OBVIOUS
  <2>1. MessageProgrammed
    BY <1>1, <1>4 DEF InSession, AtReceive, Waiting, MessageSent, MessageDenied,
       MessageAnswered, MessageLost, Stored, Dead
  <2>2. toHost' = toHost \o <<"F">>
    BY <1>1 DEF PortOpen
  <2>3. OneF(toHost')
    <3>1. "F" \in McuByte
      BY DEF McuByte
    <3>2. <<"F">> \in Seq(McuByte) /\ OneF(<<"F">>)
      BY <3>1, ByteSent
    <3> QED BY <1>2, <2>1, <2>2, <3>2, Appended DEF MessageProgrammed
  <2>4. Stored(idx + 1)'
    BY <1>1, <2>1 DEF MessageProgrammed, Stored, ErasePc
  <2> QED BY <1>1, <2>1, <2>3, <2>4 DEF MessageAnswered, MessageProgrammed
<1> QED BY <1>1, <1>3, <1>5, <1>6, <1>7 DEF InSession, Sending, Waiting

\* A message meets a receiver that is off or full.
LEMMA LossSteps ==
  ASSUME TypeOK, InSession, Miss \/ Overrun
  PROVE  InSession'
<1>1. /\ UNCHANGED <<flash, pc, at, status, toHost, hpc, img, idx>>
      /\ wire # None /\ wire' = None
  BY DEF Miss, Overrun, mcuVars, eraseVars, hostVars
<1>2. \A k : Progress(k) => Progress(k)'
  BY <1>1 DEF Progress, Fresh, NothingReceived, Stored, Dead
<1>3. AtReceive' /\ NextOnWire' /\ (wire # Damaged)'
      /\ (at = "ready" => NothingReceived)'
  BY <1>1, MessageAssumption
  DEF InSession, AtReceive, NextOnWire, OnWire, NothingReceived, Message
<1>4. Fresh => Fresh'
  BY <1>1 DEF Fresh, NothingReceived
<1>5. Greeting' /\ Sending'
  BY <1>1, <1>2, <1>4 DEF InSession, Greeting, Sending, OnWire
<1>6. ASSUME hpc = "wait" PROVE MessageLost'
  <2>1. MessageSent
    BY <1>1, <1>6 DEF InSession, Waiting, MessageProgrammed, MessageDenied,
       MessageAnswered, MessageLost
  <2>2. at = "answer" => status = "STATUS_ERR_INVALID_PAYLOAD"
    BY <2>1, NotAnswering DEF MessageSent
  <2> QED BY <1>1, <2>1, <2>2 DEF MessageSent, MessageLost
<1> QED BY <1>1, <1>3, <1>5, <1>6 DEF InSession, Waiting

\* The tool is started or killed, or says hello.
LEMMA ToolSteps ==
  ASSUME TypeOK, InSession,
         StartTool \/ KillTool \/ SayHello \/ ReadHello \/ ReadTimeout
  PROVE  InSession'
<1>1. /\ UNCHANGED <<flash, pc, at, status>>
      /\ toHost \in Seq(McuByte)
  BY DEF TypeOK, StartTool, KillTool, SayHello, ReadHello, ReadTimeout, mcuVars,
     eraseVars
<1>2. /\ wire' \in {wire, None} \/ (wire = None /\ wire' = BTL)
      /\ wire' # Damaged
  BY MessageAssumption DEF StartTool, KillTool, SayHello, ReadHello, ReadTimeout,
     InSession, Message, BTL, Damaged
<1>3. OnWire' => wire' = wire /\ OnWire
  BY <1>2 DEF OnWire
<1>4. AtReceive' /\ NextOnWire' /\ (at = "ready" => NothingReceived)'
  BY <1>1, <1>3 DEF InSession, AtReceive, NextOnWire, NothingReceived
<1>5. Fresh => Fresh'
  BY <1>1 DEF Fresh, NothingReceived
<1>6. NoFGreeted(<< >>) /\ ~Greeted(<< >>)
  BY DEF NoFGreeted, Greeted
<1>7. Greeting'
  <2>1. CASE KillTool
    BY <2>1 DEF KillTool, Greeting
  <2>2. CASE StartTool \/ ReadTimeout
    BY <1>6, <2>2 DEF StartTool, ReadTimeout, InSession, Greeting
  <2>3. CASE SayHello
    BY <1>1, <1>3, <1>5, <2>3 DEF SayHello, InSession, Greeting
  <2>4. CASE ReadHello
    <3> DEFINE rest == SubSeq(toHost, 5, Len(toHost))
    <3>1. /\ hpc = "read4" /\ toHost' = rest /\ wire' = wire
          /\ UNCHANGED idx /\ Len(toHost) >= 4
      BY <2>4 DEF ReadHello
    <3>2. /\ Greeted(rest) => Greeted(toHost)
          /\ NoFGreeted(toHost) => NoFGreeted(rest)
      BY <1>1, <3>1, FourRead
    <3> HIDE DEF rest
    <3> QED BY <1>1, <1>3, <1>5, <3>1, <3>2 DEF InSession, Greeting
  <2> QED BY <2>1, <2>2, <2>3, <2>4
<1>8. Sending'
  <2>1. CASE ReadHello /\ SubSeq(toHost, 1, 4) = OK
    <3> DEFINE rest == SubSeq(toHost, 5, Len(toHost))
    <3>1. /\ hpc = "read4" /\ toHost' = rest /\ wire' = wire
          /\ UNCHANGED idx /\ Len(toHost) >= 4
      BY <2>1 DEF ReadHello
    <3>2. NoFGreeted(toHost) /\ idx = 0
      BY <3>1 DEF InSession, Greeting
    <3>3. NoF(rest) /\ Greeted(toHost)
      BY <1>1, <2>1, <3>1, <3>2, FourRead
    <3>4. Fresh /\ (at \in {"listen", "answer"} => ~OnWire)
      BY <3>1, <3>3 DEF InSession, Greeting
    <3> HIDE DEF rest
    <3> QED BY <1>1, <1>3, <1>5, <3>1, <3>2, <3>3, <3>4 DEF Sending, Progress
  <2>2. CASE ~(ReadHello /\ SubSeq(toHost, 1, 4) = OK)
    <3>1. hpc' # "send"
      BY <2>2 DEF StartTool, KillTool, SayHello, ReadHello, ReadTimeout
    <3> QED BY <3>1 DEF Sending
  <2> QED BY <2>1, <2>2
<1>9. hpc' # "wait"
  BY DEF StartTool, KillTool, SayHello, ReadHello, ReadTimeout
<1> QED BY <1>2, <1>4, <1>7, <1>8, <1>9 DEF InSession, Waiting

\* The tool sends a message.
LEMMA SendStep ==
  ASSUME TypeOK, InSession, SendMsg
  PROVE  InSession'
<1>1. /\ UNCHANGED <<flash, pc, at, status, img, idx>>
      /\ hpc = "send" /\ hpc' \in {"done", "wait"} /\ wire' = SessionMsg(img, idx)
      /\ hpc' = "wait" => toHost' = toHost
  BY DEF SendMsg, mcuVars, eraseVars
<1>2. img \in Images /\ idx \in 0 .. Blks(img) + 2
  BY DEF TypeOK
<1>3. wire' \notin {None, BTL, Damaged}
  BY <1>1, <1>2, MessageNumber
<1>4. NoF(toHost) /\ Progress(idx)
  BY <1>1 DEF InSession, Sending
<1>5. AtReceive' /\ (at = "ready" => NothingReceived)'
  BY <1>1 DEF InSession, AtReceive, NothingReceived
<1>6. NextOnWire'
  <2>1. at = "listen" => Received(flash, img, idx)
    BY <1>4, ProgressListening
  <2>2. at = "answer" => status # "STATUS_NO_ERR"
    BY <1>4, NotAnswering
  <2> QED BY <1>1, <1>2, <2>1, <2>2 DEF NextOnWire
<1>7. Progress(idx)'
  BY <1>1, <1>4 DEF Progress, Fresh, NothingReceived, Stored, Dead
<1>8. Waiting'
  BY <1>1, <1>3, <1>4, <1>7 DEF Waiting, MessageSent
<1> QED
  BY <1>1, <1>3, <1>5, <1>6, <1>8 DEF InSession, Greeting, Sending

\* The tool reads a byte while it waits for F.
LEMMA ReplyStep ==
  ASSUME TypeOK, InSession, ReadReply
  PROVE  InSession'
<1>1. /\ UNCHANGED <<flash, pc, at, status, wire, img>>
      /\ hpc = "wait" /\ toHost # << >> /\ toHost' = Tail(toHost)
      /\ toHost \in Seq(McuByte)
  BY DEF ReadReply, TypeOK, mcuVars, eraseVars
<1>2. /\ NoF(toHost) => NoF(toHost') /\ Head(toHost) # "F"
      /\ OneF(toHost) /\ Head(toHost) = "F" => NoF(toHost')
      /\ OneF(toHost) /\ Head(toHost) # "F" => OneF(toHost')
  BY <1>1, OneRead
<1>3. /\ AtReceive' /\ NextOnWire' /\ (wire # Damaged)'
      /\ (at = "ready" => NothingReceived)'
  BY <1>1 DEF InSession, AtReceive, NextOnWire, OnWire, NothingReceived
<1>4. idx \in Nat
  BY ImageSizes DEF TypeOK
<1>5. CASE Head(toHost) = "F"
  <2>1. hpc' = "send" /\ idx' = idx + 1
    BY <1>5 DEF ReadReply
  <2>2. MessageAnswered
    BY <1>1, <1>2, <1>5 DEF InSession, Waiting, MessageSent, MessageProgrammed,
       MessageDenied, MessageLost
  <2>3. NoF(toHost') /\ wire' = None
    BY <1>1, <1>2, <1>5, <2>2 DEF MessageAnswered
  <2>4. Progress(idx)'
    <3>1. idx' # 0
      BY <1>4, <2>1
    <3>2. CASE Stored(idx + 1)
      <4>1. Stored(idx)'
        BY <1>1, <2>1, <3>2 DEF Stored
      <4> QED BY <3>1, <4>1 DEF Progress
    <3>3. CASE Dead /\ idx < Blks(img)
      <4>1. idx' <= Blks(img)
        BY <1>4, <2>1, <3>3, ImageSizes DEF TypeOK
      <4>2. Dead'
        BY <1>1, <3>3 DEF Dead
      <4> QED BY <1>1, <3>1, <4>1, <4>2 DEF Progress
    <3> QED BY <2>2, <3>2, <3>3 DEF MessageAnswered
  <2> QED BY <1>3, <2>1, <2>3, <2>4 DEF InSession, Greeting, Sending, Waiting, OnWire
<1>6. CASE Head(toHost) \in {"I", "A"}
  <2>1. hpc' = "failed"
    BY <1>6 DEF ReadReply
  <2> QED BY <1>3, <2>1 DEF InSession, Greeting, Sending, Waiting
<1>7. CASE Head(toHost) \notin {"F", "I", "A"}
  <2>1. UNCHANGED <<hpc, idx>>
    BY <1>7 DEF ReadReply
  <2>2. Progress(idx) => Progress(idx)'
    BY <1>1, <2>1 DEF Progress, Fresh, NothingReceived, Stored, Dead
  <2>3. /\ MessageSent => MessageSent'
        /\ MessageProgrammed => MessageProgrammed'
        /\ MessageDenied => MessageDenied'
        /\ MessageLost => MessageLost'
    BY <1>1, <1>2, <2>1, <2>2
    DEF MessageSent, MessageProgrammed, MessageDenied, MessageLost
  <2>4. MessageAnswered => MessageAnswered'
    BY <1>1, <1>2, <1>7, <2>1 DEF MessageAnswered, Stored, Dead
  <2>5. Waiting'
    BY <1>1, <2>1, <2>3, <2>4 DEF InSession, Waiting
  <2> QED BY <1>1, <1>3, <2>1, <2>5 DEF InSession, Greeting, Sending
<1> QED BY <1>5, <1>6, <1>7

\* Each step keeps what is known of half a message.
LEMMA HalfStep ==
  ASSUME BootInv, InSession, HalfHeard, Next, ~Damage
  PROVE  HalfHeard'
<1>1. TypeOK /\ wire # Damaged /\ ~Greeted(<< >>)
  BY DEF BootInv, InSession, Greeted
<1>2. ~HandleDamaged
  BY <1>1 DEF HandleDamaged, HalfHeard
<1>3. "record" \notin harm'
  <2>1. [EraseNext]_eraseVars
    BY <1>1, StepsErase
  <2>2. CASE HandleMessage
    BY <1>2, <2>2 DEF HandleMessage, HandleData, HandleSize, HandleSignat,
       HandleStop, HandleUnknown, HandleSpliced, HalfHeard
  <2>3. CASE Cut
    BY <2>3 DEF Cut, CutHarm, HalfHeard
  <2>4. CASE ~HandleMessage /\ ~Cut
    BY <2>4 DEF HalfHeard, Next, McuNext, HostNext, Accept, Call, ExpectTimeout,
       BootUser, StartUser, RejectUser, Erase, EraseStep, ReadVector, EraseSpare,
       WriteBackup, EraseCurrent, RestoreVector, EraseReturn, SendReady,
       AnswerSuccess, AnswerAndReset, SayHello, ReadHello, ReadTimeout, SendMsg,
       ReadReply, StartTool, KillTool, Miss, Overrun, mcuVars, eraseVars
  <2> QED BY <2>2, <2>3, <2>4
<1>4. CASE HandleMessage \/ RejectUser \/ AnswerAndReset \/ Cut
  <2>1. half' = "none"
    BY <1>2, <1>4 DEF HandleMessage, HandleData, HandleSize, HandleSignat,
       HandleStop, HandleUnknown, HandleSpliced, Handled, RejectUser,
       AnswerAndReset, Cut, Restart
  <2> QED BY <1>3, <2>1 DEF HalfHeard
<1>5. CASE Accept \/ ExpectTimeout \/ BootUser \/ Erase \/ SendReady \/ AnswerSuccess
  <2>1. at # "listen" /\ half' = half
    BY <1>5 DEF InSession, AtReceive, Accept, Call, ExpectTimeout, BootUser,
       StartUser, Erase, EraseStep, ReadVector, EraseSpare, WriteBackup,
       EraseCurrent, RestoreVector, EraseReturn, SendReady, AnswerSuccess
  <2> QED BY <1>3, <2>1 DEF HalfHeard
<1>6. CASE Miss \/ Overrun
  <2>1. \/ UNCHANGED <<half, at, hpc, toHost>> /\ wire' = None
        \/ UNCHANGED <<half, at>> /\ at # "listen"
    BY <1>6 DEF Miss, Overrun, mcuVars, hostVars
  <2> QED BY <1>3, <2>1 DEF HalfHeard, OnWire
<1>7. CASE KillTool
  <2>1. /\ at' = at /\ hpc' = "off" /\ toHost' = << >>
        /\ \/ UNCHANGED <<wire, half>>
           \/ wire' = None /\ half' \in {half, "none"}
           \/ wire' = None /\ at = "listen" /\ half' # "?"
    <3>1. wire # None => wire \in Message
      BY <1>1 DEF TypeOK
    <3>2. wire # None /\ wire.op = "?" => wire = Damaged
      <4>1. SUFFICES ASSUME wire \in Message, wire.op = "?" PROVE wire = Damaged
        BY <3>1
      <4>2. CASE wire \in {BTL, STOP, Damaged}
        BY <4>1, <4>2 DEF BTL, STOP
      <4>3. ASSUME NEW m \in Images, NEW k \in 0 .. ERASE_BLK_CNT + 1,
                   wire = SessionMsg(m, k)
            PROVE  FALSE
        BY <4>1, <4>3 DEF SessionMsg, DataMsg, SizeMsg, SignatMsg, STOP
      <4> QED BY <4>1, <4>2, <4>3 DEF Message
    <3> QED BY <1>1, <1>7, <3>2 DEF KillTool, Listening
  <2> QED BY <1>1, <1>3, <2>1 DEF HalfHeard, OnWire
<1>8. CASE StartTool \/ SayHello \/ ReadTimeout
  <2>1. /\ UNCHANGED <<at, half>> /\ hpc' \in {"hello", "read4"}
        /\ toHost' \in {toHost, << >>}
        /\ wire' \in {wire, BTL}
    BY <1>8 DEF StartTool, SayHello, ReadTimeout, mcuVars
  <2> QED BY <1>1, <1>3, <2>1 DEF HalfHeard, OnWire
<1>9. CASE ReadHello
  <2> DEFINE rest == SubSeq(toHost, 5, Len(toHost))
  <2>1. /\ UNCHANGED <<at, half, wire, idx>> /\ toHost' = rest /\ hpc = "read4"
        /\ Len(toHost) >= 4
        /\ hpc' = IF SubSeq(toHost, 1, 4) = OK THEN "send" ELSE "hello"
    BY <1>9 DEF ReadHello, mcuVars
  <2>2. toHost \in Seq(McuByte) /\ NoFGreeted(toHost)
    BY <1>1, <2>1 DEF TypeOK, InSession, Greeting
  <2>3. /\ Greeted(rest) => Greeted(toHost)
        /\ SubSeq(toHost, 1, 4) = OK => Greeted(toHost)
    BY <2>1, <2>2, FourRead
  <2> HIDE DEF rest
  <2> QED BY <1>3, <2>1, <2>3 DEF HalfHeard, OnWire
<1>10. CASE SendMsg \/ ReadReply
  <2>1. hpc \in {"send", "wait"} /\ half' = half
    BY <1>10 DEF SendMsg, ReadReply, mcuVars
  <2> QED BY <1>3, <2>1 DEF HalfHeard
<1> QED
  BY <1>4, <1>5, <1>6, <1>7, <1>8, <1>9, <1>10 DEF Next, McuNext, HostNext

\* Each step keeps what is known of a session.
LEMMA SessionStep ==
  ASSUME BootInv, FollowsSession, [Next]_vars, faults \in Nat
  PROVE  FollowsSession'
<1> SUFFICES ASSUME faults' = 0 PROVE InSession' /\ HalfHeard'
  BY DEF FollowsSession
<1>1. CASE UNCHANGED vars
  <2>1. faults = 0 /\ InSession /\ HalfHeard
    BY <1>1 DEF FollowsSession, vars
  <2> QED
    BY <1>1, <2>1 DEF vars, mcuVars, eraseVars, hostVars, InSession, AtReceive,
       NothingReceived, NextOnWire, OnWire, Greeting, Fresh, Sending, Progress,
       Stored, Dead, Waiting, MessageSent, MessageProgrammed, MessageDenied,
       MessageAnswered, MessageLost, HalfHeard
<1>2. CASE Next
  <2>1. ~Damage
    BY DEF Damage
  <2>2. faults = 0
    BY <1>2, <2>1 DEF Next, McuNext, HostNext, Accept, ExpectTimeout, BootUser,
       RejectUser, Erase, SendReady, HandleMessage, HandleData, HandleSize,
       HandleSignat, HandleStop, HandleUnknown, HandleSpliced, HandleDamaged, Handled,
       AnswerSuccess, AnswerAndReset, SayHello, ReadHello, ReadTimeout, SendMsg,
       ReadReply, StartTool, KillTool, Miss, Overrun, Cut
  <2>3. InSession /\ HalfHeard /\ TypeOK /\ WaitingFor /\ BlankSoFar
    BY <2>2 DEF FollowsSession, BootInv
  <2>4. HalfHeard'
    BY <1>2, <2>1, <2>3, HalfStep
  <2> QED
    BY <1>2, <2>1, <2>3, <2>4, BootSteps, EraseSteps, ReadyStep, HandleSteps,
       SuccessStep, LossSteps, ToolSteps, SendStep, ReplyStep
    DEF Next, McuNext, HostNext
<1> QED BY <1>1, <1>2

\* FollowsSession is an invariant.
LEMMA SessionInvariance == Spec => []FollowsSession
<1>1. Init => FollowsSession
  BY MessageAssumption DEF Init, EraseInit, FollowsSession, InSession, AtReceive,
     NextOnWire, OnWire, Greeting, Sending, Waiting, Message, HalfHeard
<1>2. BootInv => faults \in Nat
  BY BoundAssumption DEF BootInv, TypeOK
<1>3. BootInv /\ FollowsSession /\ [Next]_vars => FollowsSession'
  BY <1>2, SessionStep
<1> QED BY <1>1, <1>3, BootInvariance, PTL DEF Spec

\* A memory that has received all of an image holds it.
LEMMA ReceivedHolds ==
  ASSUME NEW f, NEW m \in Images, Received(f, m, Blks(m) + 2)
  PROVE  Holds(f, m)
<1>1. Blks(m) \in Nat /\ Blks(m) >= 1 /\ Last \in Nat /\ Blks(m) <= Last + 1
  BY ImageSizes
<1>2. Blks(m) <= Last
  BY <1>1 DEF Received
<1>3. f[0].body = CodeCell(m, 0)
      /\ f[Last] = [head |-> SigCell(m), body |-> SizeCell(Blks(m))]
  BY <1>1 DEF Received
<1>4. ASSUME NEW b \in 1 .. Blks(m) - 1
      PROVE  f[b] = [head |-> CodeCell(m, b), body |-> CodeCell(m, b)]
  <2>1. b \in 1 .. Last - 1 /\ b < Blks(m) + 2 /\ b < Blks(m)
    BY <1>1, <1>2
  <2> QED BY <2>1 DEF Received
<1> QED BY <1>2, <1>3, <1>4 DEF Holds

(***************************************************************************)
(* DoneMeansInstalled (btld.py:203) for every instance, under every order  *)
(* of kills, restarts, resets and power cuts: when the tool has sent its   *)
(* stop message after a session without damage, the image it was given is  *)
(* in the memory, code, size and signature.                                *)
(***************************************************************************)
THEOREM DoneTheorem == Spec => DoneMeansInstalled
<1>1. ASSUME BootInv, FollowsSession, Next,
             hpc' = "done", hpc # "done", faults = 0
      PROVE  Holds(flash, img)
  <2>1. SendMsg /\ SessionMsg(img, idx) = STOP
    BY <1>1 DEF Next, McuNext, HostNext, Accept, ExpectTimeout, BootUser,
       RejectUser, Erase, SendReady, HandleMessage, HandleData, HandleSize,
       HandleSignat, HandleStop, HandleUnknown, HandleSpliced, HandleDamaged, Handled,
       AnswerSuccess, AnswerAndReset, SayHello, ReadHello, ReadTimeout, SendMsg,
       ReadReply, StartTool, KillTool, Miss, Overrun, Cut, Damage, hostVars
  <2>2. img \in Images /\ idx \in 0 .. Blks(img) + 2
    BY <1>1 DEF BootInv, TypeOK
  <2>3. idx = Blks(img) + 2 /\ Blks(img) \in Nat
    BY <2>1, <2>2, MessageNumber, ImageSizes
  <2>4. Progress(idx)
    BY <1>1, <2>1 DEF FollowsSession, InSession, Sending, SendMsg
  <2>5. idx # 0 /\ ~(idx <= Blks(img))
    BY <2>3
  <2>6. Received(flash, img, Blks(img) + 2)
    BY <2>3, <2>4, <2>5 DEF Progress, Stored
  <2> QED BY <2>2, <2>6, ReceivedHolds
<1>2. BootInv /\ FollowsSession /\ [Next]_vars
        => [hpc' = "done" /\ hpc # "done" /\ faults = 0 => Holds(flash, img)]_vars
  BY <1>1
<1> QED
  BY <1>2, BootInvariance, SessionInvariance, PTL DEF Spec, DoneMeansInstalled

-----------------------------------------------------------------------------
(* One image at a time.                                                    *)

\* The reset address and the copy of it hold the vector or nothing.
VectorPlain ==
  /\ flash[0].head \in {ERASED, GOTO_BTLD}
  /\ save_goto_btld \in {ERASED, GOTO_BTLD}

Unmixed(f) ==
  \E m \in Images : \A b \in Blocks :
    /\ f[b].head \in CellsOf(m) \cup {GOTO_BTLD}
    /\ f[b].body \in CellsOf(m)

\* It holds while erase_flash() is at work, too.
NeverMixed == faults = 0 /\ ~spliced => Unmixed(flash)

\* What erase_flash() leaves of a block it changes.
LEMMA ErasedOrVector ==
  ASSUME EraseTypeOK, BlankSoFar, VectorPlain, Call \/ EraseStep
  PROVE  /\ \A b \in Blocks :
              \/ flash'[b] = flash[b]
              \/ /\ flash'[b].head \in {ERASED, GOTO_BTLD}
                 /\ flash'[b].body = ERASED
         /\ VectorPlain'
<1>1. flash \in [Blocks -> Block] /\ save_goto_btld \in Cell
      /\ 0 \in Blocks /\ 1 \in Blocks
  BY FirstBlocks DEF EraseTypeOK
<1>2. \A a, b \in Blocks : EraseBlock(flash, a)[b] \in {flash[b], ErasedBlock}
  BY <1>1 DEF EraseBlock
<1>3. CASE Call \/ ReadVector \/ EraseReturn
  BY <1>3 DEF Call, ReadVector, EraseReturn, VectorPlain
<1>4. CASE EraseSpare \/ EraseCurrent
  <2>1. PICK a \in Blocks : flash' = EraseBlock(flash, a)
    BY <1>1, <1>4, BlockCountAssumption
    DEF EraseSpare, EraseCurrent, EraseTypeOK, Blocks
  <2>2. UNCHANGED save_goto_btld
    BY <1>4 DEF EraseSpare, EraseCurrent
  <2> QED BY <1>1, <1>2, <2>1, <2>2 DEF ErasedBlock, VectorPlain
<1>5. CASE WriteBackup \/ RestoreVector
  <2>1. PICK a \in Blocks : flash[a] = ErasedBlock
                            /\ flash' = WriteHead(flash, a, save_goto_btld)
    BY <1>1, <1>5 DEF WriteBackup, RestoreVector, BlankSoFar
  <2>2. UNCHANGED save_goto_btld
    BY <1>5 DEF WriteBackup, RestoreVector
  <2>3. /\ flash'[a] = [head |-> save_goto_btld, body |-> ERASED]
        /\ \A b \in Blocks \ {a} : flash'[b] = flash[b]
    BY <1>1, <2>1, WriteVector
  <2> QED BY <1>1, <2>2, <2>3 DEF VectorPlain
<1> QED BY <1>3, <1>4, <1>5 DEF EraseStep

\* Each step keeps VectorPlain, but for a record over the vector.
LEMMA VectorPlainStep ==
  ASSUME EraseTypeOK, BlankSoFar, VectorPlain, [EraseNext]_eraseVars,
         "record" \notin harm'
  PROVE  VectorPlain'
<1>1. CASE Call \/ EraseStep
  BY <1>1, ErasedOrVector
<1>2. CASE ReceiveCells
  <2>1. flash'[0].head = flash[0].head
    BY <1>2, ReceiveKeepsVector
  <2> QED BY <1>2, <2>1 DEF ReceiveCells, VectorPlain
<1>3. CASE UNCHANGED <<flash, save_goto_btld>>
  BY <1>3 DEF VectorPlain
<1> QED BY <1>1, <1>2, <1>3 DEF EraseNext, StartUser, Reset, PowerCut, eraseVars

\* What messages of one image have left is of that image.
LEMMA ReceivedUnmixed ==
  ASSUME NEW f, NEW m \in Images, NEW k, Received(f, m, k),
         f[0].head \in {ERASED, GOTO_BTLD}
  PROVE  Unmixed(f)
<1> SUFFICES ASSUME NEW b \in Blocks
             PROVE  /\ f[b].head \in CellsOf(m) \cup {GOTO_BTLD}
                    /\ f[b].body \in CellsOf(m)
  BY DEF Unmixed
<1>1. /\ ERASED \in CellsOf(m) /\ SigCell(m) \in CellsOf(m)
      /\ SizeCell(Blks(m)) \in CellsOf(m)
      /\ \A a \in Blocks : CodeCell(m, a) \in CellsOf(m)
  BY DEF CellsOf
<1>2. CASE b = 0
  BY <1>1, <1>2 DEF Received
<1>3. CASE b = Last
  <2>1. /\ f[b].head \in {SigCell(m), ERASED}
        /\ f[b].body \in {SizeCell(Blks(m)), ERASED}
    BY <1>3 DEF Received
  <2> QED BY <1>1, <2>1
<1>4. CASE b \in 1 .. Last - 1
  <2>1. f[b] \in {[head |-> CodeCell(m, b), body |-> CodeCell(m, b)], ErasedBlock}
    BY <1>4 DEF Received
  <2> QED BY <1>1, <2>1 DEF ErasedBlock
<1> QED BY <1>2, <1>3, <1>4, BlockCountAssumption DEF Blocks, Last

\* Without damage, a step from a memory that was never mixed gives such a memory.
LEMMA UnmixedStep ==
  ASSUME BootInv, FollowsSession, VectorPlain, VectorPlain', NeverMixed, Next,
         faults = 0, ~spliced, ~spliced'
  PROVE  Unmixed(flash')
<1>1. TypeOK /\ EraseTypeOK /\ BlankSoFar /\ InSession /\ HalfHeard
      /\ Unmixed(flash)
  BY DEF BootInv, TypeOK, FollowsSession, NeverMixed
<1>2. CASE UNCHANGED flash
  BY <1>1, <1>2
<1>3. CASE Call \/ EraseStep
  <2>1. PICK m \in Images : \A b \in Blocks :
               /\ flash[b].head \in CellsOf(m) \cup {GOTO_BTLD}
               /\ flash[b].body \in CellsOf(m)
    BY <1>1 DEF Unmixed
  <2>2. ERASED \in CellsOf(m)
    BY DEF CellsOf
  <2>3. \A b \in Blocks :
          /\ flash'[b].head \in CellsOf(m) \cup {GOTO_BTLD}
          /\ flash'[b].body \in CellsOf(m)
    BY <1>1, <1>3, <2>1, <2>2, ErasedOrVector
  <2> QED BY <2>3 DEF Unmixed
<1>4. CASE HandleMessage
  <2>1. CASE wire = BTL
    <3>1. UNCHANGED flash
      BY <1>1, <1>4, <2>1
      DEF HandleMessage, HandleData, HandleSize, HandleSignat, HandleStop,
          HandleUnknown, HandleSpliced, HandleDamaged, Handled, HalfHeard, BTL,
          STOP, Damaged
    <3> QED BY <1>2, <3>1
  <2>2. CASE wire # BTL
    <3>1. at = "listen" /\ OnWire
      BY <1>1, <1>4, <2>2, MessageAssumption
      DEF HandleMessage, HandleData, HandleSize, HandleSignat, HandleStop,
          HandleUnknown, HandleSpliced, HandleDamaged, Handled, Listening, OnWire, Message
    <3>2. PICK m \in Images : \E k \in 0 .. Blks(m) + 2 :
            wire = SessionMsg(m, k) /\ Received(flash, m, k)
      BY <1>1, <3>1 DEF InSession, NextOnWire
    <3>3. PICK k \in 0 .. Blks(m) + 2 :
            wire = SessionMsg(m, k) /\ Received(flash, m, k)
      BY <3>2
    <3>4. Received(flash', m, k + 1) \/ UNCHANGED flash
      BY <1>1, <1>4, <3>3, HandledStep
    <3> QED BY <1>2, <3>4, ReceivedUnmixed DEF VectorPlain
  <2> QED BY <2>1, <2>2
<1>5. Accept => Call
  BY DEF Accept
<1>6. Erase => EraseStep
  BY DEF Erase
<1> QED
  BY <1>2, <1>3, <1>4, <1>5, <1>6
  DEF Next, McuNext, HostNext, ExpectTimeout, BootUser, StartUser, RejectUser,
      Restart, SendReady, AnswerSuccess, AnswerAndReset, SayHello, ReadHello,
      ReadTimeout, SendMsg, ReadReply, StartTool, KillTool, Miss, Overrun, Cut,
      Damage, mcuVars, eraseVars

\* What a completed half message has programmed goes when the memory is erased.
LEMMA SplicedStep ==
  ASSUME BootInv, VectorPlain, [Next]_vars, spliced, ~spliced'
  PROVE  Unmixed(flash')
<1>1. TypeOK /\ EraseTypeOK /\ BlankSoFar
  BY DEF BootInv, TypeOK
<1>2. Erase /\ pc' = "recv"
  BY DEF Next, McuNext, HostNext, Accept, ExpectTimeout, BootUser, RejectUser,
     Erase, SendReady, HandleMessage, HandleData, HandleSize, HandleSignat,
     HandleStop, HandleUnknown, HandleSpliced, HandleDamaged, AnswerSuccess,
     AnswerAndReset, SayHello, ReadHello, ReadTimeout, SendMsg, ReadReply,
     StartTool, KillTool, Miss, Overrun, Cut, Damage, Restart, vars, mcuVars
<1>3. EraseReturn
  BY <1>1, <1>2 DEF Erase, EraseStep, ReadVector, EraseSpare, WriteBackup,
     EraseCurrent, RestoreVector, EraseTypeOK
<1>4. /\ UNCHANGED flash
      /\ flash[0] = [head |-> save_goto_btld, body |-> ERASED]
      /\ \A b \in 1 .. ERASE_BLK_CNT - 1 : flash[b] = ErasedBlock
  BY <1>1, <1>3, BlockCountAssumption DEF EraseReturn, BlankSoFar
<1>5. PICK m \in Images : TRUE
  BY ImageAssumption
<1>6. ERASED \in CellsOf(m)
  BY DEF CellsOf
<1> SUFFICES ASSUME NEW b \in Blocks
             PROVE  /\ flash[b].head \in CellsOf(m) \cup {GOTO_BTLD}
                    /\ flash[b].body \in CellsOf(m)
  BY <1>4 DEF Unmixed
<1>7. b = 0 \/ b \in 1 .. ERASE_BLK_CNT - 1
  BY BlockCountAssumption DEF Blocks
<1> QED BY <1>4, <1>6, <1>7 DEF VectorPlain, ErasedBlock

\* A message once damaged stays counted.
LEMMA FaultsGrow ==
  ASSUME TypeOK, [Next]_vars, faults' = 0
  PROVE  faults = 0 /\ (UNCHANGED vars \/ (Next /\ ~Damage))
<1>1. faults \in Nat
  BY BoundAssumption DEF TypeOK
<1>2. ~Damage
  BY <1>1 DEF Damage
<1>3. CASE UNCHANGED vars
  BY <1>3 DEF vars
<1>4. CASE Next
  BY <1>2, <1>4 DEF Next, McuNext, HostNext, Accept, ExpectTimeout, BootUser,
     RejectUser, Erase, SendReady, HandleMessage, HandleData, HandleSize,
     HandleSignat, HandleStop, HandleUnknown, HandleSpliced, HandleDamaged,
     Handled, AnswerSuccess, AnswerAndReset, SayHello, ReadHello, ReadTimeout,
     SendMsg, ReadReply, StartTool, KillTool, Miss, Overrun, Cut
<1> QED BY <1>2, <1>3, <1>4

(***************************************************************************)
(* NoMixedImages for every instance (btld.py:226-247 against main.c:63-129 *)
(* and flash.c:98-113): as long as the line damages nothing, no order of   *)
(* kills, restarts, resets and power cuts, those that lose the vector      *)
(* included, leaves cells of two images in the memory, but for what a      *)
(* handshake behind a message that ends in an ESC has programmed           *)
(* (main.c:140), and that only until the next handshake that is accepted.  *)
(***************************************************************************)
THEOREM UnmixedTheorem == Spec => []NoMixedImages
<1> DEFINE Plain == faults = 0 => VectorPlain
<1>1. Init => Plain /\ NeverMixed
  <2> SUFFICES ASSUME Init PROVE VectorPlain /\ NeverMixed
    OBVIOUS
  <2>1. /\ flash[0].head = GOTO_BTLD /\ save_goto_btld = ERASED
        /\ \A b \in Blocks : flash[b].head \in {ERASED, GOTO_BTLD}
                             /\ flash[b].body = ERASED
    BY FirstBlocks DEF Init, EraseInit, OnlyVector, ErasedBlock
  <2>2. PICK m \in Images : TRUE
    BY ImageAssumption
  <2>3. ERASED \in CellsOf(m)
    BY DEF CellsOf
  <2> QED BY <2>1, <2>3 DEF VectorPlain, NeverMixed, Unmixed
<1>2. BootInv /\ FollowsSession' /\ Plain /\ [Next]_vars => Plain'
  <2> SUFFICES ASSUME BootInv, FollowsSession', Plain, [Next]_vars, faults' = 0
               PROVE  VectorPlain'
    OBVIOUS
  <2>1. EraseTypeOK /\ BlankSoFar /\ VectorPlain
    BY FaultsGrow DEF BootInv, TypeOK
  <2>2. [EraseNext]_eraseVars
    BY StepsErase DEF BootInv, vars, mcuVars, eraseVars
  <2>3. "record" \notin harm'
    BY DEF FollowsSession, HalfHeard
  <2> QED BY <2>1, <2>2, <2>3, VectorPlainStep
<1>3. BootInv /\ FollowsSession /\ Plain /\ Plain' /\ NeverMixed
        /\ [Next]_vars => NeverMixed'
  <2> SUFFICES ASSUME BootInv, FollowsSession, Plain, Plain', NeverMixed,
                      [Next]_vars, faults' = 0, ~spliced'
               PROVE  Unmixed(flash')
    BY DEF NeverMixed
  <2>1. /\ faults = 0 /\ VectorPlain /\ VectorPlain'
        /\ UNCHANGED vars \/ Next
    BY FaultsGrow DEF BootInv
  <2>2. CASE spliced
    BY <2>1, <2>2, SplicedStep
  <2>3. CASE ~spliced /\ UNCHANGED vars
    <3>1. Unmixed(flash)
      BY <2>1, <2>3 DEF NeverMixed
    <3> QED BY <2>3, <3>1 DEF vars, mcuVars, eraseVars, Unmixed
  <2>4. CASE ~spliced /\ Next
    BY <2>1, <2>4, UnmixedStep
  <2> QED BY <2>1, <2>2, <2>3, <2>4
<1>4. NeverMixed => NoMixedImages
  BY DEF NeverMixed, Unmixed, NoMixedImages
<1> QED
  BY <1>1, <1>2, <1>3, <1>4, BootInvariance, SessionInvariance, PTL DEF Spec
=============================================================================
