----------------------------- MODULE BtldPatch -----------------------------
(***************************************************************************)
(* main() of tools/btld-patch.py: the hex line with GOTO BTLD_OFFSET that  *)
(* goes before the lines of bootloader.hex, for the offset on its command  *)
(* line.                                                                   *)
(***************************************************************************)
EXTENDS Integers, Sequences

CONSTANT Offsets   \* the offsets the bootloader may be built for

\* Instructions are two bytes long, the program counter has 21 bits.
ASSUME OffsetsAssumption ==
  \A offset \in Offsets : offset \in Nat /\ offset < 2097152 /\ offset % 2 = 0

VARIABLES
  btld_offset,   \* the argument
  out            \* the first line of bootloader_patched.hex: its hex digits

patchVars == <<btld_offset, out>>

Unwritten == << >>

PatchInit == btld_offset \in Offsets /\ out = Unwritten

-----------------------------------------------------------------------------

goto_instr_1 == 239   \* 0xEF
goto_instr_2 == 240   \* 0xF0

\* Mutant: GOTO takes the address of a byte.
GotoInstrBytes(offset) ==
  <<offset % 256, goto_instr_1, (offset \div 256) % 256,
    goto_instr_2 + ((offset \div 65536) % 16)>>

\* GOTO takes the address of an instruction: lowest byte, highest byte and the
\* four bits above, between the two halves of the operation code.
GotoInstr(offset) ==
  LET word == offset \div 2 IN
    <<word % 256, goto_instr_1, (word \div 256) % 256,
      goto_instr_2 + ((word \div 65536) % 16)>>

\* The count, the address and the type of the line add up to 4.
LineSum(goto) == 4 + goto[1] + goto[2] + goto[3] + goto[4]

Checksum(goto) == 256 - (LineSum(goto) % 256)

\* '%02X' % n: two digits, more when n needs them.
HexDigits(n) ==
  IF n < 256 THEN <<n \div 16, n % 16>> ELSE <<n \div 256, (n \div 16) % 16, n % 16>>

\* ":04000000", the instruction and the checksum.
GotoLine(goto) ==
  <<0, 4, 0, 0, 0, 0, 0, 0>> \o HexDigits(goto[1]) \o HexDigits(goto[2])
    \o HexDigits(goto[3]) \o HexDigits(goto[4]) \o HexDigits(Checksum(goto))

Patch ==
  /\ out = Unwritten
  /\ out' = GotoLine(GotoInstr(btld_offset))
  /\ UNCHANGED btld_offset

PatchSpec == PatchInit /\ [][Patch]_patchVars

-----------------------------------------------------------------------------
(* What reads the line: a programmer, and the PIC18 when it is in flash.   *)

\* The bytes of the line: two digits each.
LineByte(k) == 16 * out[2 * k - 1] + out[2 * k]

\* A reader takes the line when it has as many digits as its count asks for
\* (count, address, type, data, checksum) and its bytes add up to 0.
LineAccepted ==
  /\ Len(out) = 2 * (5 + LineByte(1))
  /\ (LineByte(1) + LineByte(2) + LineByte(3) + LineByte(4) + LineByte(5)
        + LineByte(6) + LineByte(7) + LineByte(8) + LineByte(9)) % 256 = 0

\* Where the PIC18 goes on after the GOTO.
Target == 2 * ((LineByte(8) % 16) * 65536 + LineByte(7) * 256 + LineByte(5))

(***************************************************************************)
(* The patched bootloader starts at its offset after a reset: the four     *)
(* bytes of the line are a GOTO to it, for every offset the device can     *)
(* have (btld-patch.py:15-22).                                             *)
(***************************************************************************)
ResetJumpsToBootloader ==
  out # Unwritten =>
    /\ Target = btld_offset
    /\ LineByte(6) = goto_instr_1 /\ LineByte(8) \div 16 = goto_instr_2 \div 16

(***************************************************************************)
(* "so you will always have your bootloader hex file patched correctly     *)
(* after building" (README.md:147): a programmer can read the line.  It is *)
(* not so where the bytes of the line already add up to a multiple of 256, *)
(* for the offset 0x3A00 for one: the checksum is 256 there, and '%02X'    *)
(* prints three digits of it (btld-patch.py:27-33).                        *)
(***************************************************************************)
LineReadsBack == out # Unwritten => LineAccepted
============================================================================
