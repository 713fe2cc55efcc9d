----------------------------- MODULE ByteFlash -----------------------------
(***************************************************************************)
(* The program memory byte by byte, for the modules that care which byte   *)
(* goes where: WriteFlash, MessageHandle, SignatureValid, Transfer.        *)
(* (FlashDevice has the same memory block by block.)                       *)
(*                                                                         *)
(* A byte is the set of its one bits, so that programming, which clears    *)
(* bits and never sets them, is an intersection.                           *)
(***************************************************************************)
EXTENDS Integers, Sequences

CONSTANTS
  Bits,   \* the bits of a byte: 0 .. 7 in the device
  TOP     \* bytes of program memory

ASSUME TopAssumption == TOP \in Nat

VARIABLE flash

Addr == 0 .. TOP - 1

Byte == SUBSET Bits

\* 0xFF
ERASED == Bits

\* write_flash(a, s, Len(s)) as a whole; module WriteFlash has its steps.
WriteBytes(f, a, s) ==
  [x \in DOMAIN f |->
     IF x \in a .. a + Len(s) - 1 THEN f[x] \cap s[x - a + 1] ELSE f[x]]

\* read_flash(a, buf, n); there is nothing to read behind the memory.
ReadBytes(f, a, n) ==
  [k \in 1 .. n |-> IF a + k - 1 \in DOMAIN f THEN f[a + k - 1] ELSE {}]
============================================================================
