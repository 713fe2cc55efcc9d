----------------------------- MODULE MCRoutines -----------------------------
(* The two routines that something outside interrupts at any step, for TLC:  *)
(* uart_expect_msg(), which meets killed tools and lost bytes, and           *)
(* write_flash(), which meets power cuts; one of them in each behaviour, the *)
(* other is off.                                                             *)
EXTENDS Handshake, WriteFlash

\* The message of the code, its bytes as model values.
CONSTANTS At, B, T, L, Lf

MCMsg == <<At, B, T, L, Lf>>

\* Blocks of three bytes of one bit, three of them, and buffers that clear
\* every byte, every other or none, of up to two blocks and a byte at every
\* address.
Bufs(n) ==
  {[k \in 1 .. n |-> {}], [k \in 1 .. n |-> IF k % 2 = 1 THEN {} ELSE {0}]}

MCCalls ==
  UNION {{[addr |-> a, buf |-> b] : b \in Bufs(n)} :
           <<a, n>> \in {p \in (0 .. TOP) \X (0 .. 2 * FLASH_BLOCK_SIZ + 1) :
                           p[1] + p[2] <= TOP}}

-----------------------------------------------------------------------------

HandshakeOff ==
  /\ mcu = "off" /\ i = 0 /\ timeout_us = 0 /\ wire = << >> /\ got = << >>
  /\ next = 0 /\ kills = 0 /\ lost = 0

\* A memory that is erased, and no call yet.
WriteStart(state) ==
  /\ flash = [x \in Addr |-> ERASED] /\ before = flash
  /\ pc = state /\ call = [addr |-> 0, buf |-> << >>]
  /\ written = 0 /\ addr = 0 /\ TBLPTR = 0
  /\ holding = NoLatch

MCInit ==
  \/ HandshakeInit /\ WriteStart("off")
  \/ HandshakeOff /\ WriteStart("idle")

MCNext ==
  \/ HandshakeNext /\ UNCHANGED writeVars
  \/ WriteNext /\ UNCHANGED handshakeVars

\* The MCU polls: nothing else runs on it.
MCSpec ==
  /\ MCInit /\ [][MCNext]_<<handshakeVars, writeVars>>
  /\ WF_handshakeVars(Poll /\ UNCHANGED writeVars)
=============================================================================
