------------------------------ MODULE MCDevice ------------------------------
(* A small instance of Device for TLC: a memory of 20 bytes of two bits, the  *)
(* bootloader at 16, the metadata at 11, chunks and blocks of 8.               *)
EXTENDS Device, MCBytes

Copies(byte, n) == [k \in 1 .. n |-> byte]

MCVector == <<{0}, {1}, {0}, {1}>>

Data(a, c, n) == [op |-> "D", count |-> c, addr |-> a, bytes |-> Copies({0}, n)]

\* Records of four bytes everywhere, of one about the vector and the metadata, of
\* ten at address 0, and empty ones; records that wrap, or that claim more or less
\* than they have; metadata of the right length and of a wrong one.
MCRequests ==
  {Data(a, 4, 4) : a \in 0 .. TOP}
  \cup {Data(a, 1, 1) : a \in 0 .. 4 \cup SIGNAT_OFFSET - 1 .. TOP}
  \cup {Data(a, 0, 0) : a \in {0, 4}}
  \cup {Data(ADDR_MOD - 1, n, n) : n \in {1, 4, 12}}
  \cup {Data(0, 10, 10), Data(0, 9, 8), Data(0, 0, 1)}
  \cup {Data(a, 2, 1) : a \in SIGNAT_OFFSET - 3 .. SIGNAT_OFFSET - 1}
  \cup {[op |-> "M", bytes |-> Copies({1}, n)] : n \in 2 .. 3}
  \cup {[op |-> "N", bytes |-> Copies({1}, n)] : n \in SIGNAT_SIZE .. 3}
  \cup {[op |-> "X", bytes |-> Copies({}, n)] : n \in 0 .. 1}
  \cup {[op |-> "B", bytes |-> << >>]}

MCJunkByte == {{1}}

\* Code in which no two places look alike, with every code size.
Code == <<3, 0, 0, 1, 0, 2, 1, 1, 2, 0, 3, 2, 2, 3, 1, 3>>

Memory(size) ==
  LET d == SizeBytes(size) IN
    [x \in Addr |->
       IF x < 4 THEN MCVector[x + 1]
       ELSE IF x \in CODE_SIZE_OFFSET .. BTLD_OFFSET - 1
         THEN d[x - CODE_SIZE_OFFSET + 1]
       ELSE ByteOf(Code[x - 3])]

MCMemories == {Memory(size) : size \in 0 .. SIZE_MOD - 1}
=============================================================================
