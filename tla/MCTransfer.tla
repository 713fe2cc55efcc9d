---------------------------- MODULE MCTransfer ----------------------------
(* Transfer for TLC: a memory of 36 bytes of six bits, segments of 16        *)
(* bytes of which the third is ignored, and files of up to four records of   *)
(* data, with gaps, out of order, short, empty or reaching the metadata.     *)
EXTENDS Transfer, MCBytes

\* The byte a file has for an address: all different, none 0xFF.
Code(a) == NumToBits(a + 1)

\* n bytes from a, with nothing from 4 to 7.
Data(a, n) == [k \in 1 .. n |-> IF a + k - 1 \in 4 .. 7 THEN ERASED ELSE Code(a + k - 1)]

D(a, n) == [type |-> 0, addr |-> a, data |-> Data(a, n)]

Ext(u) == [type |-> 4, upper |-> u]

Starts == {<< >>} \cup {<<D(0, n)>> : n \in {3, 4, 6, 8, 9}}

Middles ==
  {<< >>} \cup {<<D(a, n)>> : a \in {1, 6, 8, 9}, n \in 1 .. 2}
  \cup {<<D(12, 2), D(a, n)>> : a \in {8, 14}, n \in 0 .. 2}
  \cup {<<[type |-> 5]>>, <<[type |-> NoRecord]>>}

Ends ==
  {<< >>, <<Ext(2), D(1, 3)>>}
  \cup {<<Ext(2), D(a, 2), Ext(1), [D(b, n) EXCEPT !.data = Data(SEGMENT + b, n)]>> :
          a \in {0, 5}, b \in {0, 3, 12}, n \in 1 .. 3}

MCFiles ==
  {s \o m \o e \o <<[type |-> 1]>> : s \in Starts, m \in Middles, e \in Ends}
  \cup {s \o m : s \in Starts, m \in Middles}

MCVector == <<{0}, {1}, {0}, {1}>>

MCJunkByte == {{1}, {2, 3}}

MCSignature == <<{1, 2}, {3}>>
===========================================================================
