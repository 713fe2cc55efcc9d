---------------------------- MODULE MCBootloader ----------------------------
(* Small instances of Bootloader for TLC: images A and B of two blocks and   *)
(* an image Big that reaches into the metadata.                              *)
EXTENDS Bootloader

CONSTANTS A, B, Big

MCBlks(m) == IF m = Big THEN ERASE_BLK_CNT ELSE 2

MCCodeCell(m, b) == <<"code", m, b>>

MCSigCell(m) == <<"signature", m>>

MCSizeCell(n) == <<"size", n>>

MCNoise == <<"noise">>

MCUserCell ==
  {MCNoise}
    \cup {MCCodeCell(m, b) : m \in Images, b \in Blocks}
    \cup {MCSigCell(m) : m \in Images}
    \cup {MCSizeCell(n) : n \in 1 .. ERASE_BLK_CNT}
=============================================================================
