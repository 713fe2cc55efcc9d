------------------------------ MODULE MCBytes ------------------------------
(* Bytes for TLC: sets of bit numbers and the numbers they stand for.       *)
LOCAL INSTANCE Integers
LOCAL INSTANCE FiniteSetsExt

BitsToNum(byte) == MapThenSumSet(LAMBDA k : 2^k, byte)

NumToBits(n) == {k \in 0 .. 7 : (n \div 2^k) % 2 = 1}
============================================================================
