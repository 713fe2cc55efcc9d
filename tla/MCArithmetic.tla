---------------------------- MODULE MCArithmetic ----------------------------
(* The computations for TLC: one of btld-patch.py, sha256_transform() and    *)
(* uECC.c (words, bytes, inverses, public keys, the verification) in each    *)
(* behaviour, the others are off.  Three words of four bits, the prime       *)
(* 4073 = 16^3 - 16 - 7, and the curve y^2 = x^3 + 11 modulo 499, which has  *)
(* the prime order 457: like those of secp256k1, they fill their words.      *)
EXTENDS BtldPatch, Sha256Words, ModMult, ModInv, VliBytes, EcVerify, EcMult, EcPoint

\* Every block of a 32 KB device, and offsets with every bit of the program
\* counter set or not.
MCOffsets ==
  {64 * blk : blk \in 0 .. 511} \cup {2^k : k \in 1 .. 20}
    \cup {2^21 - 2^k : k \in 1 .. 20}

MCModuli == {CURVE_P, CURVE_N, 257}

\* Every number times numbers with all words 0, small, mixed and full; and
\* numbers at or above the modulus, one of them or both.
MCFactors(m) ==
  ({0, 1, 15, 16, 100, 255, 256, m - 17, m - 2, m - 1} \X (0 .. m - 1))
    \cup ({m, m + 1, CAPACITY - 1} \X {0, 1, 16, m - 1, m, CAPACITY - 1})

MCInvModuli == {CURVE_P, CURVE_N}

MCG == <<3, 176>>

MCSecrets == {2, 3, 300}

\* Signatures for d, right ones and some with a wrong r or s; hashes of 0, of
\* the order itself and above it.
MCSignatures(d) ==
  LET Signed(e, k) ==
        LET x == Times[k][1] % CURVE_N
        IN  <<e, x, (InvN[k] * (e + x * d)) % CURVE_N>>
      signed == {Signed(e, k) : e \in {0, 3, CURVE_N, 511}, k \in 1 .. CURVE_N - 1}
  IN  signed \cup {<<q[1], q[2] + 1, q[3]>> : q \in signed}
        \cup {<<3, q, 8>> : q \in {0, CURVE_N, 511}}
        \cup {<<3, 8, q>> : q \in {0, CURVE_N, 511}}

\* Every hash of up to five bytes.
MCHashBytes == UNION {[1 .. n -> 0 .. BYTE - 1] : n \in 1 .. 5}

\* A message with the padding of FIPS 180-4, in blocks.
MCBlocks(bytes) ==
  LET len == Len(bytes)
      zeros == (55 - len) % 64
      padded == bytes \o <<128>> \o [n \in 1 .. zeros + 6 |-> 0]
                  \o <<(8 * len) \div 256, (8 * len) % 256>>
  IN  [n \in 1 .. Len(padded) \div 64 |-> SubSeq(padded, 64 * n - 63, 64 * n)]

\* The examples of the standard: nothing, "abc", and
\* "abcdbcdecdefdefgefghfghighijhijkijkljklmklmnlmnomnopnopq", two blocks.
MCHashed == {
  [blocks |-> MCBlocks(<< >>), digest |->
    <<\he3, \hb0, \hc4, \h42, \h98, \hfc, \h1c, \h14, \h9a, \hfb, \hf4, \hc8,
      \h99, \h6f, \hb9, \h24, \h27, \hae, \h41, \he4, \h64, \h9b, \h93, \h4c,
      \ha4, \h95, \h99, \h1b, \h78, \h52, \hb8, \h55>>],
  [blocks |-> MCBlocks(<<97, 98, 99>>), digest |->
    <<\hba, \h78, \h16, \hbf, \h8f, \h01, \hcf, \hea, \h41, \h41, \h40, \hde,
      \h5d, \hae, \h22, \h23, \hb0, \h03, \h61, \ha3, \h96, \h17, \h7a, \h9c,
      \hb4, \h10, \hff, \h61, \hf2, \h00, \h15, \had>>],
  [blocks |-> MCBlocks([n \in 1 .. 56 |-> 97 + ((n - 1) \div 4) + ((n - 1) % 4)]), digest |->
    <<\h24, \h8d, \h6a, \h61, \hd2, \h06, \h38, \hb8, \he5, \hc0, \h26, \h93,
      \h0c, \h3e, \h60, \h39, \ha3, \h3c, \he4, \h59, \h64, \hff, \h21, \h67,
      \hf6, \hec, \hed, \hd4, \h19, \hdb, \h06, \hc1>>]}

MCKeys == 0 .. CURVE_N - 1

MCCompressed == (2 .. 3) \X (0 .. LIMIT - 1)

\* No points of the curve, as far as they have it with one coordinate.
MCUncompressed ==
  {<<0, 0>>, <<CURVE_P, 0>>, <<3, 176 + CURVE_P>>}
    \cup {<<p[1], p[2] + 1>> : p \in CurvePoints}

-----------------------------------------------------------------------------

PatchOff == btld_offset = 0 /\ out = GotoLine(GotoInstr(0))

MultOff ==
  /\ left = << >> /\ right = << >> /\ mod = 1 /\ mpc = "off"
  /\ product = << >> /\ multiple = << >> /\ shift = 0
  /\ result = << >> /\ carry = 0

InvOff ==
  /\ input = 0 /\ imod = 1 /\ a = 0 /\ b = 0 /\ u = 0 /\ v = 0
  /\ inverse = 0 /\ running = FALSE

EcOff ==
  /\ epc = "off" /\ secret = 0 /\ hash = 0 /\ r = 0 /\ s = 0 /\ u1 = 0 /\ u2 = 0
  /\ sum = << >> /\ point = << >> /\ z = 1 /\ i = 0

WordsOff ==
  /\ blocks = <<"off">> /\ digest = << >> /\ state = << >> /\ schedule = << >>
  /\ vars8 = <<"off">> /\ round = 65

BitsOff == bpc = "off" /\ curve_n = 1 /\ bits = << >> /\ native = << >>

KeyOff ==
  /\ kpc = "off" /\ private_key = 0 /\ tries = 0 /\ initial_Z = 1 /\ scalar = 0
  /\ R = << >> /\ bit = 0 /\ public_key = << >>

PointOff ==
  /\ ppc = "off" /\ compressed = << >> /\ key = << >> /\ valid = FALSE
  /\ again = << >>

allVars ==
  <<patchVars, wordsVars, multVars, invVars, bitsVars, ecVars, keyVars, pointVars>>

\* One of them begins.
MCInit ==
  \E one \in 1 .. 8 :
    /\ IF one = 1 THEN PatchInit ELSE PatchOff
    /\ IF one = 2 THEN WordsInit ELSE WordsOff
    /\ IF one = 3 THEN MultInit ELSE MultOff
    /\ IF one = 4 THEN InvInit ELSE InvOff
    /\ IF one = 5 THEN BitsInit ELSE BitsOff
    /\ IF one = 6 THEN EcInit ELSE EcOff
    /\ IF one = 7 THEN KeyInit ELSE KeyOff
    /\ IF one = 8 THEN PointInit ELSE PointOff

Others1 == <<wordsVars, multVars, invVars, bitsVars, ecVars, keyVars, pointVars>>
Others2 == <<patchVars, multVars, invVars, bitsVars, ecVars, keyVars, pointVars>>
Others3 == <<patchVars, wordsVars, invVars, bitsVars, ecVars, keyVars, pointVars>>
Others4 == <<patchVars, wordsVars, multVars, bitsVars, ecVars, keyVars, pointVars>>
Others5 == <<patchVars, wordsVars, multVars, invVars, ecVars, keyVars, pointVars>>
Others6 == <<patchVars, wordsVars, multVars, invVars, bitsVars, keyVars, pointVars>>
Others7 == <<patchVars, wordsVars, multVars, invVars, bitsVars, ecVars, pointVars>>
Others8 == <<patchVars, wordsVars, multVars, invVars, bitsVars, ecVars, keyVars>>

MCNext ==
  \/ Patch /\ UNCHANGED Others1
  \/ WordsNext /\ UNCHANGED Others2
  \/ MultNext /\ UNCHANGED Others3
  \/ InvNext /\ UNCHANGED Others4
  \/ BitsNext /\ UNCHANGED Others5
  \/ EcNext /\ UNCHANGED Others6
  \/ KeyNext /\ UNCHANGED Others7
  \/ PointNext /\ UNCHANGED Others8

\* A computation that has begun goes on.
MCSpec ==
  MCInit /\ [][MCNext]_allVars /\ WF_invVars(InvNext /\ UNCHANGED Others4)
=============================================================================
