---------------------------- MODULE Sha256Words ----------------------------
(***************************************************************************)
(* sha256_transform() of sha256/sha256.c: what the blocks that module      *)
(* Sha256 hands on do to the state.  A word is the set of its bits that    *)
(* are 1, from 0 to 31.                                                    *)
(***************************************************************************)
EXTENDS Numbers, Sequences

LOCAL INSTANCE FiniteSetsExt

LOCAL INSTANCE SequencesExt

CONSTANT Hashed   \* padded messages, as blocks of 64 bytes, and their digests

ASSUME HashedAssumption ==
  \A h \in Hashed :
    \A n \in 1 .. Len(h.blocks) : h.blocks[n] \in [1 .. 64 -> 0 .. 255]

VARIABLES
  blocks,   \* blocks still to be transformed
  digest,   \* what the standard wants in the end
  state,    \* the eight words of SHA256_CTX
  schedule, \* m[]: the words of the block and those made of them
  vars8,    \* a, b, c, d, e, f, g, h
  round     \* rounds done

wordsVars == <<blocks, digest, state, schedule, vars8, round>>

-----------------------------------------------------------------------------
(* Words.                                                                  *)

\* The word with these halves, of 16 bits each.
WordOf(halves) ==
  {n \in 0 .. 31 : TestBit(halves[2 - (n \div 16)], n % 16)}

ROTRIGHT(x, n) == {(j - n) % 32 : j \in x}

ShiftRight(x, n) == {j - n : j \in x \cap n .. 31}

Xor(x, y) == (x \ y) \cup (y \ x)

\* x + y modulo 2^32: the bits that get an odd number of ones.
Add(x, y) ==
  LET carry(n) == \E j \in x \cap y : j < n /\ j + 1 .. n - 1 \subseteq x \cup y
  IN  {n \in 0 .. 31 : n \in Xor(x, y) <=> ~carry(n)}

CH(x, y, z) == Xor(x \cap y, z \ x)

MAJ(x, y, z) == Xor(Xor(x \cap y, x \cap z), y \cap z)

EP0(x) == Xor(Xor(ROTRIGHT(x, 2), ROTRIGHT(x, 13)), ROTRIGHT(x, 22))

EP1(x) == Xor(Xor(ROTRIGHT(x, 6), ROTRIGHT(x, 11)), ROTRIGHT(x, 25))

\* Mutant: a rotation where the last term is a shift.
SIG0Rotated(x) == Xor(Xor(ROTRIGHT(x, 7), ROTRIGHT(x, 18)), ROTRIGHT(x, 3))

SIG0(x) == Xor(Xor(ROTRIGHT(x, 7), ROTRIGHT(x, 18)), ShiftRight(x, 3))

SIG1(x) == Xor(Xor(ROTRIGHT(x, 17), ROTRIGHT(x, 19)), ShiftRight(x, 10))

RoundConstants == <<
    <<\h428a, \h2f98>>, <<\h7137, \h4491>>, <<\hb5c0, \hfbcf>>, <<\he9b5, \hdba5>>,
    <<\h3956, \hc25b>>, <<\h59f1, \h11f1>>, <<\h923f, \h82a4>>, <<\hab1c, \h5ed5>>,
    <<\hd807, \haa98>>, <<\h1283, \h5b01>>, <<\h2431, \h85be>>, <<\h550c, \h7dc3>>,
    <<\h72be, \h5d74>>, <<\h80de, \hb1fe>>, <<\h9bdc, \h06a7>>, <<\hc19b, \hf174>>,
    <<\he49b, \h69c1>>, <<\hefbe, \h4786>>, <<\h0fc1, \h9dc6>>, <<\h240c, \ha1cc>>,
    <<\h2de9, \h2c6f>>, <<\h4a74, \h84aa>>, <<\h5cb0, \ha9dc>>, <<\h76f9, \h88da>>,
    <<\h983e, \h5152>>, <<\ha831, \hc66d>>, <<\hb003, \h27c8>>, <<\hbf59, \h7fc7>>,
    <<\hc6e0, \h0bf3>>, <<\hd5a7, \h9147>>, <<\h06ca, \h6351>>, <<\h1429, \h2967>>,
    <<\h27b7, \h0a85>>, <<\h2e1b, \h2138>>, <<\h4d2c, \h6dfc>>, <<\h5338, \h0d13>>,
    <<\h650a, \h7354>>, <<\h766a, \h0abb>>, <<\h81c2, \hc92e>>, <<\h9272, \h2c85>>,
    <<\ha2bf, \he8a1>>, <<\ha81a, \h664b>>, <<\hc24b, \h8b70>>, <<\hc76c, \h51a3>>,
    <<\hd192, \he819>>, <<\hd699, \h0624>>, <<\hf40e, \h3585>>, <<\h106a, \ha070>>,
    <<\h19a4, \hc116>>, <<\h1e37, \h6c08>>, <<\h2748, \h774c>>, <<\h34b0, \hbcb5>>,
    <<\h391c, \h0cb3>>, <<\h4ed8, \haa4a>>, <<\h5b9c, \hca4f>>, <<\h682e, \h6ff3>>,
    <<\h748f, \h82ee>>, <<\h78a5, \h636f>>, <<\h84c8, \h7814>>, <<\h8cc7, \h0208>>,
    <<\h90be, \hfffa>>, <<\ha450, \h6ceb>>, <<\hbef9, \ha3f7>>, <<\hc671, \h78f2>>>>

InitialState == <<
    <<\h6a09, \he667>>, <<\hbb67, \hae85>>, <<\h3c6e, \hf372>>, <<\ha54f, \hf53a>>,
    <<\h510e, \h527f>>, <<\h9b05, \h688c>>, <<\h1f83, \hd9ab>>, <<\h5be0, \hcd19>>>>

-----------------------------------------------------------------------------

WordsInit ==
  /\ \E h \in Hashed : blocks = h.blocks /\ digest = h.digest
  /\ state = [n \in 1 .. 8 |-> WordOf(InitialState[n])]
  /\ schedule = << >> /\ vars8 = << >> /\ round = 0

\* Sixteen words from the bytes, the highest first, and 48 from those before.
ScheduleOf(data) ==
  LET first == [n \in 1 .. 16 |-> WordOf(<<256 * data[4 * n - 3] + data[4 * n - 2],
                                          256 * data[4 * n - 1] + data[4 * n]>>)]
      Extend(w, n) ==
        Append(w, Add(Add(SIG1(w[n - 2]), w[n - 7]), Add(SIG0(w[n - 15]), w[n - 16])))
  IN  FoldLeft(Extend, first, [n \in 1 .. 48 |-> n + 16])

BeginBlock ==
  /\ blocks # << >> /\ vars8 = << >>
  /\ schedule' = ScheduleOf(Head(blocks))
  /\ vars8' = state
  /\ UNCHANGED <<blocks, digest, state, round>>

Round ==
  /\ vars8 # << >> /\ round < 64
  /\ LET a == vars8[1]
         e == vars8[5]
         t1 == Add(Add(Add(vars8[8], EP1(e)), CH(e, vars8[6], vars8[7])),
                   Add(WordOf(RoundConstants[round + 1]), schedule[round + 1]))
         t2 == Add(EP0(a), MAJ(a, vars8[2], vars8[3]))
     IN  vars8' = <<Add(t1, t2), a, vars8[2], vars8[3],
                    Add(vars8[4], t1), e, vars8[6], vars8[7]>>
  /\ round' = round + 1
  /\ UNCHANGED <<blocks, digest, state, schedule>>

EndBlock ==
  /\ round = 64
  /\ state' = [n \in 1 .. 8 |-> Add(state[n], vars8[n])]
  /\ blocks' = Tail(blocks) /\ schedule' = << >> /\ vars8' = << >> /\ round' = 0
  /\ UNCHANGED digest

WordsNext == BeginBlock \/ Round \/ EndBlock

WordsSpec == WordsInit /\ [][WordsNext]_wordsVars

-----------------------------------------------------------------------------

\* hash[]: the bytes of every word, the highest first.
Digest ==
  [n \in 1 .. 32 |->
     LET low == 24 - 8 * ((n - 1) % 4) IN
       MapThenSumSet(LAMBDA j : 2^(j - low),
                     state[(n - 1) \div 4 + 1] \cap low .. low + 7)]

(***************************************************************************)
(* The digests are those of FIPS 180-4: constants, rotations, the order of *)
(* bytes and the state that one block leaves to the next (sha256.c:20-97,  *)
(* 145-157).                                                               *)
(***************************************************************************)
DigestsStandard == blocks = << >> => Digest = digest
=============================================================================
