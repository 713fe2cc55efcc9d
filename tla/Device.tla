------------------------------- MODULE Device -------------------------------
(***************************************************************************)
(* main() of bootloader/main.c on the bytes of the program memory: sessions *)
(* of message_handle(), each after an erase_flash(), and after any of them  *)
(* a boot without a handshake, in which signature_valid() hashes what is    *)
(* there.  The host may send any message in any order: module Transfer has  *)
(* what the tool sends, Bootloader the decision that follows the hash.      *)
(***************************************************************************)
EXTENDS MessageHandle, SignatureValid, Sha256

CONSTANT Memories   \* what earlier sessions may have left in the memory

ASSUME MemoriesAssumption == Memories \subseteq [Addr -> Byte]

VARIABLE ctx   \* the SHA256_CTX of signature_valid()

deviceVars == <<handleVars, verifyVars, ctx>>

\* signature_valid() is not running.
Off ==
  /\ step' = "off" /\ siz' = 0 /\ addr' = 0 /\ hashed' = << >>
  /\ ctx' = sha256_init

\* A session begins, or has ended.
DeviceInit ==
  /\ \/ HandleInit
     \/ /\ flash \in Memories
        /\ status = "STATUS_FLASHING_DONE"
        /\ request \in {r \in Requests : r.op = "X"}
  /\ step = "off" /\ siz = 0 /\ addr = 0 /\ hashed = << >>
  /\ ctx = sha256_init

-----------------------------------------------------------------------------

\* fw_receive() has got a message.
Receive ==
  /\ step = "off"
  /\ HandleRequest
  /\ UNCHANGED <<verifyVars, ctx>>

\* After a reset uart_expect_msg() times out ...
ExpectTimeout ==
  /\ step = "off" /\ status # "STATUS_NO_ERR"
  /\ step' = "size"
  /\ UNCHANGED <<handleVars, siz, addr, hashed, ctx>>

\* What signature_valid() reads goes to sha256_update(), and the last of it to
\* sha256_final().
Hash ==
  LET fed == SubSeq(hashed', Len(hashed) + 1, Len(hashed'))
      updated == sha256_update(ctx, fed)
  IN  ctx' = IF step' = "verify" THEN sha256_final(updated) ELSE updated

Verify == VerifyNext /\ Hash /\ UNCHANGED <<status, request>>

\* ... uECC_verify() refuses, or the user code runs until the next reset ...
Restart ==
  /\ step = "verify"
  /\ Off
  /\ UNCHANGED handleVars

\* ... or the handshake comes.
Accept ==
  /\ step = "off"
  /\ NewSession
  /\ UNCHANGED <<verifyVars, ctx>>

DeviceNext == Receive \/ ExpectTimeout \/ Verify \/ Restart \/ Accept

\* Nothing interrupts signature_valid(); messages need not come.
DeviceSpec ==
  DeviceInit /\ [][DeviceNext]_deviceVars /\ WF_validVars(VerifyNext)

-----------------------------------------------------------------------------

(***************************************************************************)
(* What SHA-256 has compressed is the padded message of the standard, for  *)
(* an image of any size: where the mark or the length do not fit in the    *)
(* last block of the image, too (sha256.c:85-144).                         *)
(***************************************************************************)
HashesAsStandard ==
  step = "verify" => ctx.transformed = BlocksOf(Sha256Message(hashed))
=============================================================================
