# PIC18 secure bootloader: specifications, model checking and proofs

This directory holds TLA+ specifications of the bootloader in `bootloader/` and
of its flashing tool `host/btld.py`, the TLC configurations that check them on
small instances, and TLAPS proofs of the main results for every size. Paths and
line numbers are those of the repository.

Run a configuration with `tlc -config MCx.cfg M` (section 4 has the pairs) and
check the proofs with `tlapm M_proofs.tla`. All files are plain TLA+ and use the
community modules and the TLAPS library only.

## 1. The system

After a reset `main()` (main.c:271) polls the UART for the handshake `@BTL\n`.
If it does not come within 60000 polls, `signature_valid()` hashes the user code
in flash and verifies the stored signature: the device jumps to the user code
(`goto 4`) or resets and starts over. If the handshake comes, `erase_flash()`
erases everything below the bootloader - the block with the reset vector
included - the MCU answers `@OK\n`, and `fw_receive()` stores what the tool sends
until a stop message or an error; each message is answered with one byte. Then
the MCU resets.

| component | source | state | operations | hard part | correct when |
|---|---|---|---|---|---|
| program memory | flash/flash.c | flash cells, holding registers, TBLPTR | `write_flash`, `read_flash`, `flash_erase_blk` | programming only clears bits; holding registers belong to one block and keep what they have | exactly the buffer is programmed, a prefix of it after a power cut |
| `erase_flash` | flash/flash.c:98-113 | loop counter, RAM copy of the vector, copy in block 1 | erase all blocks, keep the vector | power may fail between any two flash operations | every reset finds the bootloader; nothing of the old image is left |
| UART | uart/uart.c, uart.h | receiver on/off, two-byte FIFO, OERR | `uart_get_byte`, `uart_expect_msg`, `uart_write_byte` | overrun, bytes lost while the receiver is off | the losses end a session, never make a wrong one run |
| handshake | uart.c:40-65, btld.py:117-128 | match index, polls left | wait for `@BTL\n`; send it and read four bytes until they are `@OK\n` | retries that overlap the erase and land in `fw_receive`; stale bytes | only the whole message erases, a repeated one is heard, the wait ends |
| framing | main.c:131-181, btld.py:38-46 | `msg[70]`, `i`, `escaped` | START/END/ESC frames, one-byte replies | resynchronisation, the end of the buffer, escapes there | a whole message is delivered as sent and answered, whatever came before |
| messages | main.c:63-129 | what earlier messages left in `msg[]` | program size, signature, data, stop | 24-bit addresses, the GOTO that moves, a payload size that is not the number of bytes | each message changes only its place; which ones can reach the vector |
| transfer | btld.py:130-204, main.c:63-129 | records, running hash and size | hex records to messages; size; signature; stop | gaps, segments that are ignored | both sides hash the same bytes, and every byte gets to its place |
| session | main.c:271-305, btld.py:107-204 | all of the above | a session from handshake to the first boot | kills in mid-message, restarts, timeouts, stale bytes | images do not mix; done means installed; a session that has begun ends |
| boot decision | main.c:183-269, 281-289 | size left, address, hash | read, hash and verify; `goto 4` or reset | sizes that no session ever stored | nothing runs but a complete signed image |
| SHA-256 | sha256/sha256.c | block, its fill, length, eight words | init, update, final, transform | images that leave no room for the length; words of 32 bits | the padded message of the standard is compressed, as in its examples |
| ECDSA | uECC/uECC.c, curve-specific.inc | words | bytes to words, reduction, inversion, Shamir's trick | carries; exceptional points; hashes at or above the order | the verdict is that of ECDSA |
| public keys | uECC/uECC.c | two points of a ladder; an uncompressed key | compute, compress, decompress, validate | not called by main.c; exceptional keys, square roots that do not exist | the key is the multiple of the generator; only points are called valid |
| vector patch | tools/btld-patch.py, Makefile | - | puts `GOTO BTLD_OFFSET` at address 0 of the hex file | bit fields of the instruction, the checksum | the GOTO leads to the bootloader, and a programmer reads the line |
| clock and pins | mcu/, uart.c:5-15 | special function registers | initialisation | none | not modelled |

How they meet: the tool and the MCU share nothing but the serial line; the parts
of the MCU share the program memory and nothing else that survives a reset
(`msg[]` is a local variable that is not initialised). The only callbacks are
the function pointers of the curve. There are no interrupts and no tasks: what
runs concurrently is the MCU, the tool, the user who starts and kills it, and
the power.

## 2. The modules

Four levels of detail, because the interesting cases live at different ones:

    SecureBoot            what is promised: no image, or a whole signed one, runs
       |  refined by
    Bootloader            MCU + line + tool, whole messages, blocks of two cells
       |  refines and EXTENDS
    EraseFlash            erase_flash() and whatever else touches its blocks
       |
    FlashDevice           blocks: head (one instruction) and body

    ByteFlash - WriteFlash                    bytes and holding registers
        |
    Metadata - MessageHandle                  message_handle()
        |    - SignatureValid                 signature_valid()
        |    - Sha256                         sha256_update(), sha256_final()
        |         Sha256Words                   sha256_transform(), by itself
        |
    Device = MessageHandle + SignatureValid + Sha256        any messages
    Transfer = MessageHandle + SignatureValid + the tool    a hex file

    Framing, Handshake                        the serial line byte by byte
    Numbers, Vli - VliBytes, ModMult, ModInv  the words of uECC.c
    Curve - EcVerify, EcMult, EcPoint         its points: verdict, public keys
    BtldPatch                                 the build-time patch

| module | what its state is in the code | actions |
|---|---|---|
| FlashDevice | the memory below `BTLD_OFFSET` as blocks; a *head* is the first instruction of a block (the vector in block 0, its copy in block 1, the signature in the last), a *body* the rest | the primitives as operators |
| EraseFlash | `flash`, `save_goto_btld`, `curr_erase_blk` of flash.c; `pc` is the next statement of `erase_flash`, or "boot", "recv", "user"; `harm` is a history variable: a record over the vector, a cut in the window | one per flash operation; Call, ReceiveCells, StartUser, Reset; PowerCut |
| SecureBoot | the image that is stored and the one that runs; whether the vector may be gone | Install, Run, Stop, Forget, Break |
| Bootloader | `at`: where `main()` of main.c is; `status`; `deaf`: OERR; `half`: a frame left open behind an ESC; `wire`, `toHost`: the line and the input buffer of the port; `hpc`, `img`, `idx`: where `main()` of btld.py is | one per step of either `main()`, one per case of `message_handle()`; Cut, Miss, Overrun, Damage, KillTool for the environment |
| Framing | `msg`, `i`, `escaped` of main.c; `out`, `pos` for the loop of `encode_for_uart` | one per branch of `fw_receive` and of the tool's loop; LoseByte, BreakOff (killed in mid-send), GiveUp (killed while it waits) |
| Handshake | `i`, `timeout_us` of uart.c, the bytes on the line | PollEmpty, PollByte, PollLast; the tool's loop; Restart, LoseByte |
| ByteFlash, WriteFlash | program memory as bytes (sets of bits that are 1), holding registers, `TBLPTR`, `written` (`i` of the code), `addr` | LatchByte, Program, Return; PowerCut |
| Metadata | the layout of main.c:18-21, the bytes of the size | - |
| MessageHandle | `flash`, the status and the message it is for | one per outcome of `message_handle()` |
| SignatureValid | `siz`, `addr`, what was fed to SHA-256 | ReadSize, HashFirst, HashChunk, HashRest |
| Sha256Words | `state`, `m`, `a` to `h` of `sha256_transform` | BeginBlock, Round, EndBlock |
| Sha256 | `data`, `datalen`, `bitlen` of SHA256_CTX; the blocks compressed stand for `state` | operators, run by Device!Hash |
| Device | the three above in one `main()` | Receive, ExpectTimeout, Verify, Restart, Accept |
| Transfer | `addr_upper`, `ignore_next_data_rec`, `next_expect_addr`, `fw_size`, `fw_hash` of btld.py | one per record type and per reply; ReadImage |
| Numbers, Vli | powers and the number a sequence of digits stands for; words, lowest first; the carry idioms of uECC.c | operators |
| ModMult | `product`, `mod_multiple`, `shift`, `result`, `carry` | ModAdd, ModSub, one per loop round of `uECC_vli_mmod` and per step of `vli_mmod_fast_secp256k1` |
| ModInv | `a`, `b`, `u`, `v` | one per branch of the loop |
| VliBytes | the bytes of a hash and the words made of them | one per step of `bits2int` |
| Curve | the group, and the steps in Jacobian coordinates that uECC.c is built from | operators |
| EcVerify | `u1`, `u2`, `sum`, the point and `z`, the bit `i` | one per stage and per round of `uECC_verify` |
| EcMult | `scalar`, `initial_Z`, `R`, `bit` of `EccPoint_compute_public_key` | one per try of the generator and per round of the ladder |
| EcPoint | the compressed key and the key | Decompress, Validate, Compress |
| BtldPatch | the two words of the instruction, the hex digits of the line | Patch |
| MCRoutines | Handshake and WriteFlash, which share nothing, one of them in each behaviour | - |
| MC*, *_proofs | instances for TLC; theorems | |

Abstractions, by module:

- **Cells** (FlashDevice, Bootloader). What is in a cell matters only as
  "erased", "the vector", "this piece of that image" or "garbled". A GOTO to the
  bootloader in an image is not a user cell: images are user code.
- **Whole messages** (Bootloader). Framing shows that a whole message arrives as
  sent or not at all. `Damage` is any other effect a message may have
  (HandleDamaged): no frame, any status, the receiver left overrun, a frame left open
  behind an ESC, or wrong data in any cells that follow one another - the vector
  and several blocks included, for `message_handle()` accepts records at addresses 1,
  2 and 3, records that wrap at 2^24, and any `payload_size` (main.c:98-117).
- **A tool killed in mid-message** (Bootloader). Half a message is dropped at the next
  START, unless the tool was killed right behind an ESC (main.c:140): then the `@` of
  the next handshake is an escaped byte, and its `\n` completes the old frame. `half`
  remembers the operation of such a frame and HandleSpliced lets it do what
  `message_handle()` may do with it: refuse it, or program its data, a mixture of
  the old record, the handshake and what was in `msg[]` (NoiseCell). Its address is
  that of a record, or has bytes of the handshake in it; neither is below 4.
  `spliced` says until the next `erase_flash` that this has happened.
- **The CPU after a vector that was programmed over** (EraseFlash.AfterReset) jumps
  anywhere: a cell that lost bits is GARBLED, and the bootloader may run or not.
- **A signature that verifies** is a predicate in Bootloader (`Holds`): nobody
  but the owner of the key makes one, no signature is left behind when one is
  programmed over another, and it is bound to the size and the code it covers.
- **payload_size** (MessageHandle) is `count`, whatever number of bytes came with
  it: the code does not compare the two. What it programs beyond the message is
  the rest of `msg[]` and the stack behind it, one value (`JunkByte`) in the runs.
  Addresses are any of 24 bits. The sum of address and count wraps (main.c:102), and
  programming goes on at 0 behind the last address (WriteRound), as the table pointer
  does; cells that do not exist, above the program memory, are left out.
- **A denied address** (Transfer.Refused) ends the transfer. In the code the answer
  is the byte behind `mcu_errs[]` (main.c:301), which Bootloader has, with every byte it may
  be: most make the tool wait for ever, and an `F` makes it send one message more that
  nobody hears. Neither is done, and the memory is the same.
- **0xFF** reads as the empty AND: programming is intersection of sets of bits.
- **Numbers instead of words** in ModInv and in Curve and the modules on it:
  ModMult has the words, VliBytes the bytes they come from. `uECC_vli_modMult` gets any
  two numbers that fit the words, as `uECC_verify` multiplies a hash that may be at or above
  the order (uECC.c:1195); the fast product, sums and differences get reduced ones, as in the code.
  Sums that leave the words wrap at `LIMIT` in ModInv, where the code depends on it.
- **Blocks** (Sha256): two messages hash alike when the same blocks are compressed
  in the same order. Sha256Words computes what happens to one block. The two are
  not composed: a hash would tell the other modules nothing that its blocks do not.
- **The group** (Curve): `Plus` is the addition of points, for reference; the code
  never calls it. `GroupAssumption` says what the choice of a curve guarantees and
  no code checks: the order `CURVE_N` is a prime, the multiples of the generator are
  points, they differ up to the order, and Plus adds their numbers. TLC evaluates it
  on the small curve.
- **A shared Z** (EcMult): the points of the ladder share a Z that the code never
  computes, and neither does the model, until the end.

## 3. Environment, fairness and bounds of the code

- Power fails at the values of `pc` in `CutPoints`; in the runs with cuts these are all of
  them. The erase of block 0 and the restoration of the vector leave a window (`pc` =
  "restore") in which only the copy in block 1 leads to the bootloader.
- Nothing protects the vector from two events: a cut in that window followed by another
  session (finding 1), and a record programmed over it. No tool sends such a record; a
  damaged message can be one. Both are steps of the model, and what
  they lead to is, too. `harm` remembers which of them has happened ("window",
  "record"). UnharmedRunsBootloader and SecureBoot say what holds while it is empty, so
  they say that these are the only two ways; ResetRunsBootloader is the claim of
  README.md:123, which excuses records only and is violated.
- `Timely` states what the times of the code amount to: the 0.5 s of `ser.read(4)`
  is longer than erasing 64 blocks (about 0.1 s) and shorter than
  `signature_valid()` (seconds on an 8-bit MCU). Only `session_live` uses it; all
  safety is checked without.
- `WF(McuNext)`, `WF(HostNext)`: two programs that run alone on their processors
  and loop; nothing can stop either for ever but what the guards say. `WF(Miss)`:
  a message that nobody reads leaves the line with its last bit. `WF(Poll)`,
  `WF(Send)`, `WF(Receive)`, `WF(ReadReply)`, `WF(VerifyNext)`, `WF(InvNext)`: the
  same for single loops. No strong fairness, and none for users, losses or cuts.

## 4. The runs

| run | instance | shows |
|---|---|---|
| lost_vector | EraseFlash, MCLostVector.cfg: four blocks, one user cell, cuts anywhere: **violation** of ResetRunsBootloader | finding 1 |
| framing | MCFraming, MCFraming.cfg: bytes START, END, ESC and one plain, `msg[4]`, all messages of up to two bytes (these fit) and some of three to six that wrap, two losses or messages broken off; 1 129 092 states | delivery, replies in step, and with fairness an answer to every message that fits; one that does not fit is not in the way of the next, and if it wraps and looks like a frame, it does so only at its own END. Messages with both escapes fill the buffer; two faults can take an ESC and a START, or leave an ESC open twice |
| sessions | MCBootloader, MCSessions.cfg: an image of two blocks and one too big, three blocks (the vector and the user's GOTO; the copy of the vector; the metadata), three sessions, one damaged message, cuts anywhere; 1 727 733 states | `erase_flash` restarts the bootloader wherever it is cut and returns with a blank memory; no mixed images, done means installed, every reset and secure boot until the vector is harmed, erasure by refinement. Three sessions: one to leave something, one to disturb, one to succeed; the steps go on after harm, with a vector that is gone |
| session_live | MCBootloader, MCLive.cfg: two images, two sessions, `Timely`; 5 364 states | a session that has begun ends, and with its image unless the tool was started over |
| replies | MCBootloader, MCReplies.cfg: **violation** of InvalidPayloadAnswered | finding 2 |
| device | MCDevice, MCDevice.cfg: twenty bytes of two bits, addresses below 32, chunk and block of 8, records at every address, with counts above and below the number of bytes, over the vector and round the last address, all 64 stored sizes; 231 380 states | any order of messages, in any number of sessions; the hash for any size, the padding for any fill of the last block |
| small_image | MCDevice, MCSmallImage.cfg: **violation** of HashesSizeBytes | finding 3 |
| routines | MCRoutines, MCRoutines.cfg: the real handshake, 14 polls, two losses, a kill, any rest of an older message; or blocks of three, nine cells, buffers of up to seven bytes at every address, one call after another, cuts; 1 037 717 states | 14 polls leave room for a broken message and two whole ones; prefix and target of `write_flash` for every position relative to block boundaries |
| transfer | MCTransfer, MCTransfer.cfg: 38 bytes, segments of 16, some 2000 files; 58 307 states | gaps, short and missing starts, unordered and overlapping records, ignored segments, lines without a record, misfits |
| misfit | MCTransfer, MCMisfit.cfg: **violation** of RefusesOnlyMisfits | finding 4 |
| arithmetic | MCArithmetic, MCArithmetic.cfg: 512 offsets and single bits of 21; the examples of FIPS 180-4 of no, one and two blocks; three words of four bits; every number times ten others for the moduli 499, 457 and 257, and numbers at and above the modulus; every input of the inverse; every hash of up to five bytes of two bits for five orders; some 1800 right signatures and as many wrong ones for each of three keys, every private key, and every compressed key, on a curve of prime order 457 over 499; 697 634 states | the line of the patch, the compression function, the carries, the inverse, the verdict, public keys. Orders of five to nine bits leave `bits2int` both shifts, in two and in three words; like secp256k1, prime and order fill their words |
| checksum | BtldPatch, MCChecksum.cfg: **violation** of LineReadsBack | finding 5 |

Every property of a passing run has a mutant in PROJECT.json: a version of one
definition with a plausible bug in it, for which TLC finds the property violated.

### Findings

1. **lost_vector** (flash.c:102, README.md:123). A cut between flash.c:107 and
   flash.c:110 boots through the copy in block 1. The next session then reads
   `0xFFFFFFFF` at address 0 as the vector, erases the copy and programs an image:
   from then on resets slide into user code that nobody verifies.
2. **replies** (main.c:52, 301, README.md:200). `mcu_errs[]` is indexed by a status
   for which it has no entry: 'I' when flashing is done, 'A' for an invalid
   payload, the byte behind the array for a denied address.
3. **small_image** (main.c:209, README.md:80). An image below 64 bytes makes the
   24-bit size wrap: 16 MB are hashed, and the image is not accepted.
4. **misfit** (main.c:102, README.md:133, 200). A record that ends exactly at
   `SIGNAT_OFFSET` is refused as an overwrite of the metadata (`>=`), though its last
   byte lies below.
5. **checksum** (btld-patch.py:28, README.md:147). For a line whose bytes add up to a
   multiple of 256 the checksum is 256 and is printed as `100`: one digit too many, so
   no programmer reads the patched file. The offset 0x3A00 is one of those;
   ReadBackTheorem says which they are.

### Observations without a run of their own

- A record of 64 bytes or more fills `msg[70]` up to its START (main.c:151, 176),
  and the tool waits for a reply that README.md:194 promises. With the record
  lengths of the usual linkers it does not happen. Run framing has such messages:
  what one leaves behind does not reach the next.
- `payload_size` is believed (main.c:98): a record that claims more bytes than it
  has programs what is behind them. EachToItsPlace says that this too stays in
  the place the record names.
- A record at address 1, 2 or 3 is programmed over the reset vector (main.c:98-117), and
  so is one near 2^24 whose end wraps to a small number (main.c:102). README.md:133
  forbids neither, and the tool and a linker make none: EachToItsPlace names exactly these
  messages, and UnharmedRunsBootloader and KeepsPromise end with them.
- A tool killed right behind an ESC leaves a frame that the next handshake completes
  (main.c:140). What is programmed then is of no image. It cannot run: nothing but a
  complete image verifies. NoMixedImages names the exception; the tool that is started
  over gets an answer it does not know, and repeats its handshake until the reset.
- uart.c:58 does not try a byte that does not match as the first of the message:
  a handshake behind a stale `@` is missed (README.md:214). SecondHandshakeHeard
  shows that the tool's repetition makes up for it.
- README.md:187 gives the code size as little-endian; btld.py:74 and main.c:201
  agree on the highest byte first.
- The tool's bytes 4 to 7 of an image have to be 0xFF (main.c:108 has a TODO):
  the MCU hashes 0xFF there whatever the file has.
- curve-specific.inc:1171-1177: when a carry comes with a remainder that has the
  prime in it, the product is not reduced (uECC_vli.h:106 says it is). CarryLost
  is exactly that case, and TLC shows that there is no other; on the real curve it
  is fewer than one product in 2^380.
- `uECC_verify` has no case for sums of equal points: `z` becomes 0 and the
  signature is rejected, a valid one too, against uECC.h:202. No check keeps a signer
  from it: with the nonce 2, whenever u1 is odd and u2 even, the last sum is G + G. For a
  nonce drawn at random it does not happen. VerdictRight has it as the one exception, and on
  the small curve TLC meets it often. A key that is plus or minus the generator is
  excluded by an assumption.
- Public keys: main.c calls none of `EccPoint_compute_public_key`, `uECC_compress`,
  `uECC_decompress` and `uECC_valid_public_key`. They are modelled as a part of the library in the
  repository, and nothing that the device does depends on them.
- `EccPoint_compute_public_key` (uECC.c:883) refuses the private keys 1, n - 2 and
  n - 1, for which the ladder meets infinity or opposite points (PublicKeyRight).
- `uECC_decompress` (uECC.c:1044) makes a key of an x that has no point; only
  `uECC_valid_public_key` tells (PointsChecked).
- `bits2int` (uECC.c:1122) does not reduce a hash that has no more bits than the
  order (Bits2IntRight); `uECC_verify` multiplies it modulo the order, which reduces it
  (ReducedResult takes such factors, VerdictRight such hashes). With the 32 bytes
  of SHA-256 and the order of secp256k1, its shift is never taken on the device.

## 5. The proofs

Eight modules, checked by TLAPS for every value of the constants under the named
assumptions of the modules. TLC checks those assumptions on the instances above.

- **Bootloader_proofs, erase_flash().** `EraseInv` = types, `VectorKept` (where a
  good copy of the vector is at each `pc`) and `BlankSoFar` (what is erased
  already). From it CutTheorem and BlankTheorem. UnharmedRunsBootloader is not
  inductive: a bad vector in RAM is invisible in the flash. `VectorThere` adds that
  while `harm` is empty the vector is in the flash, or in RAM and in block 1 inside the
  window. Nothing is assumed of cuts or of records: VectorTheorem holds for all of them.
- **Bootloader_proofs, the composition.** Every step is a step of EraseFlash or
  leaves its variables alone (StepsErase), with damage on any cells, so
  EraseFlashImplemented, and ResetTheorem follows from VectorTheorem. `BootInv` = types,
  what the tool waits for, and BlankSoFar; with `RunsInstalled` (unharmed, user code runs
  only when SignatureValid) PromiseTheorem shows that Bootloader refines SecureBoot. The
  key lemma (SignatureStep) says that a signature comes to be only by programming
  it into an erased cell, so no step turns one signed image into another; it holds of
  every step, also after harm, when SecureBoot promises nothing more.
- **Bootloader_proofs, a session.** DoneMeansInstalled speaks of the end of a
  session only. `FollowsSession` is what has to be true before: while nothing has
  damaged a message, the place of the MCU, the message on the line and the replies in
  the buffer of the port tell how many messages of the tool's image the memory has
  (`Received`), and a final reply `F` can be in the buffer only when it has them
  all. The hard cases are replies of an earlier session still in the buffer, a
  handshake sent twice, and a tool that was killed and started over while the MCU
  is erasing or holds a frame that ends in an ESC (`HalfHeard`: whoever waits for an
  answer to a message has had one to his handshake first, so no such frame is left).
  SessionStep has one step per action; DoneTheorem follows at the last reply.
  UnmixedTheorem needs `VectorPlain` and `NeverMixed` beside it: a record is programmed
  only into what the erasure of the same session left blank, but for the frame that a
  handshake has completed (`spliced`).
  TLC had checked FollowsSession and NeverMixed on the 1 727 733 states of run sessions.
- **Framing_proofs.** `FramingInv` follows the frame through the line: while the
  current message is clean, what is in `msg[]` is the part already received
  (`InTransit`), and START has reset the index whatever was there before. From it
  DeliveryTheorem for any buffer and any messages: one that fits is delivered
  whatever losses, over-long and broken-off messages came before it.
  `InStep` (where the byte, the END and the reply can be) gives AnswersTheorem on
  a line on which nothing is lost or broken off.
- **Handshake_proofs.** The loop does not try the byte that ends a partial match as
  the first of the next (uart.c:58), so its index is less than what the bytes
  allow. `Sound`: the last `i` bytes are the first `i` of the message. `Complete`:
  where `k` bytes of it have come although `i` is not `k`, a piece of another
  message came right before them. AcceptTheorem needs the first, SecondTheorem the
  second: a second message directly behind the first has no such piece before it.
  Both for any message whose first byte does not come again in it, any stale bytes,
  any timeout.
- **Device_proofs, the memory.** PlaceTheorem is about any messages: any address of 24 bits,
  any count, whatever bytes come with it. CheckPassed says what main.c:102 lets through - a
  record that ends below the metadata, or one from above the memory that ends there after
  the wrap - and RoundOutside where programming goes then. So nothing but the messages
  for them changes size and signature, and the vector is changed only by records that begin
  at 1, 2 or 3 or wrap. `ValidInv` ties `siz + addr` to the stored size and `hashed` to the
  image up to `addr`: HashTheorem for every memory and size of a chunk or more. The
  module also has Smallest and Induction over Nat, stated about a *set* of numbers and
  derived from WFMin of WellFoundedInduction: in this form the provers can use
  it, and the next modules do.
- **Device_proofs, the hash.** `Feeds` says of a context of SHA-256 which bytes it has been
  fed: whole blocks in order and a rest in `data`. It is kept by every byte, by
  Induction along the chunk. ShortEnd and LongEnd are the two ways in which
  `sha256_final` closes the last block, with the length in it or in one of its own.
  With ValidInv: StandardTheorem for every image, block, chunk and length field;
  DeviceHashesImage after any sessions of any messages.
- **Transfer_proofs.** The tool, `message_handle()` and `signature_valid()` in one.
  `TransferInv`: what the tool believes of the segment is what the file says
  (Segment, Induction along the file); the message in flight is the last record, the
  size, the signature or the end (InFlight), and what the MCU answers is known
  (Answers); ValidInv, as before. For a well-formed file, `HashOrdered`: all
  records read have been hashed at their addresses and the hash ends where the last
  one does; `Installed`: the memory is the mirror of the hash (`Mirrors`: the GOTO at
  4, nothing else there, ERASED behind), or the mirror of a shorter one that
  the fill and the record under way continue (`Continues`), and the stored size is
  that of the hash. TLC had checked this invariant on all 58 307 states of the run.
  RefusalTheorem follows from Answers for every file: what is refused is empty or reaches
  `SIGNAT_OFFSET` (with finding 4, where it ends exactly there). InstallTheorem - every byte
  in its place, the rest of the user code blank, the size and the signature - follows from the
  mirror, and AgreeTheorem from the mirror and HashTheorem: a memory that mirrors
  the hash is hashed to it again.
- **WriteFlash_proofs.** `Start` is where the current block or the buffer begins,
  whichever is later. `InLoop`, the invariant: the registers hold the bytes from
  Start to the table pointer and 0xFF elsewhere (LatchesHold), the memory those
  before Start. It is needed because neither property mentions the registers.
  ProgrammedBytes, from quotients and remainders of a symbolic block size, says
  that programming the block touches the latched bytes only, even when it is torn.
  PrefixTheorem and TargetTheorem follow for every block size, buffer and place.
- **Words_proofs.** The words of ModMult for any size and number of them, up to as
  many words as a word has values (uECC.c keeps a sum of that many carries in a word).
  NumberOf says what number the words stand for, as a recursive function; its laws
  (NumberConcat, NumberScale, NumbersSum) and those of Power come from Induction. From
  them one lemma for each operation of uECC.c that ModMult uses: what `vli_add`,
  `vli_sub`, `mult`, `rshift1` and the fold by `omega_mult` leave in the words and in the
  carry. `MultInv` follows the two reductions: in `uECC_vli_mmod`, that the number
  under reduction is the product up to a multiple of the modulus and less than twice
  the shifted modulus (`Subtracting`); in `vli_mmod_fast_secp256k1`, that it is the
  product up to the prime after each fold (`FoldedOnce`, `Reducing`), with the carry that
  is lost. ReducedResult says nothing before the result, so it is not inductive by
  itself. ResultReduced: sum, difference and fast product of reduced numbers and `uECC_vli_modMult` of
  any are right, and CarryLost is the one exception. TLC had checked MultInv on 159 488 states,
  with words of three bits and unreduced factors.
- **Arithmetic_proofs, patch and inverse.** GotoTheorem computes the
  line of the patch for every even offset of 21 bits; ReadBackTheorem says that it can be read
  back except where its bytes add up to a multiple of 256 (finding 5). InverseTheorem is about the loop
  of `uECC_vli_modInv` for every prime modulus above 2, any size of the words and every
  input: `u * input` and `v * input` are `a` and `b` up to the modulus, what
  divides `a` and `b` divides the input and the modulus, and the carry of a sum is
  there again when it is halved (uECC.c:676, 724). The prime has no divisor in
  common with the input, so the loop can only end at 1.
- **Arithmetic_proofs, the verdict.** Congruence modulo the prime is developed first
  (a product is 0 only when a factor is, what is not 0 can be cancelled, InvP
  inverts). AddStands and DoubleStands say that the formulas of `XYcZ_add` and
  `double_jacobian_secp256k1` compute Plus on the points that the coordinates stand
  for. `EcInv`: u1 and u2 are the quotients, `sum` is G + Q, and in the loop the point
  with its `z` stands for the multiple of G that belongs to the bits passed, or `z` is
  0 and stays so. TracksTheSum is its last part; alone it would say nothing of u1, u2
  and `sum`. SumTracked, and VerdictProved for every key, hash and signature. TLC had
  checked EcInv on 133 785 states.
- **Arithmetic_proofs, public keys.** AddCStands does the same for `XYcZ_addC`. `KeyInv`:
  with `k` the bits of the regularised key passed so far, the two points are `k` and
  `k + 1` times G for a Z that they share; what the ladder needs in a round is that
  these, their difference and their sum are different points. Regularised keys are
  between FULL and twice FULL and the order fills its words, so only rounds on the last
  two bits can meet infinity or opposite points, and they do for the refused keys alone:
  then the coordinates of both points come to lie on the cusp `y^2 = x^3`, from which
  the last round makes `<<0, 0>>`, the code's sign of infinity. For every other key the
  factor that `1 / Z` is computed from is not 0, which needs a generator whose x
  is not 0 (MultAssumption). PublicKeyProved.
- **Arithmetic_proofs, compressed keys.** `mod_sqrt_default` is right because of Fermat's
  little theorem, which is proved here: the rows of Pascal's triangle are the digits of
  the powers of 1 + x to the base x (PascalNumber), and the prime divides its row but
  for the ends (PrimeRow). RootIsPower follows the loop over the bits of p + 1, and with
  a prime that is 3 modulo 4 (RootAssumption, the comment at curve-specific.inc:119) the
  result squared is the square again; of the two roots the parity picks the right one.
  `uECC_valid_public_key` accepts the points of the curve only, and those are the
  multiples of the generator because the curve has no others (RootAssumption). PointInv
  has what each step finds; PointsProved.
- **Arithmetic_proofs, hashes.** The digits of a number are found again by division
  (NumberCut, DigitOfNumber), whatever the base, so bytes regrouped to words are the
  words of the same number (ToNativeRight), a shift across the words divides it
  (BitsShifted) and the words have its bytes (FromNativeRight). `BitsInv` says which
  number the words hold before the shift and before the reduction, as Bits2IntRight is
  only about the result; TLC had checked it on 20 936 states. BitsProved, for any order,
  hash, byte and word: what is left after the shift is below twice the order, so
  one subtraction reduces it.

The assumptions that these proofs added are what the code provides: no message is
the sign for none (MessageAssumption); the line can hold one handshake
(`MaxWire >= Len(MSG)`); records of 16-bit addresses, extended addresses of one byte, a
memory that 24 bits can address and a signature of SIGNAT_SIZE bytes (Transfer). WellFormed says
that the record that ends a file is the last one, as every linker has it: records
behind it would never be read.

Only model-checked:

- liveness (EveryMessageAnswered, ExpectReturns, SessionSucceeds, Verifies,
  InverseEnds), which is beyond this prover;
- DigestsStandard: examples of the standard are a computation, not a theorem.

EraseTypeOK, HandshakeTypeOK, WriteTypeOK, HandleTypeOK, ValidTypeOK, RefusalTheorem and
ReadBackTheorem are the other way round: proved, and in no run.

## 6. Not modelled

- Clock and pin setup, baud rate: register writes without control flow.
- The signing of the image by the tool (btld.py:186-198): a library call, on a
  text file read before it.
- The other curves of micro-ecc, its random number generators for hosted systems,
  its assembly and its 8- and 64-bit words: not built.
- The accessors of uECC.c and its `uECC_vli_*` and `uECC_point_mult` wrappers, which
  only pass on what is modelled. The comparisons of words (`isZero`, `equal`, `cmp`) compare numbers here.
- The text of messages to the user, logging, the DEBUG output.

## 7. Plan

Modelled, in this order: EraseFlash, Framing, Bootloader and SecureBoot, then the bytes
(WriteFlash, MessageHandle, SignatureValid, Transfer), Handshake, the arithmetic;
then messages that do not fit, counts that do not match, the compression
function, bytes to words and public keys; then the proofs of sessions, handshake,
transfer, hash, patch and inverse, of the words, of the curve and of the bytes; last, records over
the vector and round the end of the addresses, and tools killed in mid-message. What is left is one
proof: `write_flash` under `message_handle()` by refinement, that WriteFlash implements
`WriteBytes` of ByteFlash, so that MessageHandle may use it.
