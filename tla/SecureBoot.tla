----------------------------- MODULE SecureBoot -----------------------------
(***************************************************************************)
(* What the bootloader promises (README.md:63-82 and 286-308), with        *)
(* nothing of how: an image is installed as a whole or not at all, the     *)
(* device runs the installed image or no user code, and an image gives way *)
(* to another one only through a state with none.  It promises so only as  *)
(* long as nobody takes the reset vector away from it.                     *)
(***************************************************************************)
CONSTANTS
  Images,  \* the images the owner of the key has signed
  NoImage  \* not one of them

VARIABLES
  stored,  \* the installed image, or NoImage
  running, \* the image in execution, or NoImage
  broken   \* the reset vector may be gone: nothing is promised any more

abstractVars == <<stored, running, broken>>

SecureInit == stored = NoImage /\ running = NoImage /\ broken = FALSE

\* A flashing session erases what is there; a broken one spoils it.
Forget ==
  /\ running = NoImage
  /\ stored' = NoImage
  /\ UNCHANGED <<running, broken>>

Install ==
  /\ running = NoImage /\ stored = NoImage
  /\ stored' \in Images
  /\ UNCHANGED <<running, broken>>

Run ==
  /\ running = NoImage /\ stored # NoImage
  /\ running' = stored
  /\ UNCHANGED <<stored, broken>>

Stop ==
  /\ running' = NoImage
  /\ UNCHANGED <<stored, broken>>

\* The vector is harmed while the bootloader is at work.
Break ==
  /\ running = NoImage
  /\ broken' = TRUE
  /\ UNCHANGED running

\* A device with a harmed vector runs what it finds.
Stray == broken /\ UNCHANGED broken

SecureNext == Forget \/ Install \/ Run \/ Stop \/ Break \/ Stray

SecureSpec == SecureInit /\ [][SecureNext]_abstractVars
=============================================================================
