----------------------------- MODULE MCFraming -----------------------------
(* A small instance of Framing for TLC.                                     *)
EXTENDS Framing

\* Every message of at most n bytes.
UpTo(n) == UNION {[1 .. k -> Byte] : k \in 1 .. n}

\* The messages that fit in msg[] with their START and END; some that have one
\* byte too many, so that END comes to lie at msg[0]; and longer ones whose last
\* bytes come to lie at msg[0] and msg[1]: START there makes the rest look like
\* a frame.
MCMessages ==
  UpTo(MSG_SIZ - 2)
    \cup {[k \in 1 .. MSG_SIZ - 1 |-> IF k = MSG_SIZ - 1 THEN b ELSE c] :
            b \in Byte, c \in Plain}
    \cup {[k \in 1 .. MSG_SIZ + n |-> IF k = MSG_SIZ THEN b ELSE c] :
            n \in 0 .. 2, b \in Byte, c \in Plain}
============================================================================
