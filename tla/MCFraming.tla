----------------------------- MODULE MCFraming -----------------------------
(* Streams of one to three messages with contents of 0 to 2 bytes: with    *)
(* two values a byte of the size field, a message of 8 bytes is one of     *)
(* 2 GiB.                                                                  *)
EXTENDS Framing

Contents == {<<2>>, <<0, 1>>, <<1, 0>>, <<2, 1>>, <<0, 0, 0>>}

\* The ends of the messages of a stream with these contents.
EndsOf(c) ==
  LET end[i \in 0 .. Len(c)] ==
        IF i = 0 THEN 0 ELSE end[i - 1] + Prefix + c[i]
  IN [i \in 1 .. Len(c) |-> end[i]]

MCStreams == {EndsOf(c) : c \in Contents}
=============================================================================
