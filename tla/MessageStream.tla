--------------------------- MODULE MessageStream ---------------------------
(***************************************************************************)
(* What the handlers of a request are promised of its transfer, whatever   *)
(* way curl cuts the bytes: they are handed the messages the node sent,    *)
(* each whole, each once, in order, until the request fails.               *)
(*                                                                         *)
(* A byte is named by its position in the stream.  A stream is given by    *)
(* the positions its messages end at, so a message is the sequence of the  *)
(* positions after the end of the one before.                              *)
(***************************************************************************)
EXTENDS Naturals, Sequences

CONSTANT Streams     \* the streams a node may send

VARIABLES
  sent,    \* where the messages of this transfer end
  handed,  \* the messages the handler of the request was called with
  failed   \* whether the request was given an error instead

vars == <<sent, handed, failed>>

Start(i) == IF i = 1 THEN 0 ELSE sent[i - 1]

Message(i) == [k \in 1 .. sent[i] - Start(i) |-> Start(i) + k]

Init ==
  /\ sent \in Streams
  /\ handed = << >>
  /\ failed = FALSE

Hand ==
  /\ ~failed
  /\ Len(handed) < Len(sent)
  /\ handed' = Append(handed, Message(Len(handed) + 1))
  /\ UNCHANGED <<sent, failed>>

Fail ==
  /\ ~failed
  /\ failed' = TRUE
  /\ UNCHANGED <<sent, handed>>

Next == Hand \/ Fail

Spec == Init /\ [][Next]_vars
=============================================================================
