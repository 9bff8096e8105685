------------------------------ MODULE MCLedger ------------------------------
(* The public key, and transactions of one chunk and of three.  The last   *)
(* chunk of a transaction is too long for out, or it is so short that the  *)
(* command itself would pass for an answer of one packet, or of two.       *)
EXTENDS Ledger

MCJobs == {[length |-> 20,  out |-> 43,  answer |-> 35],
           [length |-> 140, out |-> 120, answer |-> 105],
           [length |-> 600, out |-> 120, answer |-> 105],
           [length |-> 514, out |-> 120, answer |-> 105]}
=============================================================================
