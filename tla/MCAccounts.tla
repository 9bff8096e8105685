----------------------------- MODULE MCAccounts -----------------------------
(* An account used with the first of three instances, on three chains.     *)
EXTENDS Accounts

MCChainOf == [i \in Instances |->
  CASE i = "i1" -> "main" [] i = "i2" -> "side" [] i = "i3" -> "zero"]
MCHome == [a \in Accounts |-> "i1"]
=============================================================================
