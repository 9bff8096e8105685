\* An account that sends two transactions and whose state is fetched at any
\* time, two other instances that may be asked for their status, two faults.
SPECIFICATION FairSpec
CONSTANTS
  Instances = {"i1", "i2", "i3"}
  Chains = {"main", "side", "zero", "damaged"}
  ChainOf <- MCChainOf
  ZeroLead = {"zero"}
  Accounts = {"a1"}
  Home <- MCHome
  FirstNonce = 1
  MaxTxs = 2
  MaxFaults = 2
INVARIANTS
  TypeOK
  NoncesDiffer
  NonceIsFresh
  NoGaps
  RightChain
PROPERTY AllMined
