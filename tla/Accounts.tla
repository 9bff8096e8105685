------------------------------ MODULE Accounts ------------------------------
(***************************************************************************)
(* How libaergo numbers transactions: the nonce an aergo_account keeps,    *)
(* the chain id hash all instances share, and the calls that use them      *)
(* (aergo_transfer, aergo_call_smart_contract, aergo_multicall,            *)
(* aergo_get_account_state and aergo_get_blockchain_status in aergo.c),    *)
(* next to the node that orders transactions by nonce.                     *)
(*                                                                         *)
(* A transaction takes the next nonce before it is signed and sent, and    *)
(* nothing is taken back when that fails.  The nonce is fetched once, and  *)
(* again whenever the application asks for the state of the account.  What *)
(* a call has to fetch it fetches synchronously: other calls wait, but the *)
(* node goes on, and answers to requests an earlier call left behind after *)
(* an error of curl arrive meanwhile.                                      *)
(*                                                                         *)
(* Whether the application then waits for the receipt makes no difference  *)
(* here: transactions are sent asynchronously, which allows more orders.   *)
(***************************************************************************)
EXTENDS Naturals, Sequences, FiniteSets

CONSTANTS
  Instances,   \* the open instances
  Chains,      \* the hashes of the chains they are connected to, and others
               \* that a damaged answer may hold
  ChainOf,     \* which instance is connected to which
  ZeroLead,    \* the hashes that begin with a zero byte
  Accounts,    \* the account structs of the application
  Home,        \* the instance an account is used with
  FirstNonce,  \* the nonce the accounts have at the node when it starts
  MaxTxs,      \* bound: transactions sent
  MaxFaults    \* bound: failing calls, lost transactions, errors of curl

NoHash == "no hash"

ASSUME AccountsAssumption ==
  /\ ChainOf \in [Instances -> Chains]
  /\ ZeroLead \subseteq Chains
  /\ NoHash \notin Chains
  /\ Home \in [Accounts -> Instances]
  /\ FirstNonce \in Nat
  /\ MaxTxs \in Nat
  /\ MaxFaults \in Nat

\* aergo_account, as far as nonces depend on it; has_key is whether the public
\* key is known.
Account == [nonce: Nat, is_updated: BOOLEAN, has_key: BOOLEAN]

\* A transaction handed to curl, and how far it got; the node rejects it for
\* its nonce, or as foreign, for the hash of another chain.
Tx == [account: Accounts, nonce: Nat, hash: Chains,
       at: {"wire", "pool", "mined", "rejected", "foreign", "lost"}]

\* The call that runs: a transaction, or the two functions by themselves.  It
\* is about to fetch, or waits for the status or the state; at encode it has
\* everything a transaction needs.
Idle == [at |-> "idle"]
Call == [at: {"status"}, op: {"status"}, on: Instances]
  \cup [at: {"status", "fetch", "state", "encode"}, op: {"transact", "state"},
        on: Instances, account: Accounts]

VARIABLES
  blockchain_id_hash,  \* the global: NoHash while it is all zeros
  account,             \* the account structs
  call,                \* the call that runs, or Idle
  reply,               \* the answer to the awaited GetState: no nonce or one
  leftStatus,          \* instances with a Blockchain request no call waits for
  leftState,           \* GetState requests no call waits for, with their replies,
                       \* told apart by the number of the fault that left them
  txs,                 \* the transactions sent, in that order
  mined,               \* the node: the nonce of an account as of the last block
  heard,               \* the hashes that answers to status requests held
  gaps,                \* accounts that lost a nonce: to a failed call, or a
                       \* transaction that was lost or foreign
  overlapped,          \* accounts whose state was asked for while transactions
                       \* of theirs were under way
  late,                \* accounts with a GetState that outlived its call
  faults               \* how many faults happened

vars == <<blockchain_id_hash, account, call, reply, leftStatus, leftState, txs,
          mined, heard, gaps, overlapped, late, faults>>

Init ==
  /\ blockchain_id_hash = NoHash
  /\ account = [a \in Accounts |->
                  [nonce |-> 0, is_updated |-> FALSE, has_key |-> FALSE]]
  /\ call = Idle
  /\ reply = {}
  /\ leftStatus = {}
  /\ leftState = {}
  /\ txs = << >>
  /\ mined = [a \in Accounts |-> FirstNonce]
  /\ heard = {}
  /\ gaps = {}
  /\ overlapped = {}
  /\ late = {}
  /\ faults = 0

node    == <<txs, mined>>
history == <<heard, gaps, overlapped, late>>
left    == <<leftStatus, leftState>>

Fault == faults < MaxFaults /\ faults' = faults + 1

TxsOf(a) == {i \in DOMAIN txs : txs[i].account = a}

\* No transaction of the account is between the library and a block.
Quiet(a) == \A i \in TxsOf(a) : txs[i].at \notin {"wire", "pool"}

----------------------------------------------------------------------------
(* Definitions named ...Mutant are plausible mistakes, as in RequestEngine. *)

\* the result of the status request is not looked at
UsableMutant(hash) == hash \notin ZeroLead

\* The test of the first byte in check_blockchain_id_hash.
Usable(hash) == hash \notin ZeroLead \cup {NoHash}

Start(op, a, at) == [at |-> at, op |-> op, on |-> Home[a], account |-> a]

\* is_updated is taken for granted, the nonce of the struct is used as it is
AfterHashMutant(a) == Start("transact", a, "encode")

\* A transaction after the chain id hash was checked: is the nonce known?
AfterHash(a) ==
  Start("transact", a, IF account[a].is_updated THEN "encode" ELSE "fetch")

\* The end of check_blockchain_id_hash, or of aergo_get_blockchain_status.
StatusReturns ==
  call' = IF call.op = "transact" /\ Usable(blockchain_id_hash')
          THEN AfterHash(call.account) ELSE Idle

\* A transfer or a contract call, up to the first request it waits for.
Transact(a) ==
  /\ call = Idle
  /\ Len(txs) < MaxTxs
  /\ call' = IF Usable(blockchain_id_hash) THEN AfterHash(a)
             ELSE Start("transact", a, "status")
  /\ UNCHANGED <<blockchain_id_hash, account, reply, left, node, history, faults>>

\* aergo_get_blockchain_status, called by the application.
GetStatus(i) ==
  /\ call = Idle
  /\ call' = [at |-> "status", op |-> "status", on |-> i]
  /\ UNCHANGED <<blockchain_id_hash, account, reply, left, node, history, faults>>

\* aergo_get_account_state, called by the application.
GetState(a) ==
  /\ call = Idle
  /\ call' = Start("state", a, "fetch")
  /\ UNCHANGED <<blockchain_id_hash, account, reply, left, node, history, faults>>

\* The field of the answer is decoded straight into the global (aergo.c:297).
HashIs(h) == blockchain_id_hash' = h /\ heard' = heard \cup {h}

HashFrom(i) == HashIs(ChainOf[i])

\* The answer could not be decoded: what was decoded before that stays.
Undecoded == \/ UNCHANGED <<blockchain_id_hash, heard>>
             \/ \E h \in Chains : HashIs(h)

\* handle_blockchain_status_response, for the call that waits.
StatusReply ==
  /\ call.at = "status"
  /\ HashFrom(call.on)
  /\ StatusReturns
  /\ UNCHANGED <<account, reply, left, node, gaps, overlapped, late, faults>>

\* The request is refused, lost or answered with an error, or with bytes that
\* are no status; after an error of curl it stays open.
StatusFails(open) ==
  /\ call.at = "status"
  /\ Fault
  /\ leftStatus' = IF open THEN leftStatus \cup {call.on} ELSE leftStatus
  /\ IF open THEN UNCHANGED <<blockchain_id_hash, heard>> ELSE Undecoded
  /\ StatusReturns
  /\ UNCHANGED <<account, reply, leftState, node, gaps, overlapped, late>>

----------------------------------------------------------------------------
\* aergo_get_account_state returns is_updated; a transaction goes on if it is.
StateReturns ==
  LET a == call.account IN
  call' = IF call.op = "transact" /\ account'[a].is_updated
          THEN [call EXCEPT !.at = "encode"] ELSE Idle

\* The public key of the account cannot be obtained (aergo.c:2009-2029).
NoKey ==
  /\ call.at = "fetch"
  /\ ~account[call.account].has_key
  /\ Fault
  /\ call' = Idle
  /\ UNCHANGED <<blockchain_id_hash, account, reply, left, node, history>>

\* The GetState request is sent, or it is not (aergo.c:2031-2043).
Fetch(sent) ==
  LET a == call.account IN
  /\ call.at = "fetch"
  /\ account' = [account EXCEPT ![a].is_updated = FALSE, ![a].has_key = TRUE]
  /\ IF sent
     THEN /\ call' = [call EXCEPT !.at = "state"]
          /\ overlapped' = IF Quiet(a) THEN overlapped ELSE overlapped \cup {a}
          /\ UNCHANGED faults
     ELSE /\ Fault
          /\ call' = Idle
          /\ UNCHANGED overlapped
  /\ UNCHANGED <<blockchain_id_hash, reply, left, node, heard, gaps, late>>

\* handle_account_state_response forgets to set the nonce
UpdatedMutant(a, nonce) ==
  account' = [account EXCEPT ![a].is_updated = TRUE]

Updated(a, nonce) ==
  account' = [account EXCEPT ![a].is_updated = TRUE, ![a].nonce = nonce]

\* handle_account_state_response, for the call that waits.
StateReply ==
  /\ call.at = "state"
  /\ \E nonce \in reply : Updated(call.account, nonce)
  /\ reply' = {}
  /\ StateReturns
  /\ UNCHANGED <<blockchain_id_hash, left, node, history, faults>>

\* As StatusFails.
StateFails(open) ==
  LET a == call.account IN
  /\ call.at = "state"
  /\ Fault
  /\ reply' = {}
  /\ IF open THEN /\ leftState' = leftState \cup
                       {[account |-> a, reply |-> reply, number |-> faults']}
                  /\ late' = late \cup {a}
             ELSE UNCHANGED <<leftState, late>>
  /\ UNCHANGED account
  /\ StateReturns
  /\ UNCHANGED <<blockchain_id_hash, leftStatus, node, heard, gaps, overlapped>>

----------------------------------------------------------------------------
\* curl serves the requests of an instance in a call on that instance, or when
\* the application polls.
Served(i) == call = Idle \/ (call.at \in {"status", "state"} /\ call.on = i)

LateStatus(i) ==
  /\ i \in leftStatus
  /\ Served(i)
  /\ \/ HashFrom(i) /\ UNCHANGED faults
     \/ Undecoded /\ Fault
  /\ leftStatus' = leftStatus \ {i}
  /\ UNCHANGED <<account, call, reply, leftState, node, gaps, overlapped, late>>

\* The handler writes to the account of a call that returned.
LateState(r) ==
  /\ r \in leftState
  /\ Served(Home[r.account])
  /\ \E nonce \in r.reply : Updated(r.account, nonce)
  /\ leftState' = leftState \ {r}
  /\ UNCHANGED <<blockchain_id_hash, call, reply, leftStatus, node, history, faults>>

----------------------------------------------------------------------------
\* the nonce is put into the transaction before it is incremented
NextNonceMutant(a) == account[a].nonce

NextNonce(a) == account[a].nonce + 1

\* the copy in the transaction is incremented, the one in the account is not
TakeNonceMutant(a) == UNCHANGED account

TakeNonce(a) == account' = [account EXCEPT ![a].nonce = @ + 1]

\* The Encode functions increment the nonce, sign and encode; then the request
\* is sent.  When a later step than the first fails, the nonce is lost.
Sent ==
  LET a == call.account IN
  /\ call.at = "encode"
  /\ TakeNonce(a)
  /\ txs' = Append(txs, [account |-> a, nonce |-> NextNonce(a),
                         hash |-> blockchain_id_hash, at |-> "wire"])
  /\ call' = Idle
  /\ UNCHANGED <<blockchain_id_hash, reply, left, mined, history, faults>>

NotSent ==
  LET a == call.account IN
  /\ call.at = "encode"
  /\ Fault
  /\ TakeNonce(a)
  /\ gaps' = gaps \cup {a}
  /\ call' = Idle
  /\ UNCHANGED <<blockchain_id_hash, reply, left, node, heard, overlapped, late>>

\* A contract call has no memory for its buffers: no nonce is taken.
NoBuffers ==
  /\ call.at = "encode"
  /\ Fault
  /\ call' = Idle
  /\ UNCHANGED <<blockchain_id_hash, account, reply, left, node, history>>

----------------------------------------------------------------------------
\* The node: a transaction is admitted to the pool if it is for this chain and
\* its nonce is neither used nor taken; gaps are allowed.
Foreign(t) == t.hash # ChainOf[Home[t.account]]

Fits(t) ==
  /\ t.nonce > mined[t.account]
  /\ \A i \in TxsOf(t.account) : txs[i].at = "pool" => txs[i].nonce # t.nonce

Verdict(t) ==
  IF Foreign(t) THEN "foreign" ELSE IF Fits(t) THEN "pool" ELSE "rejected"

Arrive(i) ==
  /\ txs[i].at = "wire"
  /\ txs' = [txs EXCEPT ![i].at = Verdict(txs[i])]
  /\ gaps' = IF Foreign(txs[i]) THEN gaps \cup {txs[i].account} ELSE gaps
  /\ UNCHANGED <<blockchain_id_hash, account, call, reply, left, mined, heard,
                 overlapped, late, faults>>

Lose(i) ==
  /\ txs[i].at = "wire"
  /\ Fault
  /\ txs' = [txs EXCEPT ![i].at = "lost"]
  /\ gaps' = gaps \cup {txs[i].account}
  /\ UNCHANGED <<blockchain_id_hash, account, call, reply, left, mined, heard,
                 overlapped, late>>

\* A block has the transaction with the next nonce of its account.
Mine(i) ==
  LET a == txs[i].account IN
  /\ txs[i].at = "pool"
  /\ txs[i].nonce = mined[a] + 1
  /\ txs' = [txs EXCEPT ![i].at = "mined"]
  /\ mined' = [mined EXCEPT ![a] = @ + 1]
  /\ UNCHANGED <<blockchain_id_hash, account, call, reply, left, history, faults>>

\* GetState is answered with the nonce of the last block.
Answer ==
  /\ call.at = "state"
  /\ reply = {}
  /\ reply' = {mined[call.account]}
  /\ UNCHANGED <<blockchain_id_hash, account, call, left, node, history, faults>>

LateAnswer(r) ==
  /\ r \in leftState
  /\ r.reply = {}
  /\ leftState' = (leftState \ {r}) \cup {[r EXCEPT !.reply = {mined[r.account]}]}
  /\ UNCHANGED <<blockchain_id_hash, account, call, reply, leftStatus, node, history, faults>>

----------------------------------------------------------------------------
Library ==
  \/ StatusReply \/ NoKey \/ StateReply \/ Sent \/ NotSent \/ NoBuffers
  \/ \E b \in BOOLEAN : StatusFails(b) \/ Fetch(b) \/ StateFails(b)
  \/ \E i \in Instances : LateStatus(i)
  \/ \E r \in leftState : LateState(r)

Node ==
  \/ Answer
  \/ \E r \in leftState : LateAnswer(r)
  \/ \E i \in DOMAIN txs : Arrive(i) \/ Lose(i) \/ Mine(i)

Next ==
  \/ \E a \in Accounts : Transact(a) \/ GetState(a)
  \/ \E i \in Instances : GetStatus(i)
  \/ Library
  \/ Node

Spec == Init /\ [][Next]_vars

\* The node receives what was sent and goes on making blocks.
FairSpec ==
  /\ Spec
  /\ \A i \in 1 .. MaxTxs :
       /\ WF_vars(i \in DOMAIN txs /\ Arrive(i))
       /\ WF_vars(i \in DOMAIN txs /\ Mine(i))

----------------------------------------------------------------------------
TypeOK ==
  /\ blockchain_id_hash \in Chains \cup {NoHash}
  /\ account \in [Accounts -> Account]
  /\ call \in Call \cup {Idle}
  /\ reply \subseteq Nat
  /\ leftStatus \subseteq Instances
  /\ leftState \subseteq [account: Accounts, reply: SUBSET Nat, number: Nat]
  /\ txs \in Seq(Tx)
  /\ mined \in [Accounts -> Nat]
  /\ heard \subseteq Chains
  /\ gaps \subseteq Accounts
  /\ overlapped \subseteq Accounts
  /\ late \subseteq Accounts
  /\ faults \in 0 .. MaxFaults

\* Two transactions of an account that may both have reached the node have
\* different nonces, unless the application had the nonce set back: by asking
\* for the state while transactions were under way (aergo.c:2031), or by the
\* answer to a GetState that outlived its call (aergo.c:2041).  Failed calls,
\* failed fetches and lost transactions alone never do that.
NoncesDiffer ==
  \A i, j \in DOMAIN txs :
    /\ i # j
    /\ txs[i].account = txs[j].account
    /\ {txs[i].at, txs[j].at} \cap {"lost", "foreign"} = {}
    /\ txs[i].nonce = txs[j].nonce
    => txs[i].account \in overlapped \cup late

\* A transaction never carries a nonce the chain is past: a nonce is fetched
\* before the first is used (aergo.c:1389), and again after a fetch failed.
NonceIsFresh ==
  \A i \in DOMAIN txs :
    txs[i].at = "wire" /\ txs[i].account \notin overlapped \cup late
    => txs[i].nonce > mined[txs[i].account]

\* Nonces are consecutive: what the account counted as used is on its way or
\* done, unless a call failed after it took its nonce or a transaction was
\* lost (aergo.c:987).
NoGaps ==
  \A a \in Accounts \ gaps :
    account[a].is_updated =>
      \A n \in mined[a] + 1 .. account[a].nonce :
        \E i \in TxsOf(a) : txs[i].nonce = n /\ txs[i].at \in {"wire", "pool"}

\* A transaction carries the hash of the chain it is sent to, unless an answer
\* to a status request held another: that of the chain of another instance, for
\* the global (aergo.c:284) is written by all of them, or a damaged one, which
\* stays also if the answer cannot be decoded (aergo.c:297-305).  Status requests
\* that were refused, lost or answered with an error leave nothing there that a
\* transaction is sent with, whenever they end (aergo.c:1337).
RightChain ==
  \A i \in DOMAIN txs :
    heard \subseteq {ChainOf[Home[txs[i].account]]}
    => txs[i].hash = ChainOf[Home[txs[i].account]]

\* A transaction that was sent is executed once the node goes on, unless its
\* account lost a nonce, to a failed call or to a transaction that was lost or
\* carried the hash of another chain, or had it set back: it never waits for a
\* nonce nobody has, nor is it refused for one somebody else has.
AllMined ==
  \A i \in 1 .. MaxTxs :
    (i \in DOMAIN txs) ~> /\ i \in DOMAIN txs
                          /\ \/ txs[i].at = "mined"
                             \/ txs[i].account \in gaps \cup overlapped \cup late
=============================================================================
