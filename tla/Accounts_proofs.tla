--------------------------- MODULE Accounts_proofs ---------------------------
(***************************************************************************)
(* Proofs about Accounts, for every set of instances, chains and accounts, *)
(* every number of transactions and faults.                                *)
(***************************************************************************)
EXTENDS Accounts, SequenceTheorems, TLAPS

\* What a call has, by how far it is.
LEMMA CallFacts ==
  ASSUME TypeOK
  PROVE  /\ call.at \in {"idle", "status", "fetch", "state", "encode"}
         /\ call.at = "idle" <=> call = Idle
         /\ call.at = "status" => call.on \in Instances
         /\ call.at = "status" /\ call.op = "transact" => call.account \in Accounts
         /\ call.at \in {"fetch", "state", "encode"} =>
              /\ call.on \in Instances /\ call.account \in Accounts
              /\ call.op \in {"transact", "state"}
              /\ [call EXCEPT !.at = "encode"] \in Call
              /\ [call EXCEPT !.at = "state"] \in Call
         /\ Idle \in Call \cup {Idle} /\ Idle.at = "idle"
<1> DEFINE InStatus == [at: {"status"}, op: {"status"}, on: Instances]
           Named == [at: {"status", "fetch", "state", "encode"},
                     op: {"transact", "state"}, on: Instances, account: Accounts]
<1>1. Idle.at = "idle" /\ Idle \in Call \cup {Idle}
  BY DEF Idle
<1>2. CASE call = Idle
  BY <1>1, <1>2
<1>3. CASE call \in InStatus
  <2>1. call.at = "status" /\ call.op = "status" /\ call.on \in Instances
    BY <1>3
  <2> QED
    BY <1>1, <2>1
<1>4. CASE call \in Named
  <2>1. /\ call.at \in {"status", "fetch", "state", "encode"}
        /\ call.op \in {"transact", "state"}
        /\ call.on \in Instances /\ call.account \in Accounts
    BY <1>4
  <2>2. [call EXCEPT !.at = "encode"] \in Named /\ [call EXCEPT !.at = "state"] \in Named
    BY <1>4
  <2>3. Named \subseteq Call
    BY DEF Call
  <2> HIDE DEF Named
  <2>4. call.at # "idle" /\ call # Idle
    BY <1>1, <2>1
  <2> QED
    BY <1>1, <2>1, <2>2, <2>3, <2>4
<1>5. call = Idle \/ call \in InStatus \/ call \in Named
  BY DEF TypeOK, Call
<1> QED
  BY <1>2, <1>3, <1>4, <1>5

LEMMA StartFacts ==
  ASSUME NEW a \in Accounts, NEW op \in {"transact", "state"},
         NEW at \in {"status", "fetch", "state", "encode"}
  PROVE  /\ Start(op, a, at) \in Call
         /\ Start(op, a, at).at = at /\ Start(op, a, at).op = op
         /\ Start(op, a, at).account = a
BY AccountsAssumption DEF Start, Call

LEMMA AfterHashFacts ==
  ASSUME NEW a \in Accounts
  PROVE  /\ AfterHash(a) \in Call
         /\ AfterHash(a).at \in {"fetch", "encode"}
         /\ AfterHash(a).at = "encode" => account[a].is_updated
         /\ AfterHash(a).account = a
<1>1. CASE account[a].is_updated
  <2>1. AfterHash(a) = Start("transact", a, "encode")
    BY <1>1 DEF AfterHash
  <2> QED
    BY <1>1, <2>1, StartFacts
<1>2. CASE ~account[a].is_updated
  <2>1. AfterHash(a) = Start("transact", a, "fetch")
    BY <1>2 DEF AfterHash
  <2> QED
    BY <2>1, StartFacts
<1> QED
  BY <1>1, <1>2

\* How the structs and the transactions are typed after the steps that change
\* them.
LEMMA AccountKeeps ==
  ASSUME TypeOK, NEW a \in Accounts
  PROVE  /\ account[a].nonce \in Nat /\ account[a].is_updated \in BOOLEAN
         /\ \A n \in Nat : Updated(a, n) => account' \in [Accounts -> Account]
         /\ TakeNonce(a) => account' \in [Accounts -> Account]
         /\ NextNonce(a) \in Nat
<1>1. account \in [Accounts -> Account] /\ account[a] \in Account
  BY DEF TypeOK
<1>2. account[a].nonce \in Nat /\ account[a].is_updated \in BOOLEAN
  BY <1>1 DEF Account
<1>3. ASSUME NEW n \in Nat, Updated(a, n)
      PROVE  account' \in [Accounts -> Account]
  <2>1. [[account[a] EXCEPT !.is_updated = TRUE] EXCEPT !.nonce = n] \in Account
    BY <1>1 DEF Account
  <2> QED
    BY <1>1, <1>3, <2>1 DEF Updated
<1>4. ASSUME TakeNonce(a)
      PROVE  account' \in [Accounts -> Account]
  <2>1. [account[a] EXCEPT !.nonce = account[a].nonce + 1] \in Account
    BY <1>1 DEF Account
  <2> QED
    BY <1>1, <1>4, <2>1 DEF TakeNonce
<1> QED
  BY <1>2, <1>3, <1>4 DEF NextNonce

LEMMA TxFacts ==
  ASSUME TypeOK, NEW i \in DOMAIN txs
  PROVE  /\ i \in 1 .. Len(txs) /\ txs[i] \in Tx
         /\ txs[i].account \in Accounts /\ txs[i].nonce \in Nat
         /\ txs[i].hash \in Chains
         /\ \A v \in {"wire", "pool", "mined", "rejected", "foreign", "lost"} :
              [txs EXCEPT ![i].at = v] \in Seq(Tx)
<1>1. txs \in Seq(Tx)
  BY DEF TypeOK
<1>2. i \in 1 .. Len(txs) /\ txs[i] \in Tx
  BY <1>1
<1>3. ASSUME NEW v \in {"wire", "pool", "mined", "rejected", "foreign", "lost"}
      PROVE  [txs EXCEPT ![i].at = v] \in Seq(Tx)
  <2>1. [txs[i] EXCEPT !.at = v] \in Tx
    BY <1>2 DEF Tx
  <2>2. [txs EXCEPT ![i] = [txs[i] EXCEPT !.at = v]] \in Seq(Tx)
    BY <1>1, <1>2, <2>1, ExceptSeq
  <2> QED
    BY <2>2
<1> QED
  BY <1>2, <1>3 DEF Tx

----------------------------------------------------------------------------
(* Types, and the hash.                                                    *)

\* From the test of the hash on, there is one; at encode there is a nonce too.
HashKnown ==
  /\ call.at \in {"fetch", "state"} /\ call.op = "transact" =>
       blockchain_id_hash # NoHash
  /\ call.at = "encode" => blockchain_id_hash # NoHash

HashHeard ==
  /\ blockchain_id_hash \in heard \cup {NoHash}
  /\ \A i \in DOMAIN txs : txs[i].hash \in heard

HashInv == TypeOK /\ HashKnown /\ HashHeard

LEMMA HashInit == ASSUME Init PROVE HashInv
<1>1. account \in [Accounts -> Account]
  BY DEF Init, Account
<1>2. mined \in [Accounts -> Nat]
  BY AccountsAssumption DEF Init
<1> QED
  BY <1>1, <1>2, AccountsAssumption DEF Init, HashInv, TypeOK, HashKnown, HashHeard, Idle

\* A call begins.
LEMMA BeginKeepsHash ==
  ASSUME HashInv,
         \/ \E a \in Accounts : Transact(a) \/ GetState(a)
         \/ \E i \in Instances : GetStatus(i)
  PROVE  HashInv'
<1>1. CASE \E a \in Accounts : Transact(a)
  <2> PICK a \in Accounts : Transact(a)
    BY <1>1
  <2>1. /\ call' \in Call
        /\ call'.at \in {"status", "fetch", "encode"}
        /\ call'.at # "status" => blockchain_id_hash # NoHash
    <3>1. CASE Usable(blockchain_id_hash)
      <4>1. call' = AfterHash(a) /\ blockchain_id_hash # NoHash
        BY <3>1 DEF Transact, Usable
      <4> QED
        BY <4>1, AfterHashFacts
    <3>2. CASE ~Usable(blockchain_id_hash)
      <4>1. call' = Start("transact", a, "status")
        BY <3>2 DEF Transact
      <4> QED
        BY <4>1, StartFacts
    <3> QED
      BY <3>1, <3>2
  <2> QED
    BY <2>1 DEF Transact, HashInv, TypeOK, HashKnown, HashHeard, left, node, history
<1>2. CASE \E a \in Accounts : GetState(a)
  <2> PICK a \in Accounts : GetState(a)
    BY <1>2
  <2>1. call' \in Call /\ call'.at = "fetch" /\ call'.op = "state"
    BY StartFacts DEF GetState
  <2> QED
    BY <2>1 DEF GetState, HashInv, TypeOK, HashKnown, HashHeard, left, node, history
<1>3. CASE \E i \in Instances : GetStatus(i)
  BY <1>3 DEF GetStatus, HashInv, TypeOK, HashKnown, HashHeard, left, node, history, Call
<1> QED
  BY <1>1, <1>2, <1>3

\* What the end of a status request leaves of the call.
LEMMA StatusReturnsFacts ==
  ASSUME TypeOK, call.at = "status", StatusReturns
  PROVE  /\ call' \in Call \cup {Idle}
         /\ call'.at \in {"idle", "fetch", "encode"}
         /\ call'.at # "idle" => blockchain_id_hash' # NoHash
<1>1. CASE call' = Idle
  BY <1>1 DEF Idle
<1>2. CASE call' # Idle
  <2>1. /\ call' = AfterHash(call.account) /\ call.account \in Accounts
        /\ blockchain_id_hash' # NoHash
    BY <1>2, CallFacts DEF StatusReturns, Usable
  <2> QED
    BY <2>1, AfterHashFacts
<1> QED
  BY <1>1, <1>2

\* What an answer to a status request, be it damaged, makes of the hash.
LEMMA AnswerHash ==
  ASSUME HashInv, (\E i \in Instances : HashFrom(i)) \/ Undecoded
  PROVE  /\ heard' \subseteq Chains /\ heard \subseteq heard'
         /\ blockchain_id_hash' \in heard' \cup {NoHash}
         /\ blockchain_id_hash # NoHash => blockchain_id_hash' # NoHash
<1>1. heard \subseteq Chains /\ blockchain_id_hash \in heard \cup {NoHash}
  BY DEF HashInv, TypeOK, HashHeard
<1>2. CASE UNCHANGED <<blockchain_id_hash, heard>>
  BY <1>1, <1>2
<1>3. CASE \E h \in Chains : HashIs(h)
  BY <1>1, <1>3, AccountsAssumption DEF HashIs
<1> QED
  BY <1>2, <1>3, AccountsAssumption DEF HashFrom, Undecoded

LEMMA StatusKeepsHash ==
  ASSUME HashInv, StatusReply \/ \E b \in BOOLEAN : StatusFails(b)
  PROVE  HashInv'
<1>1. TypeOK
  BY DEF HashInv
<1>2. CASE StatusReply
  <2>1. call.on \in Instances /\ ChainOf[call.on] \in Chains
    BY <1>1, <1>2, CallFacts, AccountsAssumption DEF StatusReply
  <2>2. /\ call' \in Call \cup {Idle}
        /\ call'.at \in {"idle", "fetch", "encode"}
        /\ call'.at # "idle" => blockchain_id_hash' # NoHash
    BY <1>1, <1>2, StatusReturnsFacts DEF StatusReply
  <2>3. /\ heard' \subseteq Chains /\ heard \subseteq heard'
        /\ blockchain_id_hash' \in heard' \cup {NoHash}
    BY <1>2, <2>1, AnswerHash DEF StatusReply
  <2>4. UNCHANGED <<account, reply, leftStatus, leftState, txs, mined, gaps, overlapped,
                    late, faults>>
    BY <1>2 DEF StatusReply, left, node
  <2> QED
    BY <2>2, <2>3, <2>4 DEF HashInv, TypeOK, HashKnown, HashHeard
<1>3. ASSUME NEW b \in BOOLEAN, StatusFails(b)
      PROVE  HashInv'
  <2>1. call.on \in Instances
    BY <1>1, <1>3, CallFacts DEF StatusFails
  <2>2. /\ call' \in Call \cup {Idle}
        /\ call'.at \in {"idle", "fetch", "encode"}
        /\ call'.at # "idle" => blockchain_id_hash' # NoHash
    BY <1>1, <1>3, StatusReturnsFacts DEF StatusFails
  <2>3. leftStatus' \subseteq Instances /\ faults' \in 0 .. MaxFaults
    BY <1>1, <1>3, <2>1, AccountsAssumption DEF StatusFails, Fault, TypeOK
  <2>4. /\ heard' \subseteq Chains /\ heard \subseteq heard'
        /\ blockchain_id_hash' \in heard' \cup {NoHash}
    <3>1. Undecoded
      BY <1>3 DEF StatusFails, Undecoded
    <3> QED
      BY <3>1, AnswerHash
  <2>5. UNCHANGED <<account, reply, leftState, txs, mined, gaps, overlapped, late>>
    BY <1>3 DEF StatusFails, node
  <2> QED
    BY <2>2, <2>3, <2>4, <2>5 DEF HashInv, TypeOK, HashKnown, HashHeard
<1> QED
  BY <1>2, <1>3

\* What the end of a GetState leaves of the call.
LEMMA StateReturnsFacts ==
  ASSUME TypeOK, call.at = "state", StateReturns
  PROVE  /\ call' \in Call \cup {Idle}
         /\ call'.at \in {"idle", "encode"}
         /\ call'.at = "encode" => /\ call.op = "transact"
                                   /\ account'[call.account].is_updated
                                   /\ call'.account = call.account
<1>1. CASE call' = Idle
  BY <1>1 DEF Idle
<1>2. CASE call' # Idle
  <2>1. /\ call' = [call EXCEPT !.at = "encode"] /\ call.op = "transact"
        /\ account'[call.account].is_updated
    BY <1>2 DEF StateReturns
  <2>2. call \in Call /\ call' \in Call
    BY <2>1, CallFacts DEF TypeOK, Idle
  <2> QED
    BY <2>1, <2>2 DEF Call
<1> QED
  BY <1>1, <1>2

LEMMA StateKeepsHash ==
  ASSUME HashInv,
         NoKey \/ StateReply \/ \E b \in BOOLEAN : Fetch(b) \/ StateFails(b)
  PROVE  HashInv'
<1>1. TypeOK
  BY DEF HashInv
<1>2. CASE NoKey
  BY <1>2, AccountsAssumption DEF NoKey, Fault, HashInv, TypeOK, HashKnown, HashHeard,
     left, node, history, Idle
<1>3. ASSUME NEW b \in BOOLEAN, Fetch(b)
      PROVE  HashInv'
  <2> DEFINE a == call.account
  <2>1. a \in Accounts /\ [call EXCEPT !.at = "state"] \in Call
    BY <1>1, <1>3, CallFacts DEF Fetch
  <2>2. account' \in [Accounts -> Account]
    <3>1. account \in [Accounts -> Account] /\ account[a] \in Account
      BY <1>1, <2>1 DEF TypeOK
    <3>2. [[account[a] EXCEPT !.is_updated = FALSE] EXCEPT !.has_key = TRUE] \in Account
      BY <3>1 DEF Account
    <3> QED
      BY <1>3, <3>1, <3>2 DEF Fetch
  <2>3. /\ call' \in Call \cup {Idle} /\ call'.at \in {"idle", "state"}
        /\ call'.at = "state" => call'.op = call.op
    <3>1. CASE call' = Idle
      BY <3>1 DEF Idle
    <3>2. CASE call' = [call EXCEPT !.at = "state"]
      <4>1. call \in Call
        BY <1>1, <1>3 DEF Fetch, TypeOK, Idle
      <4> QED
        BY <2>1, <3>2, <4>1 DEF Call
    <3> QED
      BY <1>3, <3>1, <3>2 DEF Fetch
  <2>4. overlapped' \subseteq Accounts /\ faults' \in 0 .. MaxFaults
    BY <1>1, <1>3, <2>1, AccountsAssumption DEF Fetch, Fault, TypeOK
  <2> QED
    BY <1>3, <2>2, <2>3, <2>4 DEF Fetch, HashInv, TypeOK, HashKnown, HashHeard, left, node
<1>4. CASE StateReply
  <2>1. call.account \in Accounts /\ account' \in [Accounts -> Account]
    <3>1. call.account \in Accounts
      BY <1>1, <1>4, CallFacts DEF StateReply
    <3>2. PICK n \in reply : Updated(call.account, n)
      BY <1>4 DEF StateReply
    <3> QED
      BY <1>1, <3>1, <3>2, AccountKeeps DEF TypeOK
  <2>2. /\ call' \in Call \cup {Idle} /\ call'.at \in {"idle", "encode"}
        /\ call'.at = "encode" => call.op = "transact"
    BY <1>1, <1>4, StateReturnsFacts DEF StateReply
  <2> QED
    BY <1>4, <2>1, <2>2 DEF StateReply, HashInv, TypeOK, HashKnown, HashHeard, left,
       node, history
<1>5. ASSUME NEW b \in BOOLEAN, StateFails(b)
      PROVE  HashInv'
  <2>1. call.account \in Accounts
    BY <1>1, <1>5, CallFacts DEF StateFails
  <2>2. /\ call' \in Call \cup {Idle} /\ call'.at \in {"idle", "encode"}
        /\ call'.at = "encode" => call.op = "transact"
    BY <1>1, <1>5, StateReturnsFacts DEF StateFails
  <2>3. /\ leftState' \subseteq [account: Accounts, reply: SUBSET Nat, number: Nat]
        /\ late' \subseteq Accounts /\ faults' \in 0 .. MaxFaults
    BY <1>1, <1>5, <2>1, AccountsAssumption DEF StateFails, Fault, TypeOK
  <2> QED
    BY <1>5, <2>2, <2>3 DEF StateFails, HashInv, TypeOK, HashKnown, HashHeard, node
<1> QED
  BY <1>2, <1>3, <1>4, <1>5

\* The answers to requests that outlived their call.
LEMMA LateKeepsHash ==
  ASSUME HashInv,
         \/ \E i \in Instances : LateStatus(i)
         \/ \E r \in leftState : LateState(r) \/ LateAnswer(r)
         \/ Answer
  PROVE  HashInv'
<1>1. TypeOK
  BY DEF HashInv
<1>2. ASSUME NEW i \in Instances, LateStatus(i)
      PROVE  HashInv'
  <2>1. /\ heard' \subseteq Chains /\ heard \subseteq heard'
        /\ blockchain_id_hash' \in heard' \cup {NoHash}
        /\ blockchain_id_hash # NoHash => blockchain_id_hash' # NoHash
    BY <1>2, AnswerHash DEF LateStatus
  <2>2. faults' \in 0 .. MaxFaults
    BY <1>1, <1>2, AccountsAssumption DEF LateStatus, Fault, TypeOK
  <2>3. /\ leftStatus' \subseteq leftStatus
        /\ UNCHANGED <<account, call, reply, leftState, txs, mined, gaps, overlapped, late>>
    BY <1>2 DEF LateStatus, node
  <2> QED
    BY <2>1, <2>2, <2>3 DEF HashInv, TypeOK, HashKnown, HashHeard
<1>3. ASSUME NEW r \in leftState, LateState(r)
      PROVE  HashInv'
  <2>1. r.account \in Accounts /\ r.reply \subseteq Nat
    BY <1>1 DEF TypeOK
  <2>2. account' \in [Accounts -> Account]
    BY <1>1, <1>3, <2>1, AccountKeeps DEF LateState
  <2> QED
    BY <1>3, <2>2 DEF LateState, HashInv, TypeOK, HashKnown, HashHeard, node, history
<1>4. ASSUME NEW r \in leftState, LateAnswer(r)
      PROVE  HashInv'
  <2>1. [r EXCEPT !.reply = {mined[r.account]}] \in [account: Accounts, reply: SUBSET Nat, number: Nat]
    BY <1>1 DEF TypeOK
  <2> QED
    BY <1>4, <2>1 DEF LateAnswer, HashInv, TypeOK, HashKnown, HashHeard, node, history
<1>5. CASE Answer
  <2>1. mined[call.account] \in Nat
    BY <1>1, <1>5, CallFacts DEF Answer, TypeOK
  <2> QED
    BY <1>5, <2>1 DEF Answer, HashInv, TypeOK, HashKnown, HashHeard, left, node, history
<1> QED
  BY <1>2, <1>3, <1>4, <1>5

\* A transaction is sent, or it is not.
LEMMA EncodeKeepsHash ==
  ASSUME HashInv, Sent \/ NotSent \/ NoBuffers
  PROVE  HashInv'
<1>1. TypeOK /\ txs \in Seq(Tx)
  BY DEF HashInv, TypeOK
<1>2. call.account \in Accounts /\ call.at = "encode"
  BY <1>1, CallFacts DEF Sent, NotSent, NoBuffers
<1>3. CASE Sent
  <2> DEFINE t == [account |-> call.account, nonce |-> NextNonce(call.account),
                   hash |-> blockchain_id_hash, at |-> "wire"]
  <2>1. blockchain_id_hash \in Chains \cap heard
    BY <1>1, <1>2 DEF HashInv, TypeOK, HashKnown, HashHeard
  <2>2. t \in Tx
    BY <1>1, <1>2, <2>1, AccountKeeps DEF Tx
  <2>3. account' \in [Accounts -> Account]
    BY <1>1, <1>2, <1>3, AccountKeeps DEF Sent
  <2>4. /\ txs' = Append(txs, t) /\ txs' \in Seq(Tx)
        /\ \A i \in DOMAIN txs' : (i \in DOMAIN txs /\ txs'[i] = txs[i]) \/ txs'[i] = t
    BY <1>1, <1>3, <2>2 DEF Sent
  <2>5. \A i \in DOMAIN txs' : txs'[i].hash \in heard
    BY <2>1, <2>4 DEF HashInv, HashHeard
  <2> QED
    BY <1>3, <2>3, <2>4, <2>5 DEF Sent, HashInv, TypeOK, HashKnown, HashHeard, left,
       history, Idle
<1>4. CASE NotSent
  <2>1. account' \in [Accounts -> Account]
    BY <1>1, <1>2, <1>4, AccountKeeps DEF NotSent
  <2>2. gaps' \subseteq Accounts /\ faults' \in 0 .. MaxFaults
    BY <1>1, <1>2, <1>4, AccountsAssumption DEF NotSent, Fault, TypeOK
  <2> QED
    BY <1>4, <2>1, <2>2 DEF NotSent, HashInv, TypeOK, HashKnown, HashHeard, left, node, Idle
<1>5. CASE NoBuffers
  BY <1>5, AccountsAssumption DEF NoBuffers, Fault, HashInv, TypeOK, HashKnown, HashHeard,
     left, node, history, Idle
<1> QED
  BY <1>3, <1>4, <1>5

\* A transaction gets on, or is lost: nothing of it changes but how far it is.
LEMMA TxMoves ==
  ASSUME TypeOK, NEW i \in DOMAIN txs,
         NEW v \in {"wire", "pool", "mined", "rejected", "foreign", "lost"},
         txs' = [txs EXCEPT ![i].at = v]
  PROVE  /\ txs' \in Seq(Tx)
         /\ DOMAIN txs' = DOMAIN txs
         /\ \A j \in DOMAIN txs :
              /\ txs'[j].account = txs[j].account
              /\ txs'[j].nonce = txs[j].nonce
              /\ txs'[j].hash = txs[j].hash
              /\ txs'[j].at = IF j = i THEN v ELSE txs[j].at
<1>1. txs' \in Seq(Tx)
  BY TxFacts
<1>2. \A j \in DOMAIN txs : txs[j] \in Tx
  BY TxFacts
<1>3. DOMAIN txs' = DOMAIN txs
  OBVIOUS
<1>4. txs'[i] = [txs[i] EXCEPT !.at = v]
  OBVIOUS
<1>5. \A j \in DOMAIN txs : j # i => txs'[j] = txs[j]
  OBVIOUS
<1> QED
  BY <1>1, <1>2, <1>3, <1>4, <1>5 DEF Tx

LEMMA NodeKeepsHash ==
  ASSUME HashInv, NEW i \in DOMAIN txs, Arrive(i) \/ Lose(i) \/ Mine(i)
  PROVE  HashInv'
<1>1. TypeOK /\ txs[i].account \in Accounts
  BY TxFacts DEF HashInv
<1>2. PICK v \in {"wire", "pool", "mined", "rejected", "foreign", "lost"} :
        txs' = [txs EXCEPT ![i].at = v]
  BY DEF Arrive, Lose, Mine, Verdict
<1>3. txs' \in Seq(Tx) /\ \A j \in DOMAIN txs' : txs'[j].hash \in heard
  BY ZenonT(60), <1>1, <1>2, TxMoves DEF HashInv, HashHeard
<1>4. mined' \in [Accounts -> Nat]
  BY <1>1 DEF Arrive, Lose, Mine, TypeOK
<1>5. gaps' \subseteq Accounts /\ faults' \in 0 .. MaxFaults
  BY <1>1, AccountsAssumption DEF Arrive, Lose, Mine, Fault, TypeOK, history
<1> QED
  BY <1>3, <1>4, <1>5 DEF Arrive, Lose, Mine, HashInv, TypeOK, HashKnown, HashHeard,
     left, history

LEMMA HashNext == ASSUME HashInv, [Next]_vars PROVE HashInv'
<1>1. CASE Next
  BY <1>1, BeginKeepsHash, StatusKeepsHash, StateKeepsHash, LateKeepsHash,
     EncodeKeepsHash, NodeKeepsHash DEF Next, Library, Node
<1>2. CASE UNCHANGED vars
  BY <1>2 DEF vars, HashInv, TypeOK, HashKnown, HashHeard
<1> QED
  BY <1>1, <1>2

LEMMA HashAlways == Spec => []HashInv
BY HashInit, HashNext, PTL DEF Spec

\* Every variable keeps its type, with late answers and all faults.
THEOREM TypeCorrect == Spec => []TypeOK
BY HashAlways, PTL DEF HashInv

\* Whatever status requests fail, or are answered after their call returned, a
\* transaction has the hash of its chain unless an answer, also one that could
\* not be decoded, held another (aergo.c:297-305, 1331-1338).
THEOREM HashIsOfTheChain == Spec => []RightChain
<1>1. ASSUME HashInv
      PROVE  RightChain
  BY <1>1 DEF HashInv, HashHeard, RightChain
<1> QED
  BY <1>1, HashAlways, PTL

----------------------------------------------------------------------------
(* What the nonces of an account are, whatever calls fail, whatever the    *)
(* application asks for and however late the node answers.                 *)

\* A nonce that a GetState brings is one the chain had reached, and a late one
\* is of an account that is known to have one under way.
RepliesOld ==
  /\ call.at # "state" => reply = {}
  /\ \A n \in reply : n <= mined[call.account]
  /\ \A r \in leftState :
       r.account \in late /\ \A n \in r.reply : n <= mined[r.account]

StateKnown == call.at = "encode" => account[call.account].is_updated

\* The nonce of the account was not set back by the application.
Tame(a) == a \notin overlapped \cup late

UnderWay(i) == txs[i].at \in {"wire", "pool"}
Reaches(i)  == txs[i].at \notin {"lost", "foreign"}

\* The nonces of an account: what is under way is past the chain and not past
\* the account, which is not behind the chain; none was used twice; and while
\* a state is awaited the chain stands still.
TxsNumbered(a) ==
  \A i \in TxsOf(a) :
    /\ UnderWay(i) => mined[a] < txs[i].nonce /\ txs[i].nonce <= account[a].nonce
    /\ txs[i].at = "mined" => txs[i].nonce <= mined[a]
    /\ txs[i].at # "rejected"

TxsDiffer(a) ==
  \A i, j \in TxsOf(a) :
    i # j /\ Reaches(i) /\ Reaches(j) => txs[i].nonce # txs[j].nonce

NotBehind(a) == account[a].is_updated => mined[a] <= account[a].nonce

StandsStill(a) ==
  call.at = "state" /\ call.account = a => Quiet(a) /\ reply \subseteq {mined[a]}

Numbered(a) == TxsNumbered(a) /\ TxsDiffer(a) /\ NotBehind(a) /\ StandsStill(a)

TameNumbered == \A a \in Accounts : Tame(a) => Numbered(a)

CallInv == HashInv /\ RepliesOld /\ StateKnown

NonceInv == CallInv /\ TameNumbered /\ NoGaps

LEMMA NonceInit == ASSUME Init PROVE NonceInv
<1>1. HashInv
  BY HashInit
<1>2. RepliesOld /\ StateKnown
  BY DEF Init, RepliesOld, StateKnown, Idle
<1>3. \A a \in Accounts : TxsOf(a) = {}
  BY DEF Init, TxsOf
<1>4. \A a \in Accounts : ~account[a].is_updated
  BY DEF Init
<1>5. TameNumbered /\ NoGaps
  BY <1>3, <1>4 DEF Init, Idle, TameNumbered, Numbered, TxsNumbered, TxsDiffer,
     NotBehind, StandsStill, NoGaps
<1> QED
  BY <1>1, <1>2, <1>5 DEF NonceInv, CallInv

----------------------------------------------------------------------------
(* The steps, by what they do to the account and the transactions.         *)

\* A step that touches neither an account nor a transaction.
Elsewhere ==
  /\ UNCHANGED <<account, txs, mined, gaps, overlapped>>
  /\ late \subseteq late'
  /\ call'.at = "state" =>
       /\ call.at = "state" /\ call'.account = call.account
       /\ reply' \subseteq reply \cup {mined[call.account]}
  /\ call'.at # "state" => reply' = {}
  /\ call'.at = "encode" => account[call'.account].is_updated

\* What the account becomes when a state arrives for it.
Refetched ==
  \E a \in Accounts, n \in Nat :
    /\ n <= mined[a]
    /\ account' = [account EXCEPT ![a].is_updated = TRUE, ![a].nonce = n]
    /\ Tame(a) => Quiet(a) /\ n = mined[a]
    /\ UNCHANGED <<txs, mined, gaps, overlapped, late>>
    /\ call'.at = "state" => call' = call /\ reply' = reply
    /\ call'.at # "state" => reply' = {}
    /\ call'.at = "encode" => account'[call'.account].is_updated

LEMMA BeginElsewhere ==
  ASSUME CallInv,
         \/ \E a \in Accounts : Transact(a) \/ GetState(a)
         \/ \E i \in Instances : GetStatus(i)
  PROVE  Elsewhere /\ UNCHANGED leftState
<1>1. reply = {}
  BY DEF CallInv, RepliesOld, Transact, GetState, GetStatus, Idle
<1>2. ASSUME NEW a \in Accounts, Transact(a)
      PROVE  call'.at # "state" /\ (call'.at = "encode" => account[call'.account].is_updated)
  <2>1. CASE call' = AfterHash(a)
    BY <2>1, AfterHashFacts
  <2>2. CASE call' = Start("transact", a, "status")
    BY <2>2, StartFacts
  <2> QED
    BY <1>2, <2>1, <2>2 DEF Transact
<1>3. ASSUME NEW a \in Accounts, GetState(a)
      PROVE  call'.at = "fetch"
  BY <1>3, StartFacts DEF GetState
<1>4. ASSUME NEW i \in Instances, GetStatus(i)
      PROVE  call'.at = "status"
  BY <1>4 DEF GetStatus
<1>5. UNCHANGED <<account, txs, mined, gaps, overlapped, late, reply, leftState>>
  BY DEF Transact, GetState, GetStatus, left, node, history
<1> QED
  BY <1>1, <1>2, <1>3, <1>4, <1>5 DEF Elsewhere

LEMMA StatusElsewhere ==
  ASSUME CallInv, StatusReply \/ \E b \in BOOLEAN : StatusFails(b)
  PROVE  Elsewhere /\ UNCHANGED leftState
<1>1. TypeOK /\ call.at = "status" /\ StatusReturns
  BY DEF CallInv, HashInv, StatusReply, StatusFails
<1>2. reply = {}
  BY <1>1 DEF CallInv, RepliesOld
<1>3. call'.at # "state" /\ (call'.at = "encode" => account[call'.account].is_updated)
  <2>1. CASE call' = Idle
    BY <2>1 DEF Idle
  <2>2. CASE call' # Idle
    <3>1. call' = AfterHash(call.account) /\ call.account \in Accounts
      BY <1>1, <2>2, CallFacts DEF StatusReturns
    <3> QED
      BY <3>1, AfterHashFacts
  <2> QED
    BY <2>1, <2>2
<1>4. UNCHANGED <<account, txs, mined, gaps, overlapped, late, reply, leftState>>
  BY DEF StatusReply, StatusFails, left, node, history
<1> QED
  BY <1>2, <1>3, <1>4 DEF Elsewhere

\* Calls that give up, and answers on their way.
LEMMA OthersElsewhere ==
  ASSUME CallInv,
         \/ NoKey \/ NoBuffers \/ Answer \/ \E b \in BOOLEAN : StateFails(b)
         \/ \E i \in Instances : LateStatus(i)
         \/ \E r \in leftState : LateAnswer(r)
  PROVE  Elsewhere
<1>1. TypeOK
  BY DEF CallInv, HashInv
<1>2. CASE NoKey \/ NoBuffers
  <2>1. call' = Idle /\ reply = {}
    BY <1>2 DEF NoKey, NoBuffers, CallInv, RepliesOld
  <2> QED
    BY <1>2, <2>1 DEF NoKey, NoBuffers, Elsewhere, node, history, Idle
<1>3. CASE Answer
  BY <1>3 DEF Answer, Elsewhere, node, history
<1>4. ASSUME NEW b \in BOOLEAN, StateFails(b)
      PROVE  Elsewhere
  <2>1. /\ call'.at \in {"idle", "encode"}
        /\ call'.at = "encode" => /\ account'[call.account].is_updated
                                  /\ call'.account = call.account
    BY <1>1, <1>4, StateReturnsFacts DEF StateFails
  <2> QED
    BY <1>4, <2>1 DEF StateFails, Elsewhere, node
<1>5. ASSUME NEW i \in Instances, LateStatus(i)
      PROVE  Elsewhere
  BY <1>5 DEF LateStatus, Elsewhere, node, CallInv, RepliesOld, StateKnown
<1>6. ASSUME NEW r \in leftState, LateAnswer(r)
      PROVE  Elsewhere
  BY <1>6 DEF LateAnswer, Elsewhere, node, history, CallInv, RepliesOld, StateKnown
<1> QED
  BY <1>2, <1>3, <1>4, <1>5, <1>6

LEMMA StatesRefetch ==
  ASSUME NonceInv, StateReply \/ \E r \in leftState : LateState(r)
  PROVE  Refetched /\ leftState' \subseteq leftState
<1>1. TypeOK
  BY DEF NonceInv, CallInv, HashInv
<1>2. CASE StateReply
  <2>1. call.account \in Accounts /\ call.at = "state"
    BY <1>1, <1>2, CallFacts DEF StateReply
  <2>2. PICK n \in reply : Updated(call.account, n)
    BY <1>2 DEF StateReply
  <2>3. n \in Nat /\ n <= mined[call.account]
    BY <1>1, <2>2 DEF TypeOK, NonceInv, CallInv, RepliesOld
  <2>4. Tame(call.account) => Quiet(call.account) /\ n = mined[call.account]
    BY <2>1, <2>2 DEF NonceInv, TameNumbered, Numbered, StandsStill
  <2>5. /\ call'.at \in {"idle", "encode"}
        /\ call'.at = "encode" => /\ account'[call.account].is_updated
                                  /\ call'.account = call.account
    BY <1>1, <1>2, StateReturnsFacts DEF StateReply
  <2> QED
    BY <1>2, <2>1, <2>2, <2>3, <2>4, <2>5
    DEF StateReply, Refetched, Updated, left, node, history
<1>3. ASSUME NEW r \in leftState, LateState(r)
      PROVE  Refetched /\ leftState' \subseteq leftState
  <2>1. r.account \in Accounts /\ r.account \in late
    BY <1>1 DEF TypeOK, NonceInv, CallInv, RepliesOld
  <2>2. PICK n \in r.reply : Updated(r.account, n)
    BY <1>3 DEF LateState
  <2>3. n \in Nat /\ n <= mined[r.account]
    BY <1>1, <2>2 DEF TypeOK, NonceInv, CallInv, RepliesOld
  <2>4. ~Tame(r.account)
    BY <2>1 DEF Tame
  <2>5. call.at = "encode" => account'[call.account].is_updated
    <3>1. account \in [Accounts -> Account]
      BY <1>1 DEF TypeOK
    <3>2. call.at = "encode" => call.account \in Accounts /\ account[call.account].is_updated
      BY <1>1, CallFacts DEF NonceInv, CallInv, StateKnown
    <3>3. account' = [account EXCEPT ![r.account] =
                        [account[r.account] EXCEPT !.is_updated = TRUE, !.nonce = n]]
      BY <2>2 DEF Updated
    <3>4. [account[r.account] EXCEPT !.is_updated = TRUE, !.nonce = n].is_updated
      BY <2>1, <3>1 DEF Account
    <3> QED
      BY <2>1, <3>1, <3>2, <3>3, <3>4
  <2> QED
    BY <1>3, <2>1, <2>2, <2>3, <2>4, <2>5
    DEF LateState, Refetched, Updated, node, history, NonceInv, CallInv, RepliesOld
<1> QED
  BY <1>2, <1>3

----------------------------------------------------------------------------
(* Each kind of step keeps the nonces, and the coverage of the chain.      *)

LEMMA ElsewhereKeeps ==
  ASSUME NonceInv, Elsewhere
  PROVE  TameNumbered' /\ NoGaps'
<1>1. NoGaps'
  BY DEF NonceInv, NoGaps, Elsewhere, TxsOf
<1>2. ASSUME NEW a \in Accounts, Tame(a)'
      PROVE  Numbered(a)'
  <2>1. Numbered(a)
    BY <1>2 DEF NonceInv, TameNumbered, Tame, Elsewhere
  <2>2. TxsNumbered(a)' /\ TxsDiffer(a)' /\ NotBehind(a)'
    BY <2>1 DEF Numbered, TxsNumbered, TxsDiffer, NotBehind, Elsewhere, TxsOf,
       UnderWay, Reaches
  <2>3. StandsStill(a)'
    BY <2>1 DEF Numbered, StandsStill, Elsewhere, Quiet, TxsOf
  <2> QED
    BY <2>2, <2>3 DEF Numbered
<1> QED
  BY <1>1, <1>2 DEF TameNumbered

LEMMA RefetchedKeeps ==
  ASSUME NonceInv, Refetched
  PROVE  TameNumbered' /\ NoGaps'
<1>1. PICK b \in Accounts, n \in Nat :
        /\ n <= mined[b]
        /\ account' = [account EXCEPT ![b].is_updated = TRUE, ![b].nonce = n]
        /\ Tame(b) => Quiet(b) /\ n = mined[b]
        /\ UNCHANGED <<txs, mined, gaps, overlapped, late>>
        /\ call'.at = "state" => call' = call /\ reply' = reply
  BY DEF Refetched
<1>2. account \in [Accounts -> Account] /\ mined \in [Accounts -> Nat]
  BY DEF NonceInv, CallInv, HashInv, TypeOK
<1>3. /\ account'[b].nonce = n /\ account'[b].is_updated
      /\ \A a \in Accounts : a # b => account'[a] = account[a]
  BY <1>1, <1>2 DEF Account
<1>4. NoGaps'
  <2>0. \A a \in Accounts : TxsOf(a)' = TxsOf(a)
    BY <1>1 DEF TxsOf
  <2> SUFFICES ASSUME NEW a \in Accounts \ gaps', account'[a].is_updated,
                      NEW m \in mined'[a] + 1 .. account'[a].nonce
               PROVE  \E i \in TxsOf(a)' :
                        txs'[i].nonce = m /\ txs'[i].at \in {"wire", "pool"}
    BY DEF NoGaps
  <2>1. a \in Accounts \ gaps /\ m \in mined[a] + 1 .. account'[a].nonce
    BY <1>1
  <2>2. a # b
    BY <1>1, <1>2, <1>3, <2>1
  <2>3. account[a].is_updated /\ m \in mined[a] + 1 .. account[a].nonce
    BY <1>3, <2>1, <2>2
  <2>4. PICK i \in TxsOf(a) : txs[i].nonce = m /\ txs[i].at \in {"wire", "pool"}
    BY <2>1, <2>3 DEF NonceInv, NoGaps
  <2> QED
    BY <1>1, <2>0, <2>1, <2>4
<1>5. ASSUME NEW a \in Accounts, Tame(a)'
      PROVE  Numbered(a)'
  <2>1. Numbered(a) /\ Tame(a)
    BY <1>1, <1>5 DEF NonceInv, TameNumbered, Tame
  <2>2. StandsStill(a)' /\ TxsDiffer(a)'
    BY <1>1, <2>1 DEF Numbered, StandsStill, TxsDiffer, Reaches, Quiet, TxsOf
  <2>3. CASE a # b
    BY <1>1, <1>3, <2>1, <2>2, <2>3 DEF Numbered, TxsNumbered, NotBehind, UnderWay, TxsOf
  <2>4. CASE a = b
    <3>1. Quiet(b) /\ n = mined[b]
      BY <1>1, <2>1, <2>4
    <3>2. \A i \in TxsOf(b) : ~UnderWay(i)
      BY <3>1 DEF Quiet, UnderWay
    <3>3. TxsNumbered(b)'
      BY <1>1, <2>1, <2>4, <3>2 DEF Numbered, TxsNumbered, UnderWay, TxsOf
    <3>4. NotBehind(b)'
      BY <1>1, <1>2, <1>3, <3>1 DEF NotBehind
    <3> QED
      BY <2>2, <2>4, <3>3, <3>4 DEF Numbered
  <2> QED
    BY <2>3, <2>4
<1> QED
  BY <1>4, <1>5 DEF TameNumbered

\* A state is asked for: from now on the account's nonce does not count.
LEMMA FetchKeeps ==
  ASSUME NonceInv, NEW b \in BOOLEAN, Fetch(b)
  PROVE  TameNumbered' /\ NoGaps'
<1> DEFINE c == call.account
<1>1. TypeOK /\ c \in Accounts
  BY CallFacts DEF NonceInv, CallInv, HashInv, Fetch
<1>2. account \in [Accounts -> Account]
  BY <1>1 DEF TypeOK
<1>3. /\ account'[c].nonce = account[c].nonce /\ ~account'[c].is_updated
      /\ \A a \in Accounts : a # c => account'[a] = account[a]
  BY <1>1, <1>2 DEF Fetch, Account
<1>4. UNCHANGED <<txs, mined, gaps, late, reply>> /\ overlapped \subseteq overlapped'
  BY DEF Fetch, node
<1>5. reply = {}
  BY DEF NonceInv, CallInv, RepliesOld, Fetch
<1>6. NoGaps'
  BY <1>3, <1>4 DEF NonceInv, NoGaps, TxsOf
<1>7. ASSUME NEW a \in Accounts, Tame(a)'
      PROVE  Numbered(a)'
  <2>1. Numbered(a)
    BY <1>4, <1>7 DEF NonceInv, TameNumbered, Tame
  <2>2. TxsNumbered(a)' /\ TxsDiffer(a)'
    BY <1>3, <1>4, <2>1 DEF Numbered, TxsNumbered, TxsDiffer, UnderWay, Reaches, TxsOf
  <2>3. NotBehind(a)'
    BY <1>3, <1>4, <2>1 DEF Numbered, NotBehind
  <2>4. StandsStill(a)'
    <3>1. CASE call'.at = "state" /\ call'.account = a
      <4>1. call' = [call EXCEPT !.at = "state"]
        BY <3>1 DEF Fetch, Idle
      <4>2. call \in Call
        BY <1>1 DEF Fetch, TypeOK, Idle
      <4>3. a = c /\ b
        <5>1. call'.account = call.account
          BY <4>1, <4>2, <1>1 DEF Call, Fetch
        <5> QED
          BY <3>1, <5>1 DEF Fetch, Idle
      <4>4. Quiet(a)
        BY <1>7, <4>3 DEF Fetch, Tame
      <4> QED
        BY <1>4, <1>5, <4>4 DEF StandsStill, Quiet, TxsOf
    <3> QED
      BY <3>1 DEF StandsStill
  <2> QED
    BY <2>2, <2>3, <2>4 DEF Numbered
<1> QED
  BY <1>6, <1>7 DEF TameNumbered

----------------------------------------------------------------------------
\* The account when a nonce is taken.
LEMMA Taken ==
  ASSUME NonceInv, call.at = "encode", TakeNonce(call.account)
  PROVE  /\ call.account \in Accounts /\ account[call.account].is_updated
         /\ account[call.account].nonce \in Nat
         /\ account'[call.account].nonce = account[call.account].nonce + 1
         /\ account'[call.account].is_updated
         /\ \A a \in Accounts : a # call.account => account'[a] = account[a]
<1>1. call.account \in Accounts /\ account \in [Accounts -> Account]
  BY CallFacts DEF NonceInv, CallInv, HashInv, TypeOK
<1>2. account[call.account] \in Account /\ account[call.account].is_updated
  BY <1>1 DEF NonceInv, CallInv, StateKnown
<1>3. account' = [account EXCEPT ![call.account] =
                    [account[call.account] EXCEPT !.nonce = account[call.account].nonce + 1]]
  BY DEF TakeNonce
<1> QED
  BY <1>1, <1>2, <1>3 DEF Account

LEMMA NotSentKeeps ==
  ASSUME NonceInv, NotSent
  PROVE  TameNumbered' /\ NoGaps'
<1> PICK c \in Accounts : c = call.account
  BY Taken DEF NotSent
<1>1. /\ account[c].nonce \in Nat /\ account[c].is_updated
      /\ account'[c].nonce = account[c].nonce + 1
      /\ \A a \in Accounts : a # c => account'[a] = account[a]
  BY Taken DEF NotSent
<1>2. /\ UNCHANGED <<txs, mined, overlapped, late>>
      /\ gaps' = gaps \cup {c} /\ call' = Idle
  BY DEF NotSent, node
<1>3. NoGaps'
  BY <1>1, <1>2 DEF NonceInv, NoGaps, TxsOf
<1>4. mined \in [Accounts -> Nat] /\ \A i \in DOMAIN txs : txs[i].nonce \in Nat
  BY TxFacts DEF NonceInv, CallInv, HashInv, TypeOK
<1>5. ASSUME NEW a \in Accounts, Tame(a)'
      PROVE  Numbered(a)'
  <2>1. Numbered(a)
    BY <1>2, <1>5 DEF NonceInv, TameNumbered, Tame
  <2>2. TxsNumbered(a)' /\ NotBehind(a)'
    <3>1. CASE a = c
      BY <1>1, <1>2, <1>4, <2>1, <3>1
      DEF Numbered, TxsNumbered, NotBehind, UnderWay, TxsOf
    <3>2. CASE a # c
      BY <1>1, <1>2, <2>1, <3>2 DEF Numbered, TxsNumbered, NotBehind, UnderWay, TxsOf
    <3> QED
      BY <3>1, <3>2
  <2>3. TxsDiffer(a)' /\ StandsStill(a)'
    BY <1>2, <2>1 DEF Numbered, TxsDiffer, Reaches, StandsStill, TxsOf, Idle
  <2> QED
    BY <2>2, <2>3 DEF Numbered
<1> QED
  BY <1>3, <1>5 DEF TameNumbered

LEMMA SentKeeps ==
  ASSUME NonceInv, Sent
  PROVE  TameNumbered' /\ NoGaps'
<1> PICK c \in Accounts : c = call.account
  BY Taken DEF Sent
<1> PICK k : k = Len(txs) + 1
  OBVIOUS
<1> DEFINE
  t == [account |-> c, nonce |-> NextNonce(c),
        hash |-> blockchain_id_hash, at |-> "wire"]
<1>1. /\ account[c].nonce \in Nat /\ account[c].is_updated
      /\ account'[c].nonce = account[c].nonce + 1
      /\ \A a \in Accounts : a # c => account'[a] = account[a]
  BY Taken DEF Sent
<1>2. UNCHANGED <<mined, gaps, overlapped, late>> /\ call' = Idle /\ txs' = Append(txs, t)
  BY DEF Sent, history
<1>3. /\ txs \in Seq(Tx) /\ mined \in [Accounts -> Nat]
      /\ \A i \in DOMAIN txs : txs[i].nonce \in Nat
  BY TxFacts DEF NonceInv, CallInv, HashInv, TypeOK
<1>4. /\ k \notin DOMAIN txs
      /\ DOMAIN txs' = DOMAIN txs \cup {k}
      /\ \A i \in DOMAIN txs : txs'[i] = txs[i]
      /\ txs'[k] = t
  BY <1>2, <1>3
<1>5. \A a \in Accounts : TxsOf(a)' = TxsOf(a) \cup (IF a = c THEN {k} ELSE {})
  BY <1>4 DEF TxsOf
<1>6. t.account = c /\ t.nonce = account[c].nonce + 1 /\ t.at = "wire"
  BY DEF NextNonce
<1>7. NoGaps'
  <2> SUFFICES ASSUME NEW a \in Accounts \ gaps, account'[a].is_updated,
                      NEW n \in mined[a] + 1 .. account'[a].nonce
               PROVE  \E i \in TxsOf(a)' :
                        txs'[i].nonce = n /\ txs'[i].at \in {"wire", "pool"}
    BY <1>2 DEF NoGaps
  <2>1. CASE a = c /\ n = account'[c].nonce
    BY <1>1, <1>4, <1>5, <1>6, <2>1
  <2>2. CASE ~(a = c /\ n = account'[c].nonce)
    <3>1. account[a].is_updated /\ n \in mined[a] + 1 .. account[a].nonce
      <4>1. CASE a = c
        <5>1. mined[c] \in Nat /\ n # account[c].nonce + 1
          BY <1>1, <1>3, <2>2, <4>1
        <5> QED
          BY <1>1, <4>1, <5>1
      <4>2. CASE a # c
        <5>1. account'[a] = account[a]
          BY <1>1, <4>2
        <5> QED
          BY <5>1
      <4> QED
        BY <4>1, <4>2
    <3>2. PICK i \in TxsOf(a) : txs[i].nonce = n /\ txs[i].at \in {"wire", "pool"}
      BY <3>1 DEF NonceInv, NoGaps
    <3> QED
      BY <1>4, <1>5, <3>2 DEF TxsOf
  <2> QED
    BY <2>1, <2>2
<1>8. ASSUME NEW a \in Accounts, Tame(a)'
      PROVE  Numbered(a)'
  <2>1. Numbered(a)
    BY <1>2, <1>8 DEF NonceInv, TameNumbered, Tame
  <2>2. StandsStill(a)'
    BY <1>2 DEF StandsStill, Idle
  <2>3. CASE a # c
    <3>1. TxsOf(a)' = TxsOf(a) /\ account'[a] = account[a]
          /\ \A i \in TxsOf(a) : txs'[i] = txs[i]
      BY <1>1, <1>4, <1>5, <2>3 DEF TxsOf
    <3>2. TxsNumbered(a)' /\ TxsDiffer(a)' /\ NotBehind(a)'
      <4>1. TxsNumbered(a)'
        BY <1>2, <2>1, <3>1 DEF Numbered, TxsNumbered, UnderWay
      <4>2. TxsDiffer(a)'
        BY <2>1, <3>1 DEF Numbered, TxsDiffer, Reaches
      <4> QED
        BY <1>2, <2>1, <3>1, <4>1, <4>2 DEF Numbered, NotBehind
    <3> QED
      BY <2>2, <3>2 DEF Numbered
  <2>4. CASE a = c
    <3>1. /\ mined[c] <= account[c].nonce /\ mined[c] \in Nat
          /\ \A i \in TxsOf(c) :
               /\ txs'[i] = txs[i] /\ txs[i].nonce \in Nat /\ i # k
               /\ Reaches(i) => txs[i].nonce <= account[c].nonce
      <4>1. mined[c] <= account[c].nonce /\ mined[c] \in Nat
        BY <1>1, <1>3, <2>1, <2>4 DEF Numbered, NotBehind
      <4>2. ASSUME NEW i \in TxsOf(c)
            PROVE  /\ txs'[i] = txs[i] /\ txs[i].nonce \in Nat /\ i # k
                   /\ Reaches(i) => txs[i].nonce <= account[c].nonce
        <5>1. txs'[i] = txs[i] /\ txs[i].nonce \in Nat /\ i # k /\ txs[i] \in Tx
          BY <1>3, <1>4, TxFacts DEF TxsOf, NonceInv, CallInv, HashInv
        <5>2. Reaches(i) => UnderWay(i) \/ txs[i].at = "mined"
          BY <2>1, <2>4, <5>1 DEF Reaches, UnderWay, Tx, Numbered, TxsNumbered
        <5> QED
          BY <1>1, <2>1, <2>4, <4>1, <5>1, <5>2 DEF Numbered, TxsNumbered
      <4> QED
        BY <4>1, <4>2
    <3>2. TxsNumbered(c)'
      <4> SUFFICES ASSUME NEW i \in TxsOf(c)'
                   PROVE  /\ UnderWay(i)' => mined[c] < txs'[i].nonce
                                             /\ txs'[i].nonce <= account'[c].nonce
                          /\ txs'[i].at = "mined" => txs'[i].nonce <= mined[c]
                          /\ txs'[i].at # "rejected"
        BY <1>2 DEF TxsNumbered
      <4>1. CASE i = k
        BY <1>1, <1>4, <1>6, <3>1, <4>1
      <4>2. CASE i \in TxsOf(c)
        BY <1>1, <2>1, <2>4, <3>1, <4>2 DEF Numbered, TxsNumbered, UnderWay
      <4> QED
        BY <1>5, <4>1, <4>2
    <3>3. TxsDiffer(c)'
      <4> SUFFICES ASSUME NEW i \in TxsOf(c)', NEW j \in TxsOf(c)', i # j,
                          Reaches(i)', Reaches(j)'
                   PROVE  txs'[i].nonce # txs'[j].nonce
        BY DEF TxsDiffer
      <4>1. CASE i \in TxsOf(c) /\ j \in TxsOf(c)
        BY <2>1, <2>4, <3>1, <4>1 DEF Numbered, TxsDiffer, Reaches
      <4>2. CASE i = k /\ j \in TxsOf(c)
        BY <1>1, <1>4, <1>6, <3>1, <4>2 DEF Reaches
      <4>3. CASE j = k /\ i \in TxsOf(c)
        BY <1>1, <1>4, <1>6, <3>1, <4>3 DEF Reaches
      <4> QED
        BY <1>5, <4>1, <4>2, <4>3
    <3>4. NotBehind(c)'
      BY <1>1, <1>2, <3>1 DEF NotBehind
    <3> QED
      BY <2>2, <2>4, <3>2, <3>3, <3>4 DEF Numbered
  <2> QED
    BY <2>3, <2>4
<1> QED
  BY <1>7, <1>8 DEF TameNumbered

----------------------------------------------------------------------------
\* What a step of a transaction keeps of all of them.
LEMMA MoveKeeps ==
  ASSUME TypeOK, NEW i \in DOMAIN txs,
         NEW v \in {"wire", "pool", "mined", "rejected", "foreign", "lost"},
         txs' = [txs EXCEPT ![i].at = v]
  PROVE  /\ \A a : TxsOf(a)' = TxsOf(a)
         /\ \A j \in DOMAIN txs :
              /\ txs'[j].nonce = txs[j].nonce /\ txs[j].nonce \in Nat
              /\ txs'[j].at = IF j = i THEN v ELSE txs[j].at
         /\ txs[i].account \in Accounts
<1>1. \A a : TxsOf(a)' = TxsOf(a)
  BY TxMoves DEF TxsOf
<1>2. \A j \in DOMAIN txs :
        txs'[j].nonce = txs[j].nonce /\ txs'[j].at = IF j = i THEN v ELSE txs[j].at
  BY TxMoves
<1>3. \A j \in DOMAIN txs : txs[j].nonce \in Nat /\ txs[j].account \in Accounts
  BY TxFacts
<1> QED
  BY <1>1, <1>2, <1>3

LEMMA ArriveKeeps ==
  ASSUME NonceInv, NEW i \in DOMAIN txs, Arrive(i)
  PROVE  TameNumbered' /\ NoGaps'
<1> PICK v : v = Verdict(txs[i])
  OBVIOUS
<1>1. TypeOK /\ mined \in [Accounts -> Nat]
  BY DEF NonceInv, CallInv, HashInv, TypeOK
<1>2. v \in {"pool", "rejected", "foreign"} /\ txs' = [txs EXCEPT ![i].at = v]
  BY DEF Arrive, Verdict
<1>3. /\ \A a : TxsOf(a)' = TxsOf(a)
      /\ \A j \in DOMAIN txs :
           /\ txs'[j].nonce = txs[j].nonce /\ txs[j].nonce \in Nat
           /\ txs'[j].at = IF j = i THEN v ELSE txs[j].at
      /\ txs[i].account \in Accounts
  <2>1. v \in {"wire", "pool", "mined", "rejected", "foreign", "lost"}
    BY <1>2
  <2> QED
    BY <1>1, <1>2, <2>1, MoveKeeps
<1>4. /\ txs[i].at = "wire"
      /\ UNCHANGED <<account, call, reply, mined, overlapped, late>>
      /\ gaps \subseteq gaps'
      /\ v = "foreign" => txs[i].account \in gaps'
  BY DEF Arrive, Verdict
<1>5. v = "rejected" => ~Fits(txs[i])
  BY DEF Verdict
<1>6. NoGaps'
  <2> SUFFICES ASSUME NEW a \in Accounts \ gaps', account'[a].is_updated,
                      NEW n \in mined'[a] + 1 .. account'[a].nonce
               PROVE  \E j \in TxsOf(a)' :
                        txs'[j].nonce = n /\ txs'[j].at \in {"wire", "pool"}
    BY DEF NoGaps
  <2>1. PICK j \in TxsOf(a) : txs[j].nonce = n /\ txs[j].at \in {"wire", "pool"}
    BY <1>4 DEF NonceInv, NoGaps
  <2>2. j \in DOMAIN txs /\ txs[j].account = a
    BY DEF TxsOf
  <2>3. CASE j # i \/ v = "pool"
    BY <1>3, <2>1, <2>2, <2>3
  <2>4. CASE j = i /\ v = "rejected"
    <3>1. txs[i].nonce > mined[a]
      BY <1>1, <1>4, <2>1, <2>4
    <3>2. PICK k \in TxsOf(a) : txs[k].at = "pool" /\ txs[k].nonce = n
      BY <1>5, <2>1, <2>2, <2>4, <3>1 DEF Fits
    <3>3. k \in DOMAIN txs /\ k # i
      BY <1>4, <3>2 DEF TxsOf
    <3> QED
      BY <1>3, <3>2, <3>3
  <2>5. CASE j = i /\ v = "foreign"
    BY <1>4, <2>2, <2>5
  <2> QED
    BY <1>2, <2>3, <2>4, <2>5
<1>7. ASSUME NEW a \in Accounts, Tame(a)'
      PROVE  Numbered(a)'
  <2>1. Numbered(a)
    BY <1>4, <1>7 DEF NonceInv, TameNumbered, Tame
  <2>2. TxsOf(a) \subseteq DOMAIN txs
    BY DEF TxsOf
  <2>3. i \in TxsOf(a) => v # "rejected"
    <3> SUFFICES ASSUME i \in TxsOf(a)
                 PROVE  Fits(txs[i])
      BY <1>5
    <3>1. txs[i].account = a
      BY DEF TxsOf
    <3>2. txs[i].nonce > mined[a]
      BY <1>1, <1>3, <1>4, <2>1 DEF Numbered, TxsNumbered, UnderWay
    <3>3. ASSUME NEW j \in TxsOf(a), txs[j].at = "pool"
          PROVE  txs[j].nonce # txs[i].nonce
      <4>1. j # i /\ Reaches(i) /\ Reaches(j)
        BY <1>4, <3>3 DEF Reaches
      <4> QED
        BY <2>1, <4>1 DEF Numbered, TxsDiffer
    <3> QED
      BY <3>1, <3>2, <3>3 DEF Fits
  <2>4. TxsNumbered(a)'
    BY <1>2, <1>3, <1>4, <2>1, <2>2, <2>3 DEF Numbered, TxsNumbered, UnderWay
  <2>5. TxsDiffer(a)'
    BY <1>3, <1>4, <2>1, <2>2 DEF Numbered, TxsDiffer, Reaches
  <2>6. NotBehind(a)'
    BY <1>4, <2>1 DEF Numbered, NotBehind
  <2>7. StandsStill(a)'
    BY <1>3, <1>4, <2>1, <2>2 DEF Numbered, StandsStill, Quiet
  <2> QED
    BY <2>4, <2>5, <2>6, <2>7 DEF Numbered
<1> QED
  BY <1>6, <1>7 DEF TameNumbered

LEMMA LoseKeeps ==
  ASSUME NonceInv, NEW i \in DOMAIN txs, Lose(i)
  PROVE  TameNumbered' /\ NoGaps'
<1>1. TypeOK
  BY DEF NonceInv, CallInv, HashInv
<1>2. txs' = [txs EXCEPT ![i].at = "lost"]
  BY DEF Lose
<1>3. /\ \A a : TxsOf(a)' = TxsOf(a)
      /\ \A j \in DOMAIN txs :
           /\ txs'[j].nonce = txs[j].nonce
           /\ txs'[j].at = IF j = i THEN "lost" ELSE txs[j].at
  BY <1>1, <1>2, MoveKeeps
<1>4. /\ UNCHANGED <<account, call, reply, mined, overlapped, late>>
      /\ gaps' = gaps \cup {txs[i].account}
  BY DEF Lose
<1>5. NoGaps'
  <2> SUFFICES ASSUME NEW a \in Accounts \ gaps', account'[a].is_updated,
                      NEW n \in mined'[a] + 1 .. account'[a].nonce
               PROVE  \E j \in TxsOf(a)' :
                        txs'[j].nonce = n /\ txs'[j].at \in {"wire", "pool"}
    BY DEF NoGaps
  <2>1. PICK j \in TxsOf(a) : txs[j].nonce = n /\ txs[j].at \in {"wire", "pool"}
    BY <1>4 DEF NonceInv, NoGaps
  <2>2. j \in DOMAIN txs /\ j # i
    BY <1>4 DEF TxsOf
  <2> QED
    BY <1>3, <2>1, <2>2
<1>6. ASSUME NEW a \in Accounts, Tame(a)'
      PROVE  Numbered(a)'
  <2>1. Numbered(a)
    BY <1>4, <1>6 DEF NonceInv, TameNumbered, Tame
  <2>2. TxsOf(a) \subseteq DOMAIN txs
    BY DEF TxsOf
  <2>3. TxsNumbered(a)'
    BY <1>3, <1>4, <2>1, <2>2 DEF Numbered, TxsNumbered, UnderWay
  <2>4. TxsDiffer(a)'
    BY <1>3, <2>1, <2>2 DEF Numbered, TxsDiffer, Reaches
  <2>5. NotBehind(a)' /\ StandsStill(a)'
    BY <1>3, <1>4, <2>1, <2>2 DEF Numbered, NotBehind, StandsStill, Quiet
  <2> QED
    BY <2>3, <2>4, <2>5 DEF Numbered
<1> QED
  BY <1>5, <1>6 DEF TameNumbered

LEMMA MineKeeps ==
  ASSUME NonceInv, NEW i \in DOMAIN txs, Mine(i)
  PROVE  TameNumbered' /\ NoGaps'
<1> PICK c : c = txs[i].account
  OBVIOUS
<1>1. TypeOK /\ mined \in [Accounts -> Nat]
  BY DEF NonceInv, CallInv, HashInv, TypeOK
<1>2. txs' = [txs EXCEPT ![i].at = "mined"]
  BY DEF Mine
<1>3. /\ \A a : TxsOf(a)' = TxsOf(a)
      /\ \A j \in DOMAIN txs :
           /\ txs'[j].nonce = txs[j].nonce /\ txs[j].nonce \in Nat
           /\ txs'[j].at = IF j = i THEN "mined" ELSE txs[j].at
      /\ c \in Accounts
  BY <1>1, <1>2, MoveKeeps
<1>4. /\ UNCHANGED <<account, call, reply, gaps, overlapped, late>>
      /\ txs[i].at = "pool" /\ txs[i].nonce = mined[c] + 1
      /\ mined'[c] = mined[c] + 1
      /\ \A a \in Accounts : a # c => mined'[a] = mined[a]
  BY <1>1, <1>3 DEF Mine, history
<1>5. NoGaps'
  <2> SUFFICES ASSUME NEW a \in Accounts \ gaps', account'[a].is_updated,
                      NEW n \in mined'[a] + 1 .. account'[a].nonce
               PROVE  \E j \in TxsOf(a)' :
                        txs'[j].nonce = n /\ txs'[j].at \in {"wire", "pool"}
    BY DEF NoGaps
  <2>1. n \in mined[a] + 1 .. account[a].nonce /\ (a = c => n # mined[c] + 1)
    <3>1. account[a].nonce \in Nat /\ mined[a] \in Nat
      BY <1>1, AccountKeeps
    <3> QED
      BY <1>4, <3>1
  <2>2. PICK j \in TxsOf(a) : txs[j].nonce = n /\ txs[j].at \in {"wire", "pool"}
    BY <1>4, <2>1 DEF NonceInv, NoGaps
  <2>3. j \in DOMAIN txs /\ txs[j].account = a /\ j # i
    BY <1>4, <2>1, <2>2 DEF TxsOf
  <2> QED
    BY <1>3, <2>2, <2>3
<1>6. ASSUME NEW a \in Accounts, Tame(a)'
      PROVE  Numbered(a)'
  <2>1. Numbered(a)
    BY <1>4, <1>6 DEF NonceInv, TameNumbered, Tame
  <2>2. TxsOf(a) \subseteq DOMAIN txs /\ (i \in TxsOf(a) <=> a = c)
    BY DEF TxsOf
  <2>3. /\ mined[a] \in Nat /\ account[a].nonce \in Nat
        /\ mined'[a] = IF a = c THEN mined[a] + 1 ELSE mined[a]
        /\ a = c => mined'[a] <= account[a].nonce
    BY <1>1, <1>4, <2>1, <2>2, AccountKeeps DEF Numbered, TxsNumbered, UnderWay
  <2>4. TxsNumbered(a)'
    <3> SUFFICES ASSUME NEW j \in TxsOf(a)
                 PROVE  /\ UnderWay(j)' => mined'[a] < txs[j].nonce
                                           /\ txs[j].nonce <= account[a].nonce
                        /\ txs'[j].at = "mined" => txs[j].nonce <= mined'[a]
                        /\ txs'[j].at # "rejected"
      BY <1>3, <1>4, <2>2 DEF TxsNumbered
    <3>1. CASE j = i
      BY <1>3, <1>4, <2>2, <2>3, <3>1 DEF UnderWay
    <3>2. CASE j # i
      <4>1. txs'[j].at = txs[j].at /\ txs[j].nonce \in Nat
        BY <1>3, <2>2, <3>2
      <4>2. /\ UnderWay(j) => mined[a] < txs[j].nonce /\ txs[j].nonce <= account[a].nonce
            /\ txs[j].at = "mined" => txs[j].nonce <= mined[a]
            /\ txs[j].at # "rejected"
        BY <2>1 DEF Numbered, TxsNumbered
      <4>3. a = c /\ UnderWay(j) => txs[j].nonce # mined[a] + 1
        BY <1>4, <2>1, <2>2, <3>2 DEF Numbered, TxsDiffer, Reaches, UnderWay
      <4> QED
        BY <2>3, <4>1, <4>2, <4>3 DEF UnderWay
    <3> QED
      BY <3>1, <3>2
  <2>5. TxsDiffer(a)'
    BY <1>3, <1>4, <2>1, <2>2 DEF Numbered, TxsDiffer, Reaches
  <2>6. NotBehind(a)'
    BY <1>4, <2>1, <2>3 DEF Numbered, NotBehind
  <2>7. StandsStill(a)'
    <3>1. call.at = "state" /\ call.account = a => a # c
      BY <1>4, <2>1, <2>2 DEF Numbered, StandsStill, Quiet
    <3> QED
      BY <1>3, <1>4, <2>1, <2>2, <2>3, <3>1 DEF Numbered, StandsStill, Quiet
  <2> QED
    BY <2>4, <2>5, <2>6, <2>7 DEF Numbered
<1> QED
  BY <1>5, <1>6 DEF TameNumbered

----------------------------------------------------------------------------
(* The call, and the replies.                                              *)

LeftOld ==
  \A r \in leftState :
    r.account \in late /\ \A n \in r.reply : n <= mined[r.account]

LEMMA ElsewhereCall ==
  ASSUME CallInv, Elsewhere, LeftOld'
  PROVE  RepliesOld' /\ StateKnown'
<1>1. reply # {} => call.at = "state" /\ call.account \in Accounts
  BY CallFacts DEF CallInv, HashInv, RepliesOld
<1>2. call.at = "state" => mined[call.account] \in Nat
  BY CallFacts DEF CallInv, HashInv, TypeOK
<1>3. \A n \in reply' : n <= mined'[call'.account]
  BY <1>1, <1>2 DEF Elsewhere, CallInv, RepliesOld
<1> QED
  BY <1>3 DEF Elsewhere, RepliesOld, LeftOld, StateKnown

LEMMA OthersLeft ==
  ASSUME CallInv,
         \/ NoKey \/ NoBuffers \/ Answer \/ \E b \in BOOLEAN : StateFails(b)
         \/ \E i \in Instances : LateStatus(i)
         \/ \E r \in leftState : LateAnswer(r)
  PROVE  LeftOld'
<1>1. LeftOld /\ TypeOK
  BY DEF CallInv, HashInv, RepliesOld, LeftOld
<1>2. CASE NoKey \/ NoBuffers \/ Answer \/ \E i \in Instances : LateStatus(i)
  BY <1>1, <1>2 DEF NoKey, NoBuffers, Answer, LateStatus, LeftOld, left, node, history
<1>3. ASSUME NEW b \in BOOLEAN, StateFails(b)
      PROVE  LeftOld'
  BY <1>1, <1>3 DEF StateFails, LeftOld, node, CallInv, RepliesOld
<1>4. ASSUME NEW r \in leftState, LateAnswer(r)
      PROVE  LeftOld'
  <2> DEFINE s == [r EXCEPT !.reply = {mined[r.account]}]
  <2>1. r.account \in Accounts /\ mined[r.account] \in Nat
    BY <1>1 DEF TypeOK
  <2>2. s.account = r.account /\ s.reply = {mined[r.account]}
    BY <1>1 DEF TypeOK
  <2>3. s.account \in late /\ \A n \in s.reply : n <= mined[s.account]
    BY <1>1, <2>1, <2>2 DEF LeftOld
  <2>4. /\ leftState' = (leftState \ {r}) \cup {s}
        /\ UNCHANGED <<late, mined>>
    BY <1>4 DEF LateAnswer, node, history
  <2> QED
    BY <1>1, <2>3, <2>4 DEF LeftOld
<1> QED
  BY <1>2, <1>3, <1>4

LEMMA NodeCall ==
  ASSUME CallInv, NEW i \in DOMAIN txs, Arrive(i) \/ Lose(i) \/ Mine(i)
  PROVE  RepliesOld' /\ StateKnown'
<1>1. TypeOK /\ mined \in [Accounts -> Nat]
  BY DEF CallInv, HashInv, TypeOK
<1>2. \A a \in Accounts : mined[a] \in Nat /\ mined[a] <= mined'[a] /\ mined'[a] \in Nat
  BY <1>1 DEF Arrive, Lose, Mine
<1>3. UNCHANGED <<account, call, reply, leftState, late>>
  BY DEF Arrive, Lose, Mine, left, history
<1>4. reply # {} => call.account \in Accounts
  BY <1>1, CallFacts DEF CallInv, RepliesOld
<1>5. \A r \in leftState : r.account \in Accounts /\ r.reply \subseteq Nat
  BY <1>1 DEF TypeOK
<1>6. \A n \in reply' : n <= mined'[call'.account]
  BY <1>1, <1>2, <1>3, <1>4 DEF CallInv, RepliesOld, TypeOK
<1>7. LeftOld'
  <2> SUFFICES ASSUME NEW r \in leftState
               PROVE  r.account \in late /\ \A n \in r.reply : n <= mined'[r.account]
    BY <1>3 DEF LeftOld
  <2> QED
    BY <1>2, <1>5 DEF CallInv, RepliesOld
<1> QED
  BY <1>3, <1>6, <1>7 DEF CallInv, RepliesOld, LeftOld, StateKnown

LEMMA NonceNext == ASSUME NonceInv, [Next]_vars PROVE NonceInv'
<1>1. HashInv'
  BY HashNext DEF NonceInv, CallInv
<1>2. CallInv /\ LeftOld
  BY DEF NonceInv, CallInv, RepliesOld, LeftOld
<1>3. ASSUME Elsewhere, LeftOld'
      PROVE  NonceInv'
  BY <1>1, <1>2, <1>3, ElsewhereKeeps, ElsewhereCall DEF NonceInv, CallInv
<1>4. CASE \/ \E a \in Accounts : Transact(a) \/ GetState(a)
           \/ \E i \in Instances : GetStatus(i)
  <2>1. Elsewhere /\ UNCHANGED leftState
    BY <1>2, <1>4, BeginElsewhere
  <2>2. LeftOld'
    BY <1>2, <2>1 DEF LeftOld, Elsewhere
  <2> QED
    BY <1>3, <2>1, <2>2
<1>5. CASE StatusReply \/ \E b \in BOOLEAN : StatusFails(b)
  <2>1. Elsewhere /\ UNCHANGED leftState
    BY <1>2, <1>5, StatusElsewhere
  <2>2. LeftOld'
    BY <1>2, <2>1 DEF LeftOld, Elsewhere
  <2> QED
    BY <1>3, <2>1, <2>2
<1>6. CASE \/ NoKey \/ NoBuffers \/ Answer \/ \E b \in BOOLEAN : StateFails(b)
           \/ \E i \in Instances : LateStatus(i)
           \/ \E r \in leftState : LateAnswer(r)
  BY <1>2, <1>3, <1>6, OthersElsewhere, OthersLeft
<1>7. CASE StateReply \/ \E r \in leftState : LateState(r)
  <2>1. Refetched /\ leftState' \subseteq leftState
    BY <1>7, StatesRefetch
  <2>2. RepliesOld' /\ StateKnown'
    BY <1>2, <2>1 DEF Refetched, CallInv, RepliesOld, StateKnown
  <2> QED
    BY <1>1, <2>1, <2>2, RefetchedKeeps DEF NonceInv, CallInv
<1>8. ASSUME NEW b \in BOOLEAN, Fetch(b)
      PROVE  NonceInv'
  <2>1. reply = {} /\ call'.at \in {"state", "idle"}
    <3>1. TypeOK /\ call.at = "fetch"
      BY <1>8 DEF NonceInv, CallInv, HashInv, Fetch
    <3>2. reply = {}
      BY <1>2, <3>1 DEF CallInv, RepliesOld
    <3>3. CASE call' = [call EXCEPT !.at = "state"]
      <4>1. call'.at = "state"
        BY <3>1, <3>3 DEF TypeOK, Call, Idle
      <4> QED
        BY <3>2, <4>1
    <3>4. CASE call' = Idle
      BY <3>2, <3>4 DEF Idle
    <3> QED
      BY <1>8, <3>3, <3>4 DEF Fetch
  <2>2. UNCHANGED <<reply, mined, leftState, late>>
    BY <1>8 DEF Fetch, left, node
  <2>3. RepliesOld' /\ StateKnown'
    BY <1>2, <2>1, <2>2 DEF LeftOld, RepliesOld, StateKnown
  <2> QED
    BY <1>1, <1>8, <2>3, FetchKeeps DEF NonceInv, CallInv
<1>9. CASE Sent \/ NotSent
  <2>1. /\ call' = Idle /\ reply = {}
        /\ UNCHANGED <<reply, mined, leftState, late>>
    BY <1>2, <1>9 DEF Sent, NotSent, left, node, history, CallInv, RepliesOld
  <2>2. RepliesOld' /\ StateKnown'
    BY <1>2, <2>1 DEF LeftOld, RepliesOld, StateKnown, Idle
  <2> QED
    BY <1>1, <1>9, <2>2, SentKeeps, NotSentKeeps DEF NonceInv, CallInv
<1>10. ASSUME NEW i \in DOMAIN txs, Arrive(i) \/ Lose(i) \/ Mine(i)
       PROVE  NonceInv'
  BY <1>1, <1>2, <1>10, NodeCall, ArriveKeeps, LoseKeeps, MineKeeps DEF NonceInv, CallInv
<1>11. CASE UNCHANGED vars
  BY <1>11 DEF vars, NonceInv, CallInv, HashInv, TypeOK, HashKnown, HashHeard,
     RepliesOld, StateKnown, TameNumbered, Numbered, TxsNumbered, TxsDiffer, NotBehind,
     StandsStill, NoGaps, Tame, UnderWay, Reaches, Quiet, TxsOf
<1> QED
  BY <1>4, <1>5, <1>6, <1>7, <1>8, <1>9, <1>10, <1>11 DEF Next, Library, Node

LEMMA NonceAlways == Spec => []NonceInv
BY NonceInit, NonceNext, PTL DEF Spec

----------------------------------------------------------------------------
\* No transaction of an account shares its nonce with another one, unless the
\* application had the nonce set back: whatever calls fail, and however often
\* its state is fetched while nothing is under way.
THEOREM NoncesNeverShared == Spec => []NoncesDiffer
<1>1. ASSUME NonceInv
      PROVE  NoncesDiffer
  <2> SUFFICES ASSUME NEW i \in DOMAIN txs, NEW j \in DOMAIN txs, i # j,
                      txs[i].account = txs[j].account,
                      {txs[i].at, txs[j].at} \cap {"lost", "foreign"} = {},
                      txs[i].nonce = txs[j].nonce,
                      Tame(txs[i].account)
               PROVE  FALSE
    BY DEF NoncesDiffer, Tame
  <2>1. txs[i].account \in Accounts
    BY <1>1, TxFacts DEF NonceInv, CallInv, HashInv
  <2>2. TxsDiffer(txs[i].account)
    BY <1>1, <2>1 DEF NonceInv, TameNumbered, Numbered
  <2>3. i \in TxsOf(txs[i].account) /\ j \in TxsOf(txs[i].account)
    BY DEF TxsOf
  <2> QED
    BY <2>2, <2>3 DEF TxsDiffer, Reaches
<1> QED
  BY <1>1, NonceAlways, PTL

\* A transaction on its way has a nonce the chain has not reached, with the
\* same exception.
THEOREM NoncesStayFresh == Spec => []NonceIsFresh
<1>1. ASSUME NonceInv
      PROVE  NonceIsFresh
  <2> SUFFICES ASSUME NEW i \in DOMAIN txs, txs[i].at = "wire",
                      Tame(txs[i].account)
               PROVE  txs[i].nonce > mined[txs[i].account]
    BY DEF NonceIsFresh, Tame
  <2>1. TypeOK /\ txs[i].account \in Accounts /\ txs[i].nonce \in Nat
    BY <1>1, TxFacts DEF NonceInv, CallInv, HashInv
  <2>2. i \in TxsOf(txs[i].account) /\ UnderWay(i)
    BY DEF TxsOf, UnderWay
  <2>3. mined[txs[i].account] < txs[i].nonce
    BY <1>1, <2>1, <2>2 DEF NonceInv, TameNumbered, Numbered, TxsNumbered
  <2> QED
    BY <2>1, <2>3 DEF TypeOK
<1> QED
  BY <1>1, NonceAlways, PTL

\* Every nonce the account counted is on its way or executed, unless a call
\* failed after taking it or its transaction was lost: also if states are
\* fetched while transactions are under way, or arrive late.
THEOREM NoncesConsecutive == Spec => []NoGaps
<1>1. NonceInv => NoGaps
  BY DEF NonceInv
<1> QED
  BY <1>1, NonceAlways, PTL
=============================================================================
