---------------------- MODULE RequestEngineTold_proofs ----------------------
(***************************************************************************)
(* What callers are told, for every number of calls, requests, attempts    *)
(* and faults.  As long as no nested loop is left by an error of curl: an  *)
(* answer comes once, and nothing is asked of the node after it.  As long  *)
(* as no fault happens: nothing is outstanding when polling returns 0.     *)
(***************************************************************************)
EXTENDS RequestEngineFetches_proofs

(***************************************************************************)
(* A caller was told only if its request is through: answered, and with no *)
(* receipt to wait for.  Subscriptions do not count as told.               *)
(***************************************************************************)
ToldDone ==
  \A r \in Ids :
    /\ told[r] \in {0, 1}
    /\ told[r] = 1 => /\ r \in Used /\ req[r].kind # "stream"
                      /\ req[r].processed /\ ~req[r].need_receipt

(***************************************************************************)
(* What a step outside of the network does to the structs: it answers      *)
(* none, makes none wait for a receipt, and the ones it adds are children  *)
(* of requests that did wait.                                              *)
(***************************************************************************)
Evolves ==
  /\ told' = told
  /\ Used \subseteq Used'
  /\ \A i \in Used : /\ SameProgress(req', req, i)
                     /\ req'[i].kind = req[i].kind /\ req'[i].parent = req[i].parent
                     /\ req'[i].need_receipt => req[i].need_receipt
  /\ \A i \in Used' \ Used : req'[i].parent # NoReq => req[req'[i].parent].need_receipt

LEMMA SendEvolves ==
  ASSUME TypeOK, NEW structs \in [Ids -> Request], SameStruct(structs, req),
         NEW request, NEW w, Send(structs, request, w), told' = told,
         \A i \in Ids : structs[i].need_receipt => req[i].need_receipt,
         request.parent # NoReq => req[request.parent].need_receipt
  PROVE  Evolves
<1> DEFINE new == created + 1
<1>1. new \in Ids /\ new \notin Used /\ Used' = Used \cup {new}
  <2>1. created \in 0 .. MaxRequests /\ created < MaxRequests
    BY DEF TypeOK, Send
  <2> QED
    BY <2>1, EngineAssumption DEF Used, Ids, Send
<1>2. req'[new] = request /\ \A i \in Ids \ {new} : req'[i] = structs[i]
  BY <1>1 DEF Send
<1> HIDE DEF new
<1>3. \A i \in Used : /\ SameProgress(req', req, i)
                      /\ req'[i].kind = req[i].kind /\ req'[i].parent = req[i].parent
                      /\ req'[i].need_receipt => req[i].need_receipt
  BY <1>1, <1>2, UsedIds DEF SameStruct, SameOrigin, SameProgress
<1> QED
  BY <1>1, <1>2, <1>3 DEF Evolves

\* The same of a step that allocates no struct.
LEMMA QuietEvolves ==
  ASSUME TypeOK, told' = told, created' = created, SameStruct(req', req),
         \A i \in Ids : req'[i].need_receipt => req[i].need_receipt
  PROVE  Evolves
<1>1. Used' = Used
  BY DEF Used
<1> QED
  BY <1>1, UsedIds DEF Evolves, SameStruct, SameOrigin

LEMMA LocalEvolves ==
  ASSUME FetchInv, Application \/ Loop \/ CurlFails \/ UNCHANGED vars
  PROVE  Evolves
<1>1. TypeOK /\ req \in [Ids -> Request] /\ SameStruct(req, req)
  BY FetchBasics
<1>2. ASSUME UNCHANGED <<told, created, req>>
      PROVE  Evolves
  BY <1>1, <1>2, QuietEvolves
<1>3. ASSUME NEW structs, NEW request, NEW w, NEW p, Sends(structs, request, w, p),
             told' = told, \A i \in Ids : structs[i].need_receipt => req[i].need_receipt
      PROVE  Evolves
  BY <1>1, <1>3, SendEvolves DEF Sends, ToFetch
<1>4. CASE \/ \E k \in AsyncKinds : AsyncCall(k) \/ RefusedCall(k, FALSE)
           \/ \E k \in SyncKinds : SyncCall(k, TRUE) \/ RefusedCall(k, TRUE)
           \/ NullReceipt /\ SyncCall("commit", FALSE)
  <2>1. PICK request, w, p : Sends(req, request, w, p)
    BY <1>4, RootSends
  <2>2. told' = told
    BY <1>4 DEF AsyncCall, SyncCall, RefusedCall
  <2> QED
    BY <1>3, <2>1, <2>2
<1>5. ASSUME NEW p \in ToFetch, NEW structs \in {Fetching(p), Unfetched(p)}
      PROVE  \A i \in Ids : structs[i].need_receipt => req[i].need_receipt
  <2>1. p \in Ids /\ req[p].need_receipt
    BY FetchBasics DEF ToFetch
  <2> QED
    BY <1>1, <2>1 DEF Fetching, Unfetched
<1>6. CASE FetchReceipt \/ FetchRefused
  <2>1. PICK p, request, w, structs :
          /\ p \in ToFetch /\ structs \in {Fetching(p), Unfetched(p)}
          /\ Sends(structs, request, w, p)
    BY <1>6, ChildSends
  <2>2. told' = told
    BY <1>6 DEF FetchReceipt, FetchRefused
  <2> QED
    BY <1>3, <1>5, <2>1, <2>2
<1>7. CASE FetchNoMemory
  <2>1. PICK p \in ToFetch : p \in Ids /\ req' = Unfetched(p)
    BY <1>7 DEF FetchNoMemory, NextToFetch, Unfetched
  <2>2. SameStruct(req', req)
    BY <1>1, <2>1, UnfetchedType
  <2>3. told' = told /\ created' = created
    BY <1>7 DEF FetchNoMemory, link
  <2> QED
    BY <1>1, <1>5, <2>1, <2>2, <2>3, QuietEvolves
<1>8. CASE Leave \/ CurlFails
  <2>1. PICK p : req' \in {req, [req EXCEPT ![p].need_receipt = FALSE]}
    BY <1>8 DEF Leave, CurlFails, Return
  <2>2. /\ SameStruct(req', req)
        /\ \A i \in Ids : req'[i].need_receipt => req[i].need_receipt
    BY <1>1, <2>1 DEF SameStruct, SameOrigin, SameProgress, Request
  <2>3. told' = told /\ created' = created
    BY <1>8 DEF Leave, CurlFails, link
  <2> QED
    BY <1>1, <2>2, <2>3, QuietEvolves
<1>9. CASE Poll \/ Free \/ Ended \/ Collect \/ WaitAgain \/ UNCHANGED vars
  BY <1>2, <1>9 DEF Poll, Free, Ended, Collect, WaitAgain, vars
<1> QED
  BY <1>4, <1>6, <1>7, <1>8, <1>9 DEF Application, Loop

(***************************************************************************)
(* What an answer to r tells: nothing, or the caller it is for, whose      *)
(* request is then through and is no subscription.                         *)
(***************************************************************************)
Through(q, s) == s[q].processed /\ ~s[q].need_receipt

LEMMA AnswerThrough ==
  ASSUME FetchInv, NEW r \in Ids, NEW ok \in BOOLEAN
  PROVE  /\ req[r].kind # "commit" => Through(r, Processed(r, ok))
         /\ Through(r, Committed(r, FALSE))
         /\ LET p == req[r].parent
            IN  p # NoReq /\ req[p].processed =>
                  /\ Through(p, WithReceipt(Processed(r, ok), p))
                  /\ Through(p, WithoutReceipt(Processed(r, ok), p))
                  /\ Through(p, NotFound(Processed(r, ok), p, TRUE))
<1> DEFINE s == Processed(r, ok)
           p == req[r].parent
<1>1. req \in [Ids -> Request] /\ p \in Ids \cup {NoReq} /\ Lineage
  BY FetchBasics DEF FetchInv
<1>2. /\ s \in [Ids -> Request] /\ s[r].processed = TRUE
      /\ \A i \in Ids : /\ s[i].need_receipt = req[i].need_receipt
                        /\ i # r => s[i].processed = req[i].processed
  <2>1. s \in [Ids -> Request]
    BY <1>1, AnswerUpdates DEF Answers
  <2> QED
    BY ZenonT(25), <1>1, <2>1 DEF Processed, Request
<1>3. req[r].kind # "commit" => Through(r, s)
  BY <1>1, <1>2 DEF Through, Lineage
<1>5. Through(r, Committed(r, FALSE))
  <2>1. PICK f \in [Ids -> Request] : f = Processed(r, FALSE)
    BY <1>1, AnswerUpdates DEF Answers
  <2>2. f[r].processed = TRUE
    BY <1>1, <2>1 DEF Processed, Request
  <2>3. Committed(r, FALSE) = [f EXCEPT ![r].need_receipt = FALSE]
    BY <2>1 DEF Committed
  <2>4. /\ Committed(r, FALSE)[r].processed = TRUE
        /\ Committed(r, FALSE)[r].need_receipt = FALSE
    BY <2>2, <2>3 DEF Request
  <2> QED
    BY <2>4 DEF Through
<1> HIDE DEF s
<1>4. ASSUME p # NoReq, req[p].processed
      PROVE  /\ Through(p, WithReceipt(s, p)) /\ Through(p, WithoutReceipt(s, p))
             /\ Through(p, NotFound(s, p, TRUE))
  <2>1. p \in Ids
    BY <1>1, <1>4
  <2>2. s[p].processed
    BY <1>2, <1>4, <2>1
  <2> HIDE DEF p
  <2>3. Through(p, WithReceipt(s, p)) /\ Through(p, WithoutReceipt(s, p))
    BY <1>2, <1>4, <2>1, <2>2 DEF Through, WithReceipt, WithoutReceipt, Request
  <2>4. Through(p, NotFound(s, p, TRUE))
    BY <1>2, <1>4, <2>1, <2>2 DEF Through, NotFound, Request
  <2> QED
    BY <2>3, <2>4
<1> QED
  BY <1>3, <1>4, <1>5 DEF s

Tells(r) ==
  \/ told' = told
  \/ /\ Tell(Root(r))
     /\ Through(Root(r), req')
     /\ req[r].kind # "stream"

LEMMA NetworkTells ==
  ASSUME FetchInv, NEW r \in Ids, NetworkStep(r)
  PROVE  Tells(r)
<1> DEFINE p == req[r].parent
<1>1. wire[r] = "open"
  BY NetworkFacts
<1>3. Pointee(r) = {p}
  BY <1>1, ParentPointed DEF FetchInv
<1>4. p # NoReq => req[p].processed /\ req[r].kind = "receipt"
  BY DEF FetchInv, Lineage
<1>5. Root(r) = IF p = NoReq THEN r ELSE p
  BY DEF Root
<1>6. CASE ReceiptResponse(r)
  <2>1. PICK ok \in BOOLEAN : /\ req' = WithReceipt(Processed(r, ok), p)
                              /\ ok => Tell(Root(r))
                              /\ ~ok => told' = told
    BY <1>3, <1>6 DEF ReceiptResponse
  <2>2. req[r].kind = "receipt"
    BY <1>6 DEF ReceiptResponse, Awaited
  <2>3. p = NoReq => Through(r, req')
    BY <2>1, <2>2, AnswerThrough DEF WithReceipt
  <2>4. p # NoReq => Through(p, req')
    BY <1>4, <2>1, AnswerThrough
  <2> HIDE DEF p
  <2> QED
    BY <1>5, <2>1, <2>2, <2>3, <2>4 DEF Tells
<1>7. CASE ReceiptError(r)
  <2>1. p # NoReq /\ req[r].kind = "receipt"
    BY <1>7 DEF ReceiptError, Awaited
  <2>2. req' = WithoutReceipt(Processed(r, FALSE), p)
    BY <1>3, <1>7 DEF ReceiptError
  <2>3. Tell(Root(r)) \/ told' = told
    BY <1>7 DEF ReceiptError
  <2>4. Through(p, req')
    BY <1>4, <2>1, <2>2, AnswerThrough
  <2> HIDE DEF p
  <2> QED
    BY <1>5, <2>1, <2>3, <2>4 DEF Tells
<1>8. CASE ReceiptNotFound(r)
  <2>1. p # NoReq /\ req[r].kind = "receipt"
    BY <1>8 DEF ReceiptNotFound, Awaited
  <2>2. PICK last \in BOOLEAN : /\ req' = NotFound(Processed(r, FALSE), p, last)
                                /\ (last /\ Tell(Root(r))) \/ told' = told
    BY <1>3, <1>8 DEF ReceiptNotFound
  <2>3. last => Through(p, req')
    <3>1. SUFFICES ASSUME last PROVE Through(p, req')
      OBVIOUS
    <3>2. last = TRUE
      BY <3>1
    <3>3. Through(p, NotFound(Processed(r, FALSE), p, TRUE))
      BY <1>4, <2>1, AnswerThrough
    <3> QED
      BY <2>2, <3>2, <3>3
  <2> HIDE DEF p
  <2> QED
    BY <1>5, <2>1, <2>2, <2>3 DEF Tells
<1>9. ASSUME req[r].kind \in {"query", "state"}, NEW ok \in BOOLEAN,
             req' = Processed(r, ok), Tell(r) \/ told' = told
      PROVE  Tells(r)
  <2>1. p = NoReq /\ Root(r) = r
    BY <1>4, <1>5, <1>9
  <2>2. Through(r, req')
    BY <1>9, AnswerThrough
  <2> QED
    BY <1>9, <2>1, <2>2 DEF Tells
<1>10. CASE QueryResponse(r)
  <2>1. req[r].kind = "query"
    BY <1>10 DEF QueryResponse, Awaited
  <2>2. PICK result \in {"ok", "error", "garbage"} :
          req' = Processed(r, result = "ok") /\ (Tell(r) \/ told' = told)
    BY <1>10 DEF QueryResponse
  <2>3. PICK ok \in BOOLEAN : req' = Processed(r, ok)
    BY <2>2
  <2> QED
    BY <1>9, <2>1, <2>2, <2>3
<1>11. CASE StateResponse(r)
  <2>1. req[r].kind = "state"
    BY <1>11 DEF StateResponse, Awaited
  <2>2. PICK ok \in BOOLEAN : req' = Processed(r, ok) /\ (Tell(r) \/ told' = told)
    BY <1>11 DEF StateResponse
  <2> QED
    BY <1>9, <2>1, <2>2
<1>12. CASE CommitResponse(r)
  <2>1. Root(r) = r /\ req[r].kind = "commit"
    BY <1>4, <1>5, <1>12 DEF CommitResponse, Awaited
  <2>2. (Tell(r) /\ req' = Committed(r, FALSE)) \/ told' = told
    BY <1>12 DEF CommitResponse
  <2> QED
    BY <2>1, <2>2, AnswerThrough DEF Tells
<1>13. CASE PlainError(r) \/ ReceiptCrash(r) \/ StreamMessage(r) \/ StreamEnd(r) \/ Lose(r)
  BY <1>13 DEF PlainError, ReceiptCrash, StreamMessage, StreamEnd, Lose, Tells
<1> QED
  BY <1>6, <1>7, <1>8, <1>10, <1>11, <1>12, <1>13 DEF NetworkStep, Reply

\* An answer is never received for a request whose caller was told.
LEMMA ToldNetwork ==
  ASSUME FetchInv, ToldDone, NEW r \in Ids, NetworkStep(r)
  PROVE  ToldDone'
<1> DEFINE p == req[r].parent
<1>1. Tells(r) /\ Touches(r, p, req') /\ told \in [Ids -> Nat]
  BY NetworkTells, NetworkFacts, FetchBasics DEF TypeOK
<1>2. /\ wire[r] = "open" /\ Used' = Used /\ SameOrigin(req', req)
      /\ \A i \in Ids \ {r} : SameProgress(req', req, i)
      /\ r \in Used /\ (req[r].kind # "stream" => ~req[r].processed)
  BY NetworkFacts
<1>4. told[r] = 0
  BY <1>2 DEF ToldDone
<1>5. p # NoReq => /\ p \in Ids /\ p \in Used /\ told[p] = 0
                   /\ req[p].kind = "commit"
  <2>1. p # NoReq => req[p].need_receipt
    BY <1>2 DEF FetchInv, FetchHasParent
  <2>2. p # NoReq => p \in Ids /\ p \in Used /\ req[p].kind = "commit"
    BY FetchBasics DEF FetchInv, Lineage
  <2> QED
    BY <2>1, <2>2 DEF ToldDone
<1>6. \A i \in Ids : told[i] = 1 =>
        /\ i \in Used' /\ req'[i].kind # "stream"
        /\ req'[i].processed /\ ~req'[i].need_receipt
  <2>1. SUFFICES ASSUME NEW i \in Ids, told[i] = 1
                 PROVE  /\ i \in Used' /\ req'[i].kind # "stream"
                        /\ req'[i].processed /\ ~req'[i].need_receipt
    OBVIOUS
  <2>2. i # r
    BY <1>4, <2>1
  <2>3. /\ i \in Used /\ req[i].kind # "stream"
        /\ req[i].processed /\ ~req[i].need_receipt
    BY <2>1 DEF ToldDone
  <2>4. ~req'[i].need_receipt
    BY <1>1, <2>2, <2>3 DEF Touches
  <2> QED
    BY <1>2, <2>2, <2>3, <2>4 DEF SameOrigin, SameProgress
<1>7. CASE told' = told
  BY <1>6, <1>7 DEF ToldDone
<1>8. CASE Tell(Root(r)) /\ Through(Root(r), req') /\ req[r].kind # "stream"
  <2> DEFINE q == Root(r)
  <2>1. q \in Ids /\ q \in Used /\ told[q] = 0 /\ req[q].kind # "stream"
    BY <1>2, <1>4, <1>5, <1>8 DEF Root
  <2>2. told' = [told EXCEPT ![q] = @ + 1]
    BY <1>8 DEF Tell
  <2>3. req'[q].kind # "stream" /\ req'[q].processed /\ ~req'[q].need_receipt
    BY <1>2, <1>8, <2>1 DEF SameOrigin, Through
  <2> HIDE DEF q
  <2>4. told'[q] = 1 /\ \A i \in Ids \ {q} : told'[i] = told[i]
    BY <1>1, <2>1, <2>2
  <2>5. \A i \in Ids : told[i] \in {0, 1}
    BY DEF ToldDone
  <2> QED
    BY <1>2, <1>6, <2>1, <2>3, <2>4, <2>5 DEF ToldDone
<1> QED
  BY <1>1, <1>7, <1>8 DEF Tells

LEMMA ToldStep ==
  ASSUME FetchInv, ToldDone, [Next]_vars
  PROVE  ToldDone'
<1>1. CASE Network
  BY <1>1, ToldNetwork DEF Network, NetworkStep
<1>2. CASE Application \/ Loop \/ CurlFails \/ UNCHANGED vars
  <2>1. Evolves
    BY <1>2, LocalEvolves
  <2> QED
    BY <2>1 DEF ToldDone, Evolves, SameProgress
<1> QED
  BY <1>1, <1>2 DEF Next

ToldInv == SequencedInv /\ ToldDone

LEMMA ToldInvariance == Sequenced => (Spec => []ToldInv)
<1>1. Init => ToldDone
  BY DEF Init, ToldDone
<1>2. SequencedInv /\ ToldDone /\ [Next]_vars => ToldDone'
  BY ToldStep DEF SequencedInv
<1>3. ToldInv <=> SequencedInv /\ ToldDone
  BY DEF ToldInv
<1> QED
  BY SequencedInvariance, <1>1, <1>2, <1>3, PTL DEF Spec

(***************************************************************************)
(* The caller of a request, whose callback it shares with all its receipt  *)
(* fetches, is given an answer at most once, synchronous or not.           *)
(***************************************************************************)
THEOREM CallersToldOnce == Sequenced => (Spec => []ToldOnce)
<1>1. ToldInv => ToldOnce
  BY DEF ToldInv, ToldDone, ToldOnce
<1> QED
  BY ToldInvariance, <1>1, PTL

(***************************************************************************)
(* Once the caller of a transaction was told, no other GetReceipt is sent  *)
(* for it.                                                                 *)
(***************************************************************************)
THEOREM CallersToldIsFinal == Sequenced => (Spec => ToldIsFinal)
<1> DEFINE Final == \A p \in Used : told[p] > 0 /\ req[p].kind = "commit"
                                      => Children(p)' = Children(p)
<1>1. ASSUME ToldInv, [Next]_vars
      PROVE  [Final]_vars
  <2>1. SUFFICES ASSUME NEW p \in Used, told[p] > 0
                 PROVE  Children(p)' = Children(p)
    OBVIOUS
  <2>2. p \in Ids /\ p # NoReq /\ FetchInv /\ TypeOK
    BY <1>1, FetchBasics DEF ToldInv, SequencedInv
  <2>3. ~req[p].need_receipt
    BY <1>1, <2>1, <2>2 DEF ToldInv, ToldDone
  <2>4. CASE Network
    <3>1. PICK r \in Ids : Delivered(r)
      BY <2>2, <2>4, NetworkDelivers DEF Network, NetworkStep
    <3>2. Used' = Used /\ \A i \in Used : req'[i].parent = req[i].parent
      BY <2>2, <3>1, UsedIds DEF Delivered, Answers, SameOrigin, Used
    <3> QED
      BY <3>2 DEF Children
  <2>5. CASE Application \/ Loop \/ CurlFails \/ UNCHANGED vars
    <3>1. Evolves
      BY <2>2, <2>5, LocalEvolves
    <3>2. \A i \in Used' : i \notin Used => req'[i].parent # p
      BY <2>2, <2>3, <3>1 DEF Evolves
    <3> QED
      BY <3>1, <3>2 DEF Children, Evolves
  <2> QED
    BY <1>1, <2>4, <2>5 DEF Next
<1>2. ToldInv /\ [Next]_vars => [Final]_vars
  BY <1>1
<1> SUFFICES ASSUME Sequenced PROVE Spec => [][Final]_vars
  BY DEF ToldIsFinal
<1>4. Spec => []ToldInv
  BY ToldInvariance
<1> HIDE DEF Final
<1> QED
  BY <1>2, <1>4, PTL DEF Spec

----------------------------------------------------------------------------
(* What polling reports.  No assumption on the constants: a failing curl   *)
(* is one of the faults.                                                   *)

(***************************************************************************)
(* true is returned to the callers of the application's own requests, and  *)
(* the outermost loop waits for one of those, if for any.                  *)
(***************************************************************************)
Returned ==
  \A r \in Ids : ret[r] = "true" => r \in Used /\ req[r].parent = NoReq

BaseIsCall ==
  stack # << >> /\ stack[1] # NoReq => stack[1] \in Used /\ req[stack[1]].parent = NoReq

(***************************************************************************)
(* Without faults every request is accounted for.  One that was not        *)
(* answered is with curl, a transaction being processed has a fetch that   *)
(* is, an asynchronous call the node granted was told or waits for its     *)
(* receipt, and a loop leaves no transaction that waits to be fetched for, *)
(* and nothing that is through, in the list.                               *)
(***************************************************************************)
NothingLost ==
  \A r \in Used : req[r].kind # "stream" /\ ~req[r].processed => wire[r] = "open"

FetchUnderWay ==
  \A p \in Used : ~req[p].sync /\ req[p].need_receipt /\ req[p].processing_receipt =>
    \E c \in Ids : wire[c] = "open" /\ req[c].parent = p

Reported ==
  \A r \in Used : /\ ~req[r].sync /\ req[r].parent = NoReq /\ req[r].kind # "stream"
                  /\ req[r].processed /\ req[r].success
                  => told[r] = 1 \/ req[r].need_receipt

SuccessIsAnswer == \A r \in Used : req[r].success => req[r].processed

LeftInOrder ==
  pc = "idle" =>
    /\ ToFetch = {}
    /\ \A r \in requests : req[r].kind # "stream" =>
                             ~req[r].processed \/ req[r].need_receipt

Alive == pc \notin {"freed", "crashed"}

Tracked == NothingLost /\ FetchUnderWay /\ Reported /\ SuccessIsAnswer /\ LeftInOrder

Faultless ==
  FetchInv /\ ToldDone /\ Returned /\ BaseIsCall /\ (Alive => Tracked)

----------------------------------------------------------------------------
(* Steps that add a request that curl carries.                             *)

LEMMA SendTracked ==
  ASSUME FetchInv, Tracked, NEW structs, NEW request, NEW w, NEW p,
         Sends(structs, request, w, p), wire'[created + 1] = "open", told' = told,
         pc' = "idle" => pc = "idle" /\ structs = req /\ ~request.processed
  PROVE  Tracked'
<1> DEFINE new == created + 1
<1>1. /\ new \in Ids /\ new \notin Used /\ Used' = Used \cup {new} /\ Used \subseteq Ids
      /\ requests' = requests \cup {new} /\ requests \subseteq Used
      /\ req'[new] = request /\ wire'[new] = "open" /\ w = "open"
      /\ \A i \in Ids \ {new} : req'[i] = structs[i] /\ wire'[i] = wire[i]
  BY FetchBasics, SendFacts DEF Sends
<1>2. /\ ~request.need_receipt /\ ~request.success /\ request.parent = p
      /\ SameStruct(structs, req) /\ p \in Ids \cup {NoReq}
      /\ \A i \in Ids \ {p} : structs[i] = req[i]
      /\ p # NoReq => structs[p].need_receipt /\ p \in ToFetch
  BY <1>1 DEF Sends
<1> HIDE DEF new
<1>3. \A i \in Used : i \in Ids /\ i # new
  BY <1>1
<1>4. \A i \in Used : /\ req'[i].kind = req[i].kind /\ req'[i].parent = req[i].parent
                      /\ req'[i].sync = req[i].sync
                      /\ req'[i].processed = req[i].processed
                      /\ req'[i].success = req[i].success
                      /\ wire'[i] = wire[i]
  BY <1>1, <1>2, <1>3 DEF SameStruct, SameOrigin, SameProgress
<1>5. NothingLost' /\ SuccessIsAnswer'
  BY <1>1, <1>2, <1>4 DEF Tracked, NothingLost, SuccessIsAnswer
<1>6. FetchUnderWay'
  <2>1. SUFFICES ASSUME NEW q \in Used', ~req'[q].sync, req'[q].need_receipt,
                        req'[q].processing_receipt
                 PROVE  \E c \in Ids : wire'[c] = "open" /\ req'[c].parent = q
    BY DEF FetchUnderWay
  <2>2. q \in Used /\ q \in Ids /\ q # new
    BY <1>1, <1>2, <1>3, <2>1
  <2>3. CASE q = p
    BY <1>1, <1>2, <2>3
  <2>4. CASE q # p
    <3>1. req'[q] = req[q]
      BY <1>1, <1>2, <2>2, <2>4
    <3>2. PICK c \in Ids : wire[c] = "open" /\ req[c].parent = q
      BY <2>1, <2>2, <3>1 DEF Tracked, FetchUnderWay
    <3>3. c \in Used
      BY <3>2, FetchBasics
    <3> QED
      BY <1>4, <3>2, <3>3
  <2> QED
    BY <2>3, <2>4
<1>7. Reported'
  <2>1. SUFFICES ASSUME NEW q \in Used', ~req'[q].sync, req'[q].parent = NoReq,
                        req'[q].kind # "stream", req'[q].processed, req'[q].success
                 PROVE  told'[q] = 1 \/ req'[q].need_receipt
    BY DEF Reported
  <2>2. q \in Used /\ q \in Ids /\ q # new
    BY <1>1, <1>2, <1>3, <2>1
  <2>3. told[q] = 1 \/ req[q].need_receipt
    BY <1>4, <2>1, <2>2 DEF Tracked, Reported
  <2>4. req[q].need_receipt => req'[q].need_receipt
    <3>1. CASE q = p
      BY <1>1, <1>2, <2>2, <3>1, FetchBasics
    <3>2. CASE q # p
      BY <1>1, <1>2, <2>2, <3>2
    <3> QED
      BY <3>1, <3>2
  <2> QED
    BY <2>3, <2>4
<1>8. LeftInOrder'
  <2>1. SUFFICES ASSUME pc' = "idle"
                 PROVE  /\ ToFetch' = {}
                        /\ \A i \in requests' : req'[i].kind # "stream" =>
                                                  ~req'[i].processed \/ req'[i].need_receipt
    BY DEF LeftInOrder
  <2>2. /\ pc = "idle" /\ ~req'[new].processed
        /\ \A i \in requests : req'[i] = req[i]
    BY <1>1, <1>3, <2>1
  <2>3. /\ ToFetch = {}
        /\ \A i \in requests : req[i].kind # "stream" =>
                                 ~req[i].processed \/ req[i].need_receipt
    BY <2>2 DEF Tracked, LeftInOrder
  <2>4. ToFetch' = {}
    BY <1>1, <2>2, <2>3 DEF ToFetch
  <2> QED
    BY <1>1, <2>2, <2>3, <2>4
<1> QED
  BY <1>5, <1>6, <1>7, <1>8 DEF Tracked

(***************************************************************************)
(* Steps that send nothing and answer nothing.                             *)
(***************************************************************************)
LEMMA QuietTracked ==
  ASSUME FetchInv, Tracked, UNCHANGED <<created, told>>, SameStruct(req', req),
         \A i \in Ids : wire[i] = "open" => wire'[i] = "open",
         \A i \in Ids : /\ req'[i].need_receipt => req'[i] = req[i]
                        /\ ~req[i].sync => req'[i] = req[i],
         LeftInOrder'
  PROVE  Tracked'
<1>1. Used' = Used /\ Used \subseteq Ids
  BY FetchBasics DEF Used
<1>2. \A i \in Ids : /\ req'[i].kind = req[i].kind /\ req'[i].parent = req[i].parent
                     /\ req'[i].sync = req[i].sync
                     /\ req'[i].processed = req[i].processed
                     /\ req'[i].success = req[i].success
  BY DEF SameStruct, SameOrigin, SameProgress
<1>3. NothingLost' /\ SuccessIsAnswer'
  BY <1>1, <1>2 DEF Tracked, NothingLost, SuccessIsAnswer
<1>4. FetchUnderWay'
  BY <1>1, <1>2 DEF Tracked, FetchUnderWay
<1>5. Reported'
  BY <1>1, <1>2 DEF Tracked, Reported
<1> QED
  BY <1>3, <1>4, <1>5 DEF Tracked

\* A loop that ends leaves nothing that is through, and nothing to fetch.
LEMMA LeaveTracked ==
  ASSUME FetchInv, Tracked, Leave
  PROVE  Tracked'
<1>1. /\ Len(stack) = 1 => req' = req
      /\ requests' = requests \ Settled /\ UNCHANGED <<created, wire, told>>
      /\ ToFetch = {} /\ pc = "check"
  BY LeaveStack DEF link, Leave
<1>2. pc' = "idle" => Len(stack) = 1
  BY DEF Leave, Return
<1>3. Calm /\ req \in [Ids -> Request] /\ requests \subseteq Ids
  BY LeaveCalm, FetchBasics
<1>4. \A i \in Ids : ~req[i].sync => req'[i] = req[i]
  <2>1. CASE Len(stack) = 1
    BY <1>1, <2>1
  <2>2. CASE Len(stack) # 1
    <3>1. /\ req[stack[1]].sync
          /\ req' \in {req, [req EXCEPT ![stack[1]].need_receipt = FALSE]}
      BY <2>2, NestedLeave
    <3>2. PICK q : req[q].sync /\ req' \in {req, [req EXCEPT ![q].need_receipt = FALSE]}
      BY <3>1
    <3> QED
      BY <1>3, <3>2
  <2> QED
    BY <2>1, <2>2
<1>5. LeftInOrder'
  <2>1. SUFFICES ASSUME pc' = "idle"
                 PROVE  /\ ToFetch' = {}
                        /\ \A i \in requests' : req'[i].kind # "stream" =>
                                                  ~req'[i].processed \/ req'[i].need_receipt
    BY DEF LeftInOrder
  <2>2. req' = req
    BY <1>1, <1>2, <2>1
  <2>3. ToFetch' = {}
    BY <1>1, <2>2 DEF ToFetch
  <2> QED
    BY <1>1, <2>2, <2>3 DEF Settled
<1> QED
  BY <1>1, <1>3, <1>4, <1>5, QuietTracked DEF Calm

----------------------------------------------------------------------------
(* The answers, while no fault happens.                                    *)

\* An answer to a request that has one marks it, and when the application made
\* it and it is successful, tells the caller or waits for the receipt.
LEMMA AnswerMarks ==
  ASSUME FetchInv, SuccessIsAnswer, NEW r \in Ids, NetworkStep(r),
         req[r].kind # "stream", faults = 0, faults' = 0, pc' # "crashed"
  PROVE  /\ req'[r].processed
         /\ req[r].parent = NoReq /\ req'[r].success => req'[r].need_receipt \/ Tell(r)
<1>1. /\ req \in [Ids -> Request] /\ wire[r] = "open" /\ r \in Used
      /\ ~req[r].processed /\ Pointee(r) = {req[r].parent} /\ NoReq \notin Ids
  BY FetchBasics, NetworkFacts, ParentPointed DEF FetchInv
<1>2. ~req[r].success
  BY <1>1 DEF SuccessIsAnswer
<1>3. /\ ~Fault
      /\ \A ok : Decodes(ok) => ok
  BY DEF Fault, Decodes
<1>4. \A ok \in BOOLEAN :
        /\ Processed(r, ok) \in [Ids -> Request]
        /\ Processed(r, ok)[r].processed /\ Processed(r, ok)[r].success = ok
  <2>1. \A ok \in BOOLEAN : Processed(r, ok) \in [Ids -> Request]
    BY <1>1, AnswerUpdates DEF Answers
  <2>2. \A ok \in BOOLEAN : Processed(r, ok)[r].processed /\ Processed(r, ok)[r].success = ok
    BY <1>1 DEF Processed, Request
  <2> QED
    BY <2>1, <2>2
<1>5. CASE CommitResponse(r)
  <2>1. PICK ok \in BOOLEAN : req' = Committed(r, ok)
    BY <1>5 DEF CommitResponse
  <2>2. req'[r].processed /\ req'[r].success = ok /\ req'[r].need_receipt = ok
    BY <1>1, <1>4, <2>1 DEF Committed, Request
  <2> QED
    BY <2>2
<1>6. CASE PlainError(r)
  <2>1. req' = [req EXCEPT ![r].processed = TRUE]
    BY <1>6 DEF PlainError
  <2>2. req'[r].processed /\ req'[r].success = req[r].success
    BY <1>1, <2>1 DEF Request
  <2> QED
    BY <1>2, <2>2
<1>7. ASSUME NEW ok \in BOOLEAN, NEW s \in [Ids -> Request], SameStruct(req', s),
             s = Processed(r, ok)
      PROVE  req'[r].processed /\ req'[r].success = ok
  BY <1>4, <1>7 DEF SameStruct, SameProgress
<1>8. req[r].parent \in Ids \cup {NoReq}
  BY FetchBasics
<1>9. CASE ReceiptResponse(r)
  <2>1. PICK ok \in BOOLEAN : /\ req' = WithReceipt(Processed(r, ok), req[r].parent)
                              /\ Decodes(ok)
                              /\ IF ok THEN Tell(Root(r)) ELSE UNCHANGED told
    BY <1>1, <1>9 DEF ReceiptResponse
  <2>2. req'[r].processed
    BY <1>4, <1>7, <1>8, <2>1, ParentUpdates
  <2> QED
    BY <1>3, <2>1, <2>2 DEF Root
<1>10. CASE ReceiptError(r) \/ ReceiptNotFound(r)
  <2>1. PICK last \in BOOLEAN :
          req' \in {WithoutReceipt(Processed(r, FALSE), req[r].parent),
                    NotFound(Processed(r, FALSE), req[r].parent, last)}
    BY <1>1, <1>10 DEF ReceiptError, ReceiptNotFound
  <2>2. req'[r].processed
    BY <1>4, <1>7, <1>8, <2>1, ParentUpdates
  <2> QED
    BY <1>10, <2>2 DEF ReceiptError, ReceiptNotFound
<1>11. CASE QueryResponse(r)
  <2>1. PICK result \in {"ok", "error", "garbage"} :
          /\ req' = Processed(r, result = "ok")
          /\ IF result = "garbage" THEN UNCHANGED told ELSE Tell(r)
    BY <1>11 DEF QueryResponse
  <2>2. PICK ok \in BOOLEAN : ok = (result = "ok")
    OBVIOUS
  <2>3. req'[r].processed /\ req'[r].success = ok
    BY <1>4, <2>1, <2>2
  <2> QED
    BY <2>1, <2>2, <2>3
<1>12. CASE StateResponse(r)
  <2>1. PICK ok \in BOOLEAN : /\ req' = Processed(r, ok)
                              /\ IF ok THEN Tell(r) ELSE UNCHANGED told
    BY <1>12 DEF StateResponse
  <2>2. req'[r].processed /\ req'[r].success = ok
    BY <1>4, <2>1
  <2> QED
    BY <2>1, <2>2
<1>13. ~ReceiptCrash(r) /\ ~StreamMessage(r) /\ ~StreamEnd(r) /\ ~Lose(r)
  BY <1>3 DEF ReceiptCrash, StreamMessage, StreamEnd, Lose, Awaited
<1> QED
  BY <1>5, <1>6, <1>9, <1>10, <1>11, <1>12, <1>13 DEF NetworkStep, Reply

(***************************************************************************)
(* An answer to a fetch ends that fetch: its transaction is settled, and   *)
(* an asynchronous caller told, or it will be fetched for again.           *)
(***************************************************************************)
LEMMA FetchEnds ==
  ASSUME FetchInv, NEW r \in Ids, NetworkStep(r), req[r].parent # NoReq,
         faults = 0, faults' = 0, pc' # "crashed"
  PROVE  LET p == req[r].parent
         IN  /\ ~(req'[p].need_receipt /\ req'[p].processing_receipt)
             /\ ~req[r].sync /\ ~req'[p].need_receipt => Tell(p)
<1> DEFINE p == req[r].parent
<1>1. /\ req \in [Ids -> Request] /\ wire[r] = "open" /\ Pointee(r) = {p}
      /\ p # NoReq /\ p \in Ids /\ p # r /\ req[r].kind = "receipt"
      /\ req[p].need_receipt
  <2>1. /\ req \in [Ids -> Request] /\ wire[r] = "open" /\ Pointee(r) = {p}
        /\ p # NoReq /\ p \in Ids /\ req[r].kind = "receipt"
        /\ req[p].need_receipt /\ req[p].kind = "commit"
    BY FetchBasics, NetworkFacts, ParentPointed DEF FetchInv, FetchHasParent, Lineage
  <2> QED
    BY <2>1
<1>2. /\ ~Fault
      /\ \A ok : Decodes(ok) => ok
  BY DEF Fault, Decodes
<1>3. Root(r) = p
  BY <1>1 DEF Root
<1>4. \A ok \in BOOLEAN : /\ Processed(r, ok) \in [Ids -> Request]
                          /\ Processed(r, ok)[p] = req[p]
  <2>1. \A ok \in BOOLEAN : Processed(r, ok) \in [Ids -> Request]
    BY <1>1, AnswerUpdates DEF Answers
  <2>2. \A ok \in BOOLEAN : Processed(r, ok)[p] = req[p]
    BY <1>1 DEF Processed
  <2> QED
    BY <2>1, <2>2
<1> HIDE DEF p
<1>5. CASE ReceiptResponse(r)
  <2>1. PICK ok \in BOOLEAN : /\ req' = WithReceipt(Processed(r, ok), p)
                              /\ Decodes(ok)
                              /\ IF ok THEN Tell(Root(r)) ELSE UNCHANGED told
    BY <1>1, <1>5 DEF ReceiptResponse
  <2>2. PICK s \in [Ids -> Request] : s = Processed(r, ok)
    BY <1>4
  <2>3. ~req'[p].need_receipt
    BY <1>1, <2>1, <2>2 DEF WithReceipt, Request
  <2> QED
    BY <1>2, <1>3, <2>1, <2>3 DEF p
<1>6. CASE ReceiptError(r)
  <2>1. /\ req' = WithoutReceipt(Processed(r, FALSE), p)
        /\ ~req[r].sync => Tell(p)
    BY <1>1, <1>3, <1>6 DEF ReceiptError
  <2>2. PICK s \in [Ids -> Request] : s = Processed(r, FALSE)
    BY <1>4
  <2>3. ~req'[p].need_receipt
    BY <1>1, <2>1, <2>2 DEF WithoutReceipt, Request
  <2> QED
    BY <2>1, <2>3 DEF p
<1>7. CASE ReceiptNotFound(r)
  <2>1. PICK last \in BOOLEAN : /\ req' = NotFound(Processed(r, FALSE), p, last)
                                /\ last /\ ~req[r].sync => Tell(p)
    BY <1>1, <1>3, <1>7 DEF ReceiptNotFound
  <2>2. PICK s \in [Ids -> Request] : s = Processed(r, FALSE) /\ s[p] = req[p]
    BY <1>4
  <2>3. /\ req'[p].need_receipt = (s[p].need_receipt /\ ~last)
        /\ req'[p].processing_receipt = (s[p].processing_receipt /\ last)
    BY <1>1, <2>1, <2>2 DEF NotFound, Request
  <2>4. req'[p].need_receipt <=> ~last
    BY <1>1, <2>2, <2>3
  <2> QED
    BY <2>1, <2>3, <2>4 DEF p
<1>8. /\ ~ReceiptCrash(r) /\ ~StreamMessage(r) /\ ~StreamEnd(r) /\ ~Lose(r)
      /\ ~CommitResponse(r) /\ ~PlainError(r) /\ ~QueryResponse(r) /\ ~StateResponse(r)
  BY <1>1, <1>2 DEF ReceiptCrash, StreamMessage, StreamEnd, Lose, Awaited, CommitResponse,
     PlainError, QueryResponse, StateResponse, p
<1> QED
  BY <1>5, <1>6, <1>7, <1>8 DEF NetworkStep, Reply

LEMMA NetworkTracked ==
  ASSUME FetchInv, ToldDone, Tracked, NEW r \in Ids, NetworkStep(r),
         faults = 0, faults' = 0, pc' # "crashed"
  PROVE  Tracked'
<1> DEFINE p == req[r].parent
<1>1. /\ wire[r] = "open" /\ r \in Used /\ pc = "wait"
      /\ req[r].kind # "stream" => ~req[r].processed
      /\ Touches(r, p, req') /\ SameOrigin(req', req)
      /\ \A i \in Ids \ {r} : SameProgress(req', req, i)
      /\ Used' = Used /\ Used \subseteq Ids /\ NoReq \notin Ids
  BY NetworkFacts, FetchBasics
<1>2. \A i \in Ids \ {r} : wire[i] = "open" => wire'[i] = "open"
  <2>1. Delivered(r) /\ wire \in [Ids -> {"none", "open", "closing", "unadded"}]
    BY NetworkDelivers, FetchBasics DEF TypeOK
  <2> QED
    BY <2>1 DEF Delivered, Close
<1>3. req[r].kind # "stream" =>
        /\ req'[r].processed
        /\ p = NoReq /\ req'[r].success => req'[r].need_receipt \/ Tell(r)
  BY AnswerMarks DEF Tracked
<1>4. p # NoReq =>
        /\ ~(req'[p].need_receipt /\ req'[p].processing_receipt)
        /\ ~req[r].sync /\ ~req'[p].need_receipt => Tell(p)
        /\ req[r].sync = req[p].sync /\ req[p].need_receipt
  BY <1>1, FetchEnds DEF FetchInv, Lineage, FetchHasParent
<1>5. /\ \A i \in Ids : told[i] = 1 => told'[i] = 1
      /\ \A i \in Ids : Tell(i) /\ told[i] # 1 => told'[i] = 1
  <2>1. ToldDone' /\ Tells(r) /\ told \in [Ids -> Nat]
    BY ToldNetwork, NetworkTells, FetchBasics DEF TypeOK
  <2>2. \A i \in Ids : told[i] \in {0, 1} /\ told'[i] \in {0, 1}
    BY <2>1 DEF ToldDone
  <2>3. ASSUME NEW q \in Ids, Tell(q)
        PROVE  /\ told'[q] = 1
               /\ \A i \in Ids : told[i] = 1 => told'[i] = 1
    <3>1. told'[q] = told[q] + 1 /\ \A i \in Ids \ {q} : told'[i] = told[i]
      BY <2>1, <2>3 DEF Tell
    <3>2. told[q] \in {0, 1} /\ told'[q] \in {0, 1}
      BY <2>2
    <3>3. told'[q] = 1
      BY <3>1, <3>2
    <3> QED
      BY <3>1, <3>3
  <2>4. Root(r) \in Ids
    BY FetchBasics, PointeeType
  <2> QED
    BY <2>1, <2>3, <2>4 DEF Tells
<1> HIDE DEF p
<1>6. NothingLost'
  BY <1>1, <1>2, <1>3 DEF Tracked, NothingLost, SameOrigin, SameProgress
<1>7. SuccessIsAnswer'
  <2>1. SUFFICES ASSUME NEW i \in Used, req'[i].success PROVE req'[i].processed
    BY <1>1 DEF SuccessIsAnswer
  <2>2. i \in Ids
    BY <1>1
  <2>3. CASE i # r
    BY <1>1, <2>1, <2>2, <2>3 DEF Tracked, SuccessIsAnswer, SameProgress
  <2>4. CASE i = r /\ req[r].kind # "stream"
    BY <1>3, <2>4
  <2>5. CASE i = r /\ req[r].kind = "stream"
    <3>1. \/ StreamEnd(r) /\ req' = req
          \/ PlainError(r) /\ req' = [req EXCEPT ![r].processed = TRUE]
          \/ \E ok \in BOOLEAN : req' = Processed(r, ok)
      BY <2>5 DEF NetworkStep, Reply, CommitResponse, PlainError, ReceiptResponse,
         ReceiptCrash, ReceiptError, ReceiptNotFound, QueryResponse, StateResponse,
         StreamMessage, StreamEnd, Lose, Awaited
    <3>2. req \in [Ids -> Request]
      BY FetchBasics
    <3>3. CASE req' = req
      BY <2>1, <3>3 DEF Tracked, SuccessIsAnswer
    <3>4. CASE req' # req
      <4>1. req'[r].processed = TRUE
        BY <3>1, <3>2, <3>4 DEF Processed, Request
      <4> QED
        BY <2>5, <4>1
    <3> QED
      BY <3>3, <3>4
  <2> QED
    BY <2>3, <2>4, <2>5
<1>8. FetchUnderWay'
  <2>1. SUFFICES ASSUME NEW q \in Used, ~req'[q].sync, req'[q].need_receipt,
                        req'[q].processing_receipt
                 PROVE  \E c \in Ids : wire'[c] = "open" /\ req'[c].parent = q
    BY <1>1 DEF FetchUnderWay
  <2>2. q \in Ids /\ ~req[q].sync /\ req[q].processing_receipt /\ q # p
    <3>1. q \in Ids /\ q # NoReq
      BY <1>1
    <3>2. ~req[q].sync /\ req[q].processing_receipt
      BY <1>1, <2>1, <3>1 DEF SameOrigin, Touches
    <3>3. q # p
      BY <1>4, <2>1, <3>1
    <3> QED
      BY <3>1, <3>2, <3>3
  <2>3. q # r
    <3>1. req[q].processed
      BY <2>2 DEF FetchInv, Lineage
    <3>2. req[q].need_receipt => req[q].kind = "commit"
      BY <2>2 DEF FetchInv, Lineage
    <3>3. req[q].kind = "commit"
      BY <1>1, <2>1, <2>2, <3>2 DEF Touches, Grants
    <3> QED
      BY <1>1, <3>1, <3>3
  <2>4. req[q].need_receipt
    BY <1>1, <2>1, <2>2, <2>3 DEF Touches
  <2>5. PICK c \in Ids : wire[c] = "open" /\ req[c].parent = q
    BY <2>2, <2>4 DEF Tracked, FetchUnderWay
  <2>6. c # r
    BY <2>2, <2>5 DEF p
  <2> QED
    BY <1>1, <1>2, <2>5, <2>6 DEF SameOrigin
<1>9. Reported'
  <2>1. SUFFICES ASSUME NEW i \in Used, ~req'[i].sync, req'[i].parent = NoReq,
                        req'[i].kind # "stream", req'[i].processed, req'[i].success
                 PROVE  told'[i] = 1 \/ req'[i].need_receipt
    BY <1>1 DEF Reported
  <2>2. i \in Ids /\ ~req[i].sync /\ req[i].parent = NoReq /\ req[i].kind # "stream"
    BY <1>1, <2>1 DEF SameOrigin
  <2>3. CASE i = r
    <3>1. told[r] # 1
      BY <1>1, <2>2, <2>3 DEF ToldDone
    <3> QED
      BY <1>3, <1>5, <2>1, <2>2, <2>3, <3>1 DEF p
  <2>4. CASE i # r
    <3>1. req[i].processed /\ req[i].success
      BY <1>1, <2>1, <2>2, <2>4 DEF SameProgress
    <3>2. told[i] = 1 \/ req[i].need_receipt
      BY <2>2, <3>1 DEF Tracked, Reported
    <3>3. CASE req[i].need_receipt /\ ~req'[i].need_receipt
      <4>1. i = p
        BY <1>1, <2>2, <2>4, <3>3 DEF Touches
      <4>2. i # NoReq /\ told[i] # 1
        BY <1>1, <2>2, <3>3 DEF ToldDone
      <4> QED
        BY <1>4, <1>5, <2>2, <3>3, <4>1, <4>2
    <3> QED
      BY <1>5, <2>2, <3>2, <3>3
  <2> QED
    BY <2>3, <2>4
<1>10. LeftInOrder'
  <2>1. pc' # "idle"
    <3>1. Delivered(r)
      BY NetworkDelivers, FetchBasics
    <3> QED
      BY <1>1, <3>1 DEF Delivered
  <2> QED
    BY <2>1 DEF LeftInOrder
<1> QED
  BY <1>6, <1>7, <1>8, <1>9, <1>10 DEF Tracked

----------------------------------------------------------------------------
(* Every step, while no fault happens.                                     *)

LEMMA NoFaults ==
  ASSUME faults = 0, faults' = 0
  PROVE  /\ ~CurlFails /\ ~FetchRefused /\ ~FetchNoMemory
         /\ \A k, s : ~RefusedCall(k, s)
  BY DEF CurlFails, FetchRefused, FetchNoMemory, RefusedCall, Fault

LEMMA TrackedStep ==
  ASSUME FetchInv, ToldDone, Tracked, Alive, [Next]_vars, faults = 0, faults' = 0, Alive'
  PROVE  Tracked'
<1>1. CASE Network
  BY <1>1, NetworkTracked DEF Network, NetworkStep, Alive
<1>2. CASE \/ \E k \in AsyncKinds : AsyncCall(k)
           \/ \E k \in SyncKinds : SyncCall(k, TRUE)
           \/ NullReceipt /\ SyncCall("commit", FALSE)
  <2>1. PICK k \in Kinds, s \in BOOLEAN, ptr \in BOOLEAN :
          \/ AsyncCall(k) /\ s = FALSE /\ ptr = FALSE
          \/ SyncCall(k, ptr) /\ s = TRUE
    BY <1>2, EngineAssumption DEF Kinds
  <2> DEFINE request == Blank(k, s, ptr, NoReq)
  <2>2. PICK w \in {"open", "unadded", "none"} : Sends(req, request, w, NoReq)
    BY <2>1, RootSends
  <2>3. Send(req, request, "open") /\ told' = told /\ pc = "idle"
    <3>1. Queue(req, request) /\ told' = told /\ pc = "idle"
      BY <2>1 DEF AsyncCall, SyncCall, MayCall
    <3> HIDE DEF request
    <3>2. \E u \in {"open", "unadded"} :
            (u = "open" \/ faults' = faults + 1) /\ Send(req, request, u)
      BY <3>1 DEF Queue, Fault
    <3> QED
      BY <3>1, <3>2
  <2>4. wire'[created + 1] = "open"
    BY <2>3, FetchBasics, SendFacts
  <2>5. ~request.processed
    BY DEF Blank
  <2> HIDE DEF request
  <2> QED
    BY <2>2, <2>3, <2>4, <2>5, SendTracked
<1>3. CASE FetchReceipt
  <2>1. PICK p, request, w, structs : p \in ToFetch /\ Sends(structs, request, w, p)
    BY <1>3, ChildSends
  <2>2. PICK q \in Ids :
          Send(Fetching(q), Blank("receipt", req[q].sync, req[q].return_ptr, q), "open")
    BY <1>3 DEF FetchReceipt, Queue, Fault
  <2>3. Fetching(q) \in [Ids -> Request] /\ TypeOK
    BY FetchBasics, AnswerUpdates
  <2>4. wire'[created + 1] = "open"
    BY <2>2, <2>3, SendFacts
  <2>5. told' = told /\ pc' # "idle"
    BY <1>3 DEF FetchReceipt
  <2> QED
    BY <2>1, <2>4, <2>5, SendTracked
<1>4. CASE Leave
  BY <1>4, LeaveTracked
<1>5. ASSUME UNCHANGED <<created, told, req>>,
             \A i \in Ids : wire[i] = "open" => wire'[i] = "open",
             pc' = "idle" => pc = "idle" /\ requests' = requests
      PROVE  Tracked'
  <2>1. SameStruct(req', req)
    BY <1>5, FetchBasics
  <2>2. LeftInOrder'
    BY <1>5 DEF Tracked, LeftInOrder, ToFetch
  <2> QED
    BY <1>5, <2>1, <2>2, QuietTracked
<1>6. CASE Collect
  <2>1. PICK done \in SUBSET Closing :
          wire' = [i \in Ids |-> IF i \in done THEN "none" ELSE wire[i]]
    BY <1>6 DEF Collect
  <2>2. \A i \in Ids : wire[i] = "open" => wire'[i] = "open"
    BY <2>1 DEF Closing
  <2> QED
    BY <1>5, <1>6, <2>2 DEF Collect
<1>7. CASE Poll \/ Ended \/ WaitAgain \/ UNCHANGED vars
  BY <1>5, <1>7 DEF Poll, Ended, WaitAgain, vars
<1>8. CASE Free
  BY <1>8 DEF Free, Alive
<1> QED
  BY <1>1, <1>2, <1>3, <1>4, <1>6, <1>7, <1>8, NoFaults DEF Next, Application, Loop

\* The requests that were allocated keep the parent they have.
LEMMA OriginKept ==
  ASSUME FetchInv, [Next]_vars
  PROVE  Used \subseteq Used' /\ \A i \in Used : req'[i].parent = req[i].parent
<1>1. CASE Network
  <2>1. PICK r \in Ids : NetworkStep(r)
    BY <1>1 DEF Network, NetworkStep
  <2> QED
    BY <2>1, NetworkFacts, FetchBasics DEF SameOrigin
<1>2. CASE Application \/ Loop \/ CurlFails \/ UNCHANGED vars
  BY <1>2, LocalEvolves DEF Evolves
<1> QED
  BY <1>1, <1>2 DEF Next

LEMMA ReturnedStep ==
  ASSUME FetchInv, Returned, BaseIsCall, [Next]_vars, faults = 0, faults' = 0
  PROVE  Returned' /\ BaseIsCall'
<1>1. /\ Used \subseteq Used' /\ \A i \in Used : req'[i].parent = req[i].parent
      /\ Used \subseteq Ids /\ TypeOK
      /\ stack \in Seq(Ids \cup {NoReq}) /\ Len(stack) \in Nat
      /\ ret \in [Ids -> {"none", "true", "false", "dropped"}]
  BY OriginKept, FetchBasics DEF TypeOK
<1>2. ASSUME \A i \in Ids : ret'[i] = "true" => ret[i] = "true"
      PROVE  Returned'
  BY <1>1, <1>2 DEF Returned
<1>3. ASSUME \/ stack' = << >>
             \/ stack'[1] = NoReq
             \/ stack # << >> /\ stack'[1] = stack[1]
      PROVE  BaseIsCall'
  BY <1>1, <1>3 DEF BaseIsCall
<1>4. CASE Network
  <2>1. PICK r \in Ids : Delivered(r)
    BY <1>1, <1>4, NetworkDelivers DEF Network, NetworkStep
  <2>2. UNCHANGED <<stack, ret>>
    BY <2>1 DEF Delivered
  <2> QED
    BY <1>2, <1>3, <2>2
<1>5. CASE \/ \E k \in AsyncKinds : AsyncCall(k)
           \/ \E k \in SyncKinds : SyncCall(k, TRUE)
           \/ NullReceipt /\ SyncCall("commit", FALSE)
  <2>1. PICK k \in Kinds, s \in BOOLEAN, ptr \in BOOLEAN :
          \/ AsyncCall(k) /\ s = FALSE /\ ptr = FALSE
          \/ SyncCall(k, ptr) /\ s = TRUE
    BY <1>5, EngineAssumption DEF Kinds
  <2> DEFINE request == Blank(k, s, ptr, NoReq)
             new == created + 1
  <2>2. (\E w : Send(req, request, w)) /\ request.parent = NoReq
    BY <2>1 DEF AsyncCall, SyncCall, Queue, Blank
  <2>3. new \in Ids /\ new \in Used' /\ req'[new].parent = NoReq
    BY <2>2, SendFacts, FetchBasics
  <2>4. /\ stack' = stack \/ stack' = <<new>>
        /\ ret' = ret \/ ret' = [ret EXCEPT ![new] = "true"]
    BY <2>1 DEF AsyncCall, SyncCall
  <2> HIDE DEF new
  <2>5. Returned'
    BY <1>1, <1>2, <2>3, <2>4 DEF Returned
  <2>6. CASE stack' = stack
    BY <1>3, <2>5, <2>6
  <2>7. CASE stack' = <<new>>
    BY <2>3, <2>5, <2>7 DEF BaseIsCall
  <2> QED
    BY <2>4, <2>6, <2>7
<1>6. CASE FetchReceipt
  <2>1. stack # << >> /\ ret' = ret
    BY <1>6 DEF FetchReceipt, FetchInv, Inv, StackShape
  <2>2. stack' = stack \/ stack' = Append(stack, created + 1)
    BY <1>6 DEF FetchReceipt
  <2>3. stack'[1] = stack[1]
    BY <1>1, <2>1, <2>2
  <2> QED
    BY <1>2, <1>3, <2>1, <2>3
<1>7. CASE Leave
  <2>1. /\ Len(stack) \in Nat \ {0} /\ stack # << >>
        /\ Len(stack) = 1 => stack' = << >>
        /\ Len(stack) # 1 => stack'[1] = stack[1]
    BY <1>7, LeaveStack, LeaveMain
  <2>2. BaseIsCall'
    BY <1>3, <2>1
  <2>3. \/ ret' = ret
        \/ /\ Len(stack) = 1 /\ Main # NoReq
           /\ \E ok : ret' = [ret EXCEPT ![Main] = IF ok THEN "true" ELSE "false"]
    BY <1>7 DEF Leave, Return
  <2>4. CASE ret' = ret
    BY <1>2, <2>2, <2>4
  <2>5. CASE ret' # ret
    <3>1. Main = stack[1] /\ Main \in Used /\ req[Main].parent = NoReq
      BY <2>1, <2>3, <2>5 DEF Main, BaseIsCall
    <3>2. \A i \in Ids \ {Main} : ret'[i] = ret[i]
      BY <1>1, <2>3, <2>5
    <3> QED
      BY <1>1, <2>2, <3>1, <3>2 DEF Returned
  <2> QED
    BY <2>4, <2>5
<1>8. CASE Free
  <2>1. \A i \in Ids : ret'[i] \in {"dropped", ret[i]}
    BY <1>8 DEF Free
  <2>2. stack' = << >>
    BY <1>8 DEF Free, FetchInv, Inv, StackShape
  <2> QED
    BY <1>2, <1>3, <2>1, <2>2
<1>9. CASE Poll
  BY <1>2, <1>3, <1>9 DEF Poll
<1>10. CASE Ended \/ Collect \/ WaitAgain \/ UNCHANGED vars
  BY <1>1, <1>2, <1>3, <1>10 DEF Ended, Collect, WaitAgain, vars, BaseIsCall
<1> QED
  BY <1>4, <1>5, <1>6, <1>7, <1>8, <1>9, <1>10, NoFaults DEF Next, Application, Loop

SettledInv == TypeOK /\ (faults = 0 => Faultless)

LEMMA SettledNext ==
  ASSUME SettledInv, [Next]_vars
  PROVE  (faults = 0 => Faultless)'
<1> SUFFICES ASSUME faults' = 0 PROVE Faultless'
  OBVIOUS
<1>1. faults = 0
  <2>1. faults \in Nat
    BY EngineAssumption DEF SettledInv, TypeOK
  <2>2. faults' \in {faults, faults + 1}
    <3>1. \A ok : Decodes(ok) => faults' \in {faults, faults + 1}
      BY DEF Decodes, Fault
    <3>2. CASE Network
      BY <3>1, <3>2 DEF Network, Reply, CommitResponse, PlainError, ReceiptResponse,
         ReceiptCrash, ReceiptError, ReceiptNotFound, QueryResponse, StateResponse,
         StreamMessage, StreamEnd, Lose, Fault
    <3>3. CASE Application \/ UNCHANGED vars
      BY <3>3 DEF Application, AsyncCall, SyncCall, RefusedCall, Queue, Poll, Free, Ended,
         Fault, vars
    <3>4. CASE Loop \/ CurlFails
      BY <3>4 DEF Loop, Collect, FetchReceipt, FetchRefused, FetchNoMemory, WaitAgain, Leave,
         CurlFails, Queue, Fault
    <3> QED
      BY <3>2, <3>3, <3>4 DEF Next
  <2> QED
    BY <2>1, <2>2
<1>2. Faultless
  BY <1>1 DEF SettledInv
<1>3. FetchInv' /\ ToldDone'
  BY <1>1, <1>2, NoFaults, FetchNext, ToldStep DEF Faultless
<1>4. Returned' /\ BaseIsCall'
  BY <1>1, <1>2, ReturnedStep DEF Faultless
<1>5. Alive' => Alive
  <2>1. SUFFICES ASSUME ~Alive PROVE pc' = pc
    BY DEF Alive
  <2>2. ~Network /\ ~Loop /\ ~CurlFails
    BY <2>1 DEF Alive, Network, Reply, CommitResponse, PlainError, ReceiptResponse,
       ReceiptCrash, ReceiptError, ReceiptNotFound, QueryResponse, StateResponse,
       StreamMessage, StreamEnd, Lose, Awaited, Loop, Collect, FetchReceipt, FetchRefused,
       FetchNoMemory, WaitAgain, Leave, CurlFails
  <2>3. Application => Ended
    BY <2>1 DEF Alive, Application, AsyncCall, SyncCall, RefusedCall, MayCall, Poll, Free
  <2> QED
    BY <2>2, <2>3 DEF Next, Ended, vars
<1>6. Alive' => Tracked'
  BY <1>1, <1>2, <1>5, TrackedStep DEF Faultless
<1> QED
  BY <1>3, <1>4, <1>6 DEF Faultless

LEMMA SettledInit == Init => Faultless
<1> SUFFICES ASSUME Init PROVE Faultless
  OBVIOUS
<1>1. FetchInv /\ Used = {} /\ requests = {}
  BY FetchInit DEF Init, Used
<1>2. ToldDone /\ Returned /\ BaseIsCall
  BY DEF Init, ToldDone, Returned, BaseIsCall
<1>3. Tracked
  BY <1>1 DEF Tracked, NothingLost, FetchUnderWay, Reported, SuccessIsAnswer, LeftInOrder,
     ToFetch
<1> QED
  BY <1>1, <1>2, <1>3 DEF Faultless

LEMMA SettledInvariance == Spec => []SettledInv
<1>1. Spec => []TypeOK
  BY TypeCorrect
<1>2. TypeOK /\ (faults = 0 => Faultless) /\ [Next]_vars => (faults = 0 => Faultless)'
  BY SettledNext DEF SettledInv
<1>3. Init => (faults = 0 => Faultless)
  BY SettledInit
<1>4. SettledInv <=> TypeOK /\ (faults = 0 => Faultless)
  BY DEF SettledInv
<1> QED
  BY <1>1, <1>2, <1>3, <1>4, PTL DEF Spec

(***************************************************************************)
(* When aergo_process_requests reports 0 to a caller that polls, and no    *)
(* fault ever happened, nothing is outstanding, every asynchronous call    *)
(* was processed, every one the node granted was told, and only ended      *)
(* subscriptions are left in the list.                                     *)
(***************************************************************************)
THEOREM ZeroSettles == Spec => []ZeroMeansSettled
<1>1. ASSUME SettledInv, pc = "idle", PollResult = 0, faults = 0
      PROVE  /\ \A r \in Ids : wire[r] # "open"
             /\ \A r \in Used : Accepted(r) => req[r].processed
             /\ \A r \in Used : Granted(r) => told[r] = 1
             /\ \A r \in requests : req[r].kind = "stream"
  <2>1. FetchInv /\ Returned /\ Tracked /\ stack = << >>
    BY <1>1 DEF SettledInv, Faultless, Alive, FetchInv, Inv, StackShape
  <2>2. /\ Used \subseteq Ids /\ requests \subseteq Used
        /\ \A r \in Ids : wire[r] = "open" => r \in requests
    BY <2>1, FetchBasics
  <2>3. \A r \in Ids : wire[r] # "open"
    <3>1. CASE requests = {}
      BY <2>2, <3>1
    <3>2. CASE requests # {}
      <4>1. Cardinality(Held) = 0 /\ IsFiniteSet(Held)
        BY <1>1, <2>1, <3>2, HeldFinite DEF PollResult, FetchInv, Inv, HeldCounted
      <4>2. Held = {}
        BY <4>1, FS_EmptySet
      <4> QED
        BY <4>2 DEF Held
    <3> QED
      BY <3>1, <3>2
  <2>4. \A r \in Used : req[r].kind # "stream" => req[r].processed
    BY <2>1, <2>2, <2>3 DEF Tracked, NothingLost
  <2>5. \A r \in Used : ~req[r].need_receipt
    <3>1. SUFFICES ASSUME NEW r \in Used, req[r].need_receipt PROVE FALSE
      OBVIOUS
    <3>2. r \in Ids /\ r \in requests /\ req[r].processed /\ req[r].success
      BY <1>1, <2>1, <2>2, <3>1 DEF FetchInv, Lineage
    <3>3. ~req[r].sync
      BY <2>1, <3>1, <3>2 DEF FetchInv, SyncShape, PendingIsBase
    <3>4. req[r].processing_receipt
      BY <1>1, <2>1, <3>1, <3>2 DEF Tracked, LeftInOrder, ToFetch
    <3> QED
      BY <2>1, <2>3, <3>1, <3>3, <3>4 DEF Tracked, FetchUnderWay
  <2>6. \A r \in Used : Granted(r) => told[r] = 1
    BY <2>1, <2>2, <2>5 DEF Granted, Accepted, Returned, Tracked, Reported
  <2>7. \A r \in requests : req[r].kind = "stream"
    BY <1>1, <2>1, <2>2, <2>4, <2>5 DEF Tracked, LeftInOrder
  <2> QED
    BY <2>3, <2>4, <2>6, <2>7 DEF Accepted
<1>2. SettledInv => ZeroMeansSettled
  BY <1>1 DEF ZeroMeansSettled
<1> QED
  BY SettledInvariance, <1>2, PTL
=============================================================================
