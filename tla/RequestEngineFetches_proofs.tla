-------------------- MODULE RequestEngineFetches_proofs --------------------
(***************************************************************************)
(* How receipt fetches and nested loops belong together, for every number  *)
(* of requests, attempts and faults.                                       *)
(*                                                                         *)
(* What is proved needs one thing of the program around the library: that  *)
(* no nested loop is left by an error of curl.  Either curl does not fail, *)
(* or the application makes asynchronous calls only, and no loop is ever   *)
(* nested.  Otherwise a transaction is settled while the synchronous       *)
(* GetReceipt it waited for is still outstanding (sync_main_released).     *)
(***************************************************************************)
EXTENDS RequestEngine_proofs

AsyncOnly == SyncKinds = {} /\ ~NullReceipt
Sequenced == AsyncOnly \/ ~CurlMayFail

(***************************************************************************)
(* Only a transaction the node accepted waits for a receipt, and while it  *)
(* does it stays in the list; a parent is such a transaction, its children *)
(* are GetReceipt requests, synchronous exactly if it is.                  *)
(***************************************************************************)
Lineage ==
  \A r \in Ids :
    /\ req[r].need_receipt => /\ req[r].kind = "commit"
                              /\ req[r].processed /\ req[r].success
                              /\ r \in requests \/ pc = "freed"
    /\ req[r].processing_receipt => req[r].processed
    /\ req[r].parent # NoReq =>
         LET p == req[r].parent
         IN  /\ r \in Used /\ p \in Used
             /\ req[p].processed /\ req[p].kind = "commit"
             /\ req[r].kind = "receipt" /\ req[r].sync = req[p].sync

(***************************************************************************)
(* The C stack and the synchronous requests.  An outstanding GetReceipt is *)
(* what the innermost loop waits for, an outstanding transaction what the  *)
(* outermost one does.  A transaction that waits for its receipt is the    *)
(* one the outermost loop waits for as well; when it is marked as being    *)
(* processed the loops are nested, what they wait for is in the list, and  *)
(* no fetch for it has succeeded.  All nested loops fetch for the same     *)
(* transaction, each a receipt of its own.                                 *)
(***************************************************************************)
FetchIsMain ==
  \A c \in Ids : wire[c] = "open" /\ req[c].sync /\ req[c].parent # NoReq =>
    stack # << >> /\ c = Main

CommitIsBase ==
  \A r \in Ids : wire[r] = "open" /\ req[r].sync /\ req[r].kind = "commit" =>
    stack # << >> /\ r = stack[1]

PendingIsBase ==
  \A p \in requests : req[p].sync /\ req[p].need_receipt =>
    /\ stack # << >> /\ p = stack[1]
    /\ req[p].processing_receipt => Len(stack) > 1
    /\ \A i \in 2 .. Len(stack) : stack[i] \in requests
    /\ \A c \in Children(p) : ~req[c].success

NestedForBase ==
  \A i \in 2 .. Len(stack) : req[stack[i]].sync /\ req[stack[i]].parent = stack[1]

NestingPaid == stack # << >> => Len(stack) <= 1 + Cardinality(Children(stack[1]))

SyncShape ==
  /\ FetchIsMain
  /\ CommitIsBase
  /\ PendingIsBase
  /\ NestedForBase
  /\ NestingPaid

FetchInv == Inv /\ Lineage /\ FetchHasParent /\ OneFetchAtATime /\ SyncShape

(***************************************************************************)
(* The transactions that outstanding fetches are for.                      *)
(***************************************************************************)
Parents == {req[c].parent : c \in {r \in Ids : wire[r] = "open"}} \ {NoReq}

LEMMA FetchBasics ==
  ASSUME FetchInv
  PROVE  /\ Inv /\ TypeOK /\ req \in [Ids -> Request] /\ SameStruct(req, req)
         /\ requests \subseteq Used /\ Used \subseteq Ids /\ NoReq \notin Ids
         /\ \A r \in Ids : req[r].parent \in Ids \cup {NoReq}
         /\ \A r \in Ids : wire[r] = "open" => r \in requests
         /\ stack \in Seq(Ids \cup {NoReq}) /\ Len(stack) \in Nat
<1>1. Inv /\ TypeOK /\ req \in [Ids -> Request]
  BY DEF FetchInv, Inv, TypeOK
<1>2. SameStruct(req, req) /\ \A r \in Ids : req[r].parent \in Ids \cup {NoReq}
  BY <1>1 DEF SameStruct, SameOrigin, SameProgress, Request
<1>3. stack \in Seq(Ids \cup {NoReq}) /\ Len(stack) \in Nat
  BY <1>1 DEF TypeOK
<1> QED
  BY <1>1, <1>2, <1>3, UsedIds DEF Inv, Numbering, AwaitedIsLive

(***************************************************************************)
(* request->parent of a request whose answer is outstanding points to its  *)
(* parent and to nothing else.                                             *)
(***************************************************************************)
LEMMA ParentPointed ==
  ASSUME FetchHasParent, NEW r \in Ids, wire[r] = "open"
  PROVE  Pointee(r) = {req[r].parent} /\ ThroughParent(r) = {}
  BY DEF FetchHasParent, Pointee, ThroughParent

(***************************************************************************)
(* What Send does to the structs one by one.                               *)
(***************************************************************************)
LEMMA SendFacts ==
  ASSUME TypeOK, NEW structs \in [Ids -> Request], NEW request, NEW w,
         Send(structs, request, w)
  PROVE  /\ created + 1 \in Ids /\ created + 1 \notin Used
         /\ Used' = Used \cup {created + 1}
         /\ requests' = requests \cup {created + 1}
         /\ req'[created + 1] = request /\ wire'[created + 1] = w
         /\ \A i \in Ids \ {created + 1} : req'[i] = structs[i] /\ wire'[i] = wire[i]
<1>1. created + 1 \in Ids /\ created + 1 \notin Used /\ Used' = Used \cup {created + 1}
  <2>1. created \in 0 .. MaxRequests /\ created < MaxRequests /\ created' = created + 1
    BY DEF TypeOK, Send
  <2> QED
    BY <2>1, EngineAssumption DEF Used, Ids
<1>2. req'[created + 1] = request /\ \A i \in Ids \ {created + 1} : req'[i] = structs[i]
  BY <1>1 DEF Send
<1>3. wire'[created + 1] = w /\ \A i \in Ids \ {created + 1} : wire'[i] = wire[i]
  BY <1>1 DEF Send, TypeOK
<1> QED
  BY <1>1, <1>2, <1>3 DEF Send

----------------------------------------------------------------------------
(* The steps of the network.                                               *)

\* A fetch that succeeds ends its transaction's wait.
LEMMA SuccessSettles ==
  ASSUME FetchInv, NEW r \in Ids, NetworkStep(r), req[r].parent # NoReq
  PROVE  req'[r].success => req[r].success \/ ~req'[req[r].parent].need_receipt
<1> DEFINE p == req[r].parent
<1>1. /\ req[r].kind = "receipt" /\ p \in Ids /\ p # r
      /\ p # NoReq /\ wire[r] = "open" /\ Pointee(r) = {p} /\ req \in [Ids -> Request]
  <2>1. wire[r] = "open"
    BY FetchBasics, NetworkDelivers DEF Delivered
  <2>2. req[r].kind # "stream" => ~req[r].processed
    BY <2>1, FetchBasics DEF Inv, AwaitedIsLive
  <2>3. req[r].kind = "receipt" /\ p \in Used /\ req[p].processed
    BY DEF FetchInv, Lineage
  <2> QED
    BY <2>1, <2>2, <2>3, FetchBasics, ParentPointed DEF FetchInv
<1>2. \A ok \in BOOLEAN : Processed(r, ok) \in [Ids -> Request] /\ Processed(r, ok)[r].success = ok
  <2>1. \A ok \in BOOLEAN : Processed(r, ok) \in [Ids -> Request]
    BY <1>1, AnswerUpdates DEF Answers
  <2>2. \A ok \in BOOLEAN : Processed(r, ok)[r].success = ok
    BY <1>1 DEF Processed, Request
  <2> QED
    BY <2>1, <2>2
<1>3. ASSUME NEW ok \in BOOLEAN, req' = WithReceipt(Processed(r, ok), p)
      PROVE  ~req'[p].need_receipt
  BY <1>1, <1>2, <1>3 DEF WithReceipt, Request
<1>4. ASSUME NEW last \in BOOLEAN,
             \/ req' = WithoutReceipt(Processed(r, FALSE), p)
             \/ req' = NotFound(Processed(r, FALSE), p, last)
      PROVE  ~req'[r].success
  BY <1>1, <1>2, <1>4 DEF WithoutReceipt, NotFound
<1>5. CASE ReceiptResponse(r)
  BY <1>1, <1>3, <1>5 DEF ReceiptResponse
<1>6. CASE ReceiptError(r) \/ ReceiptNotFound(r)
  BY <1>1, <1>4, <1>6 DEF ReceiptError, ReceiptNotFound
<1>7. CASE ReceiptCrash(r) \/ Lose(r)
  BY <1>7 DEF ReceiptCrash, Lose
<1> QED
  BY <1>1, <1>5, <1>6, <1>7
     DEF NetworkStep, Reply, CommitResponse, PlainError, QueryResponse, StateResponse,
         StreamMessage, StreamEnd, Awaited

\* What an answer to r changes, with the one parent there is.
LEMMA NetworkFacts ==
  ASSUME FetchInv, NEW r \in Ids, NetworkStep(r)
  PROVE  /\ wire[r] = "open" /\ r \in requests /\ r \in Used /\ pc = "wait"
         /\ req[r].kind # "stream" => ~req[r].processed
         /\ Touches(r, req[r].parent, req')
         /\ SameOrigin(req', req)
         /\ \A i \in Ids \ {r} : SameProgress(req', req, i)
         /\ UNCHANGED <<requests, created, stack, Used>>
         /\ \A i \in Ids : wire'[i] = "open" => wire[i] = "open"
         /\ wire'[r] = "open" => req[r].kind = "stream" \/ req' = req
<1>1. Inv /\ TypeOK /\ Delivered(r)
  BY FetchBasics, NetworkDelivers
<1>2. /\ wire[r] = "open" /\ pc = "wait"
      /\ wire \in [Ids -> {"none", "open", "closing", "unadded"}]
  BY <1>1 DEF Delivered, TypeOK
<1>3. r \in requests /\ r \in Used /\ (req[r].kind # "stream" => ~req[r].processed)
  BY <1>1, <1>2, FetchBasics DEF Inv, AwaitedIsLive
<1>4. Touches(r, req[r].parent, req')
  <2>1. PICK p \in Pointee(r) \cup {NoReq} : Touches(r, p, req')
    BY <1>1, NetworkTouches DEF FetchInv, Lineage
  <2>2. Pointee(r) = {req[r].parent}
    BY <1>2, ParentPointed DEF FetchInv
  <2>3. Touches(r, NoReq, req') => Touches(r, req[r].parent, req')
    BY FetchBasics DEF Touches
  <2> QED
    BY <2>1, <2>2, <2>3
<1>5. SameOrigin(req', req) /\ \A i \in Ids \ {r} : SameProgress(req', req, i)
  BY <1>1 DEF Delivered, Answers
<1>6. /\ \A i \in Ids : wire'[i] = "open" => wire[i] = "open"
      /\ wire'[r] = "open" => req[r].kind = "stream" \/ req' = req
  BY <1>1, <1>2 DEF Delivered, Close
<1>7. UNCHANGED <<requests, created, stack, Used>>
  BY <1>1 DEF Delivered, Used
<1> QED
  BY <1>2, <1>3, <1>4, <1>5, <1>6, <1>7

LEMMA NetworkLineage ==
  ASSUME FetchInv, NEW r \in Ids, NetworkStep(r)
  PROVE  Lineage'
<1>1. /\ r \in requests /\ pc = "wait" /\ requests' = requests /\ Used' = Used
      /\ req[r].kind # "stream" => ~req[r].processed
      /\ Touches(r, req[r].parent, req') /\ SameOrigin(req', req)
      /\ \A i \in Ids \ {r} : SameProgress(req', req, i)
  BY NetworkFacts
<1>2. ASSUME NEW i \in Ids, req'[i].need_receipt
      PROVE  /\ req'[i].kind = "commit" /\ req'[i].processed /\ req'[i].success
             /\ i \in requests'
  <2>1. CASE req[i].need_receipt
    <3>1. req[i].kind = "commit" /\ req[i].processed /\ req[i].success /\ i \in requests
      BY <1>1, <2>1 DEF FetchInv, Lineage
    <3> QED
      BY <1>1, <3>1 DEF SameOrigin, SameProgress
  <2>2. CASE ~req[i].need_receipt
    BY <1>1, <1>2, <2>2 DEF Touches, Grants, SameOrigin
  <2> QED
    BY <2>1, <2>2
<1>3. \A i \in Ids : req'[i].processing_receipt => req'[i].processed
  BY <1>1 DEF FetchInv, Lineage, Touches
<1>4. ASSUME NEW i \in Ids, req'[i].parent # NoReq
      PROVE  LET p == req'[i].parent
             IN  /\ i \in Used' /\ p \in Used'
                 /\ req'[p].processed /\ req'[p].kind = "commit"
                 /\ req'[i].kind = "receipt" /\ req'[i].sync = req'[p].sync
  <2>1. req'[i].parent = req[i].parent
    BY <1>1 DEF SameOrigin
  <2> DEFINE p == req[i].parent
  <2>2. /\ i \in Used /\ p \in Used /\ req[p].processed /\ req[p].kind = "commit"
        /\ req[i].kind = "receipt" /\ req[i].sync = req[p].sync
    BY <1>4, <2>1 DEF FetchInv, Lineage
  <2>3. p \in Ids
    BY <2>2, FetchBasics
  <2> QED
    BY <1>1, <2>1, <2>2, <2>3 DEF SameOrigin, Touches
<1> QED
  BY <1>2, <1>3, <1>4 DEF Lineage

LEMMA NetworkParents ==
  ASSUME FetchInv, NEW r \in Ids, NetworkStep(r)
  PROVE  FetchHasParent' /\ OneFetchAtATime'
<1>1. /\ wire[r] = "open" /\ requests' = requests
      /\ req[r].kind # "stream" => ~req[r].processed
      /\ Touches(r, req[r].parent, req') /\ SameOrigin(req', req)
      /\ \A i \in Ids : wire'[i] = "open" => wire[i] = "open"
      /\ wire'[r] = "open" => req[r].kind = "stream" \/ req' = req
  BY NetworkFacts
<1>2. OneFetchAtATime'
  BY <1>1 DEF FetchInv, OneFetchAtATime, SameOrigin
<1>3. ASSUME NEW c \in Ids, wire'[c] = "open", req'[c].parent # NoReq
      PROVE  LET p == req'[c].parent
             IN  /\ p \in requests'
                 /\ req'[p].processed /\ req'[p].success
                 /\ req'[p].need_receipt /\ req'[p].processing_receipt
  <2> DEFINE p == req[c].parent
  <2>1. wire[c] = "open" /\ req'[c].parent = p /\ p # NoReq
    BY <1>1, <1>3 DEF SameOrigin
  <2>2. /\ p \in requests /\ req[p].processed /\ req[p].success
        /\ req[p].need_receipt /\ req[p].processing_receipt
    BY <2>1 DEF FetchInv, FetchHasParent
  <2>3. p \in Ids /\ req[p].kind = "commit" /\ req[c].kind = "receipt"
    BY <2>1, <2>2, FetchBasics DEF FetchInv, Lineage
  <2>4. req' = req \/ c # r
    BY <1>1, <1>3, <2>3
  <2>5. p # r
    BY <1>1, <2>2, <2>3
  <2>6. c # r => p # req[r].parent
    BY <1>1, <2>1 DEF FetchInv, OneFetchAtATime
  <2>7. req'[p] = req[p]
    BY <1>1, <2>3, <2>4, <2>5, <2>6 DEF Touches
  <2> QED
    BY <1>1, <2>1, <2>2, <2>7
<1> QED
  BY <1>2, <1>3 DEF FetchHasParent

LEMMA NetworkShape ==
  ASSUME FetchInv, NEW r \in Ids, NetworkStep(r)
  PROVE  SyncShape'
<1>1. /\ wire[r] = "open" /\ r \in requests /\ requests' = requests /\ stack' = stack
      /\ Used' = Used /\ created' = created
      /\ req[r].kind # "stream" => ~req[r].processed
      /\ Touches(r, req[r].parent, req') /\ SameOrigin(req', req)
      /\ \A i \in Ids \ {r} : SameProgress(req', req, i)
      /\ \A i \in Ids : wire'[i] = "open" => wire[i] = "open"
  BY NetworkFacts
<1>2. \A p : Children(p)' = Children(p)
  BY <1>1, FetchBasics DEF Children, SameOrigin
<1>3. Main' = Main
  BY <1>1 DEF Main
<1>4. FetchIsMain' /\ CommitIsBase'
  BY <1>1, <1>3 DEF FetchInv, SyncShape, FetchIsMain, CommitIsBase, SameOrigin
<1>5. NestedForBase'
  <2>1. \A i \in 2 .. Len(stack) : stack[i] \in Ids
    BY DEF FetchInv, Inv, StackShape
  <2> QED
    BY <1>1, <2>1 DEF FetchInv, SyncShape, NestedForBase, SameOrigin
<1>6. NestingPaid'
  BY <1>1, <1>2 DEF FetchInv, SyncShape, NestingPaid
<1>7. ASSUME NEW p \in requests', req'[p].sync, req'[p].need_receipt
      PROVE  /\ stack' # << >> /\ p = stack'[1]
             /\ req'[p].processing_receipt => Len(stack') > 1
             /\ \A i \in 2 .. Len(stack') : stack'[i] \in requests'
             /\ \A c \in Children(p)' : ~req'[c].success
  <2>1. p \in Ids /\ p \in requests /\ req[p].sync
    BY <1>1, <1>7, FetchBasics DEF SameOrigin
  <2>2. req'[p].processing_receipt => req[p].processing_receipt
    BY <1>1, <2>1 DEF Touches
  <2>3. CASE req[p].need_receipt
    <3>1. /\ stack # << >> /\ p = stack[1]
          /\ req[p].processing_receipt => Len(stack) > 1
          /\ \A i \in 2 .. Len(stack) : stack[i] \in requests
          /\ \A c \in Children(p) : ~req[c].success
      BY <2>1, <2>3 DEF FetchInv, SyncShape, PendingIsBase
    <3>2. ASSUME NEW c \in Children(p)
          PROVE  ~req'[c].success
      <4>1. c \in Ids /\ req[c].parent = p /\ p # NoReq /\ ~req[c].success
        BY <2>1, <3>1, FetchBasics DEF Children
      <4>2. CASE c = r
        BY <1>7, <4>1, <4>2, SuccessSettles
      <4>3. CASE c # r
        BY <1>1, <4>1, <4>3 DEF SameProgress
      <4> QED
        BY <4>2, <4>3
    <3> QED
      BY <1>1, <1>2, <2>2, <3>1, <3>2
  <2>4. CASE ~req[p].need_receipt
    <3>1. p = r /\ req[r].kind = "commit" /\ ~req[r].processed
      BY <1>1, <1>7, <2>1, <2>4 DEF Touches, Grants
    <3>2. stack # << >> /\ r = stack[1]
      BY <1>1, <2>1, <3>1 DEF FetchInv, SyncShape, CommitIsBase
    <3>3. ~req[p].processing_receipt
      BY <3>1 DEF FetchInv, Lineage
    <3>4. \A i \in Ids : req[i].parent # r
      BY <2>1, <3>1, FetchBasics DEF FetchInv, Lineage
    <3>5. \A i \in 2 .. Len(stack) : FALSE
      BY <3>2, <3>4 DEF FetchInv, Inv, StackShape, SyncShape, NestedForBase
    <3>6. Children(p) = {}
      BY <3>1, <3>4, FetchBasics DEF Children
    <3> QED
      BY <1>1, <1>2, <2>2, <3>1, <3>2, <3>3, <3>5, <3>6
  <2> QED
    BY <2>3, <2>4
<1> QED
  BY <1>4, <1>5, <1>6, <1>7 DEF SyncShape, PendingIsBase

LEMMA FetchNetwork ==
  ASSUME FetchInv, NEW r \in Ids, NetworkStep(r)
  PROVE  FetchInv'
  BY FetchBasics, NetworkInv, NetworkLineage, NetworkParents, NetworkShape DEF FetchInv

----------------------------------------------------------------------------
(***************************************************************************)
(* Sending.  A request is sent outside of every loop, for nobody, or for   *)
(* the transaction p whose receipt is to be fetched, which then is marked  *)
(* as being processed, or waits no longer when the request was refused.    *)
(* A synchronous request that is sent is waited for by a loop of its own.  *)
(***************************************************************************)
Sends(structs, request, w, p) ==
  /\ Send(structs, request, w)
  /\ request.parent = p
  /\ ~request.need_receipt /\ ~request.processing_receipt /\ ~request.success
  /\ structs \in [Ids -> Request] /\ SameStruct(structs, req)
  /\ p \in Ids \cup {NoReq}
  /\ w \in {"open", "unadded", "none"}
  /\ \A i \in Ids \ {p} : structs[i] = req[i]
  /\ pc \in {"idle", "check"} /\ pc' \in {"idle", "check", "wait"}
  /\ p = NoReq => stack = << >>
  /\ p # NoReq =>
       /\ p \in ToFetch
       /\ request.kind = "receipt" /\ request.sync = req[p].sync
       /\ structs[p].need_receipt <=> w # "none"
       /\ structs[p].processing_receipt
  /\ stack' = IF request.sync /\ w # "none" THEN Append(stack, created + 1) ELSE stack

\* The new request is none of those there were, and p has no fetch outstanding.
LEMMA SendsFacts ==
  ASSUME FetchInv, NEW structs, NEW request, NEW w, NEW p,
         Sends(structs, request, w, p), NEW new, new = created + 1
  PROVE  /\ new \in Ids /\ new \notin Used /\ new # p
         /\ Used' = Used \cup {new} /\ requests' = requests \cup {new}
         /\ req'[new] = request /\ wire'[new] = w
         /\ \A i \in Ids \ {new} : /\ wire'[i] = wire[i]
                                   /\ req'[i].kind = req[i].kind
                                   /\ req'[i].sync = req[i].sync
                                   /\ req'[i].parent = req[i].parent
                                   /\ SameProgress(req', req, i)
                                   /\ i # p => req'[i] = req[i]
         /\ p # NoReq =>
              /\ p \in Ids /\ p \in Used /\ p \in requests /\ p \notin Parents
              /\ req[p].processed /\ req[p].success /\ req[p].need_receipt
              /\ ~req[p].processing_receipt /\ req[p].kind = "commit"
              /\ req'[p].processing_receipt
              /\ req'[p].need_receipt <=> w # "none"
         /\ req[new].parent = NoReq
<1>1. /\ created + 1 \in Ids /\ created + 1 \notin Used
      /\ Used' = Used \cup {created + 1}
      /\ requests' = requests \cup {created + 1}
      /\ req'[created + 1] = request /\ wire'[created + 1] = w
      /\ \A i \in Ids \ {created + 1} : req'[i] = structs[i] /\ wire'[i] = wire[i]
  BY SendFacts, FetchBasics DEF Sends
<1>2. \A i \in Ids \ {created + 1} : /\ req'[i].kind = req[i].kind
                                     /\ req'[i].sync = req[i].sync
                                     /\ req'[i].parent = req[i].parent
                                     /\ SameProgress(req', req, i)
                                     /\ i # p => req'[i] = req[i]
  BY <1>1 DEF Sends, SameStruct, SameOrigin, SameProgress
<1>3. ASSUME p # NoReq
      PROVE  /\ p \in Ids /\ p \in Used /\ p \in requests /\ p \notin Parents
             /\ req[p].processed /\ req[p].success /\ req[p].need_receipt
             /\ ~req[p].processing_receipt /\ req[p].kind = "commit"
  <2>1. /\ p \in requests /\ req[p].processed /\ req[p].success
        /\ req[p].need_receipt /\ ~req[p].processing_receipt
    BY <1>3 DEF Sends, ToFetch
  <2>2. p \in Used /\ p \in Ids /\ req[p].kind = "commit"
    BY <2>1, FetchBasics DEF FetchInv, Lineage
  <2>3. p \notin Parents
    BY <1>3, <2>1 DEF FetchInv, FetchHasParent, Parents
  <2> QED
    BY <2>1, <2>2, <2>3
<1>4. req[created + 1].parent = NoReq
  BY <1>1 DEF FetchInv, Lineage
<1>5. p # NoReq => /\ p # created + 1
                   /\ req'[p].processing_receipt
                   /\ req'[p].need_receipt <=> w # "none"
  BY <1>1, <1>3 DEF Sends
<1>6. p # created + 1
  BY <1>1, <1>5, FetchBasics
<1> QED
  BY <1>1, <1>2, <1>3, <1>4, <1>5, <1>6

LEMMA SendsLineage ==
  ASSUME FetchInv, NEW structs, NEW request, NEW w, NEW p,
         Sends(structs, request, w, p)
  PROVE  Lineage'
<1>1. PICK new : new = created + 1
  OBVIOUS
<1>2. /\ new \in Ids /\ new \notin Used /\ new # p
      /\ Used' = Used \cup {new} /\ requests' = requests \cup {new}
      /\ req'[new] = request
      /\ \A i \in Ids \ {new} : /\ req'[i].kind = req[i].kind
                                /\ req'[i].sync = req[i].sync
                                /\ req'[i].parent = req[i].parent
                                /\ SameProgress(req', req, i)
                                /\ i # p => req'[i] = req[i]
      /\ p # NoReq => /\ p \in Ids /\ p \in Used /\ p \in requests
                      /\ req[p].processed /\ req[p].success /\ req[p].kind = "commit"
  BY <1>1, SendsFacts
<1>3. /\ ~request.need_receipt /\ ~request.processing_receipt /\ request.parent = p
      /\ p # NoReq => request.kind = "receipt" /\ request.sync = req[p].sync
      /\ pc # "freed" /\ Used \subseteq Ids
  BY FetchBasics DEF Sends
<1>4. ASSUME NEW i \in Ids, req'[i].need_receipt
      PROVE  /\ req'[i].kind = "commit" /\ req'[i].processed /\ req'[i].success
             /\ i \in requests'
  <2>1. i # new
    BY <1>2, <1>3, <1>4
  <2>2. CASE i = p
    BY <1>2, <2>1, <2>2, FetchBasics DEF SameProgress
  <2>3. CASE i # p
    BY <1>2, <1>3, <1>4, <2>1, <2>3 DEF FetchInv, Lineage
  <2> QED
    BY <2>2, <2>3
<1>5. ASSUME NEW i \in Ids, req'[i].processing_receipt
      PROVE  req'[i].processed
  <2>1. i # new
    BY <1>2, <1>3, <1>5
  <2>2. CASE i = p
    BY <1>2, <2>1, <2>2, FetchBasics DEF SameProgress
  <2>3. CASE i # p
    BY <1>2, <1>5, <2>1, <2>3 DEF FetchInv, Lineage
  <2> QED
    BY <2>2, <2>3
<1>6. ASSUME NEW i \in Ids, req'[i].parent # NoReq
      PROVE  LET q == req'[i].parent
             IN  /\ i \in Used' /\ q \in Used'
                 /\ req'[q].processed /\ req'[q].kind = "commit"
                 /\ req'[i].kind = "receipt" /\ req'[i].sync = req'[q].sync
  <2>1. CASE i = new
    BY <1>2, <1>3, <1>6, <2>1 DEF SameProgress
  <2>2. CASE i # new
    <3> DEFINE q == req[i].parent
    <3>1. /\ i \in Used /\ q \in Used /\ req[q].processed /\ req[q].kind = "commit"
          /\ req[i].kind = "receipt" /\ req[i].sync = req[q].sync
      BY <1>2, <1>6, <2>2 DEF FetchInv, Lineage
    <3>2. q \in Ids \ {new}
      BY <1>2, <1>3, <3>1
    <3> QED
      BY <1>2, <2>2, <3>1, <3>2 DEF SameProgress
  <2> QED
    BY <2>1, <2>2
<1> QED
  BY <1>4, <1>5, <1>6 DEF Lineage

LEMMA SendsParents ==
  ASSUME FetchInv, NEW structs, NEW request, NEW w, NEW p,
         Sends(structs, request, w, p)
  PROVE  FetchHasParent' /\ OneFetchAtATime'
<1>1. PICK new : new = created + 1
  OBVIOUS
<1>2. /\ new \in Ids /\ new \notin Used /\ new # p
      /\ requests' = requests \cup {new}
      /\ req'[new].parent = p /\ wire'[new] = w
      /\ \A i \in Ids \ {new} : /\ wire'[i] = wire[i]
                                /\ req'[i].parent = req[i].parent
                                /\ SameProgress(req', req, i)
                                /\ i # p => req'[i] = req[i]
      /\ p # NoReq =>
           /\ p \in Ids /\ p \in requests /\ p \notin Parents
           /\ req[p].processed /\ req[p].success
           /\ req'[p].processing_receipt
           /\ req'[p].need_receipt <=> w # "none"
  BY <1>1, SendsFacts DEF Sends
<1>3. ASSUME NEW c \in Ids \ {new}, wire'[c] = "open", req'[c].parent # NoReq
      PROVE  /\ wire[c] = "open" /\ req'[c].parent = req[c].parent
             /\ req[c].parent \in Parents /\ req[c].parent # p
             /\ req[c].parent \in requests
             /\ req'[req[c].parent] = req[req[c].parent]
  <2> DEFINE q == req[c].parent
  <2>1. wire[c] = "open" /\ req'[c].parent = q /\ q # NoReq
    BY <1>2, <1>3
  <2>2. q \in Parents /\ q # p
    BY <1>2, <2>1 DEF Parents
  <2>3. q \in requests
    BY <2>1 DEF FetchInv, FetchHasParent
  <2>4. q \in Ids /\ q # new
    BY <1>2, <2>3, FetchBasics
  <2> QED
    BY <1>2, <2>1, <2>2, <2>3, <2>4
<1>4. ASSUME NEW c \in Ids, wire'[c] = "open", req'[c].parent # NoReq
      PROVE  LET q == req'[c].parent
             IN  /\ q \in requests'
                 /\ req'[q].processed /\ req'[q].success
                 /\ req'[q].need_receipt /\ req'[q].processing_receipt
  <2>1. CASE c = new
    BY <1>2, <1>4, <2>1 DEF SameProgress
  <2>2. CASE c # new
    BY <1>2, <1>3, <1>4, <2>2 DEF FetchInv, FetchHasParent
  <2> QED
    BY <2>1, <2>2
<1>5. ASSUME NEW c \in Ids, NEW d \in Ids, wire'[c] = "open", wire'[d] = "open",
             req'[c].parent = req'[d].parent, req'[c].parent # NoReq
      PROVE  c = d
  <2>1. CASE c # new /\ d # new
    BY <1>3, <1>5, <2>1 DEF FetchInv, OneFetchAtATime
  <2>2. CASE (c = new) # (d = new)
    BY <1>2, <1>3, <1>5, <2>2
  <2> QED
    BY <2>1, <2>2
<1> QED
  BY <1>4, <1>5 DEF FetchHasParent, OneFetchAtATime

\* The stack after Send: as it was, or one deeper.
LEMMA SendsStack ==
  ASSUME FetchInv, NEW structs, NEW request, NEW w, NEW p,
         Sends(structs, request, w, p), NEW new, new = created + 1
  PROVE  \/ stack' = stack /\ ~(request.sync /\ w # "none")
         \/ /\ request.sync /\ w # "none"
            /\ stack' # << >> /\ Len(stack') = Len(stack) + 1
            /\ Main' = new /\ stack'[Len(stack')] = new
            /\ stack = << >> => stack'[1] = new
            /\ stack # << >> => stack'[1] = stack[1]
            /\ \A i \in 1 .. Len(stack) : stack'[i] = stack[i]
<1>1. new \in Ids /\ stack \in Seq(Ids \cup {NoReq}) /\ Len(stack) \in Nat
  BY SendsFacts, FetchBasics
<1>2. CASE ~(request.sync /\ w # "none")
  BY <1>2 DEF Sends
<1>3. CASE request.sync /\ w # "none"
  <2>1. stack' = Append(stack, new)
    BY <1>3 DEF Sends
  <2>2. /\ Len(stack') = Len(stack) + 1 /\ stack'[Len(stack) + 1] = new
        /\ \A i \in 1 .. Len(stack) : stack'[i] = stack[i]
        /\ stack' \in Seq(Ids \cup {NoReq})
    BY <1>1, <2>1
  <2>3. stack' # << >> /\ Main' = new
    BY <1>1, <2>2 DEF Main
  <2>4. stack = << >> => stack'[1] = new
    BY <2>2
  <2>5. stack # << >> => Len(stack) > 0 /\ stack'[1] = stack[1]
    BY <1>1, <2>2
  <2> QED
    BY <1>3, <2>2, <2>3, <2>4, <2>5
<1> QED
  BY <1>2, <1>3

\* Before a receipt is fetched for a synchronous transaction, it is the one the
\* outermost loop waits for, and no synchronous GetReceipt is outstanding.
LEMMA SyncFetchBase ==
  ASSUME FetchInv, NEW p \in ToFetch, req[p].sync
  PROVE  /\ stack # << >> /\ p = stack[1]
         /\ \A i \in 2 .. Len(stack) : stack[i] \in requests
         /\ \A c \in Children(p) : ~req[c].success
         /\ \A c \in Ids : ~(wire[c] = "open" /\ req[c].sync /\ req[c].parent # NoReq)
<1>1. p \in requests /\ req[p].need_receipt /\ ~req[p].processing_receipt
  BY DEF ToFetch
<1>2. /\ stack # << >> /\ p = stack[1]
      /\ \A i \in 2 .. Len(stack) : stack[i] \in requests
      /\ \A c \in Children(p) : ~req[c].success
  BY <1>1 DEF FetchInv, SyncShape, PendingIsBase
<1>3. ASSUME NEW c \in Ids, wire[c] = "open", req[c].sync, req[c].parent # NoReq
      PROVE  FALSE
  <2> DEFINE q == req[c].parent
  <2>1. q \in requests /\ req[q].need_receipt /\ req[q].processing_receipt
    BY <1>3 DEF FetchInv, FetchHasParent
  <2>2. req[q].sync
    BY <1>3 DEF FetchInv, Lineage
  <2>3. q = stack[1]
    BY <2>1, <2>2 DEF FetchInv, SyncShape, PendingIsBase
  <2> QED
    BY <1>1, <1>2, <2>1, <2>3
<1> QED
  BY <1>2, <1>3

LEMMA SendsShape ==
  ASSUME FetchInv, NEW structs, NEW request, NEW w, NEW p,
         Sends(structs, request, w, p)
  PROVE  SyncShape'
<1>1. PICK new : new = created + 1
  OBVIOUS
<1>2. /\ new \in Ids /\ new \notin Used /\ new # p
      /\ Used' = Used \cup {new} /\ requests' = requests \cup {new}
      /\ req'[new] = request /\ wire'[new] = w
      /\ \A i \in Ids \ {new} : /\ wire'[i] = wire[i]
                                /\ req'[i].kind = req[i].kind
                                /\ req'[i].sync = req[i].sync
                                /\ req'[i].parent = req[i].parent
                                /\ SameProgress(req', req, i)
                                /\ i # p => req'[i] = req[i]
  BY <1>1, SendsFacts
<1>3. /\ p # NoReq => /\ p \in Ids /\ p \in requests /\ req[p].need_receipt
                      /\ req'[p].need_receipt <=> w # "none"
                      /\ p \in ToFetch /\ request.kind = "receipt"
                      /\ request.sync = req[p].sync
      /\ req[new].parent = NoReq
  BY <1>1, SendsFacts DEF Sends
<1>4. /\ request.parent = p /\ ~request.need_receipt /\ ~request.success
      /\ p = NoReq => stack = << >>
  BY DEF Sends
<1>5. \/ stack' = stack /\ ~(request.sync /\ w # "none")
      \/ /\ request.sync /\ w # "none"
         /\ stack' # << >> /\ Len(stack') = Len(stack) + 1
         /\ Main' = new /\ stack'[Len(stack')] = new
         /\ stack = << >> => stack'[1] = new
         /\ stack # << >> => stack'[1] = stack[1]
         /\ \A i \in 1 .. Len(stack) : stack'[i] = stack[i]
  BY <1>1, SendsStack
<1>6. /\ Used \subseteq Ids /\ requests \subseteq Used /\ NoReq \notin Ids /\ Len(stack) \in Nat
      /\ stack \in Seq(Ids \cup {NoReq})
      /\ \A i \in 2 .. Len(stack) : stack[i] \in Ids /\ req[stack[i]].parent \in Ids
      /\ \A i \in 2 .. Len(stack) : req[stack[i]].sync /\ req[stack[i]].parent = stack[1]
  BY FetchBasics DEF FetchInv, Inv, StackShape, SyncShape, NestedForBase
<1>7. p # NoReq /\ request.sync =>
        /\ stack # << >> /\ p = stack[1]
        /\ \A i \in 2 .. Len(stack) : stack[i] \in requests
        /\ \A c \in Children(p) : ~req[c].success
        /\ \A c \in Ids : ~(wire[c] = "open" /\ req[c].sync /\ req[c].parent # NoReq)
  BY <1>3, SyncFetchBase
<1>8. FetchIsMain'
  <2>1. SUFFICES ASSUME NEW c \in Ids, wire'[c] = "open", req'[c].sync,
                        req'[c].parent # NoReq
                 PROVE  stack' # << >> /\ c = Main'
    BY DEF FetchIsMain
  <2>2. CASE c = new
    BY <1>2, <1>5, <2>1, <2>2
  <2>3. CASE c # new
    <3>1. wire[c] = "open" /\ req[c].sync /\ req[c].parent # NoReq
      BY <1>2, <2>1, <2>3
    <3>2. stack # << >> /\ c = Main
      BY <3>1 DEF FetchInv, SyncShape, FetchIsMain
    <3>3. p # NoReq /\ ~request.sync
      BY <1>4, <1>7, <3>1, <3>2
    <3>4. stack' = stack /\ Main' = Main
      BY <1>5, <3>3 DEF Main
    <3> QED
      BY <3>2, <3>4
  <2> QED
    BY <2>2, <2>3
<1>9. CommitIsBase'
  <2>1. SUFFICES ASSUME NEW r \in Ids, wire'[r] = "open", req'[r].sync,
                        req'[r].kind = "commit"
                 PROVE  stack' # << >> /\ r = stack'[1]
    BY DEF CommitIsBase
  <2>2. CASE r = new
    <3>1. p = NoReq /\ stack = << >>
      BY <1>2, <1>3, <1>4, <2>1, <2>2
    <3> QED
      BY <1>2, <1>5, <2>1, <2>2, <3>1
  <2>3. CASE r # new
    <3>1. stack # << >> /\ r = stack[1]
      BY <1>2, <2>1, <2>3 DEF FetchInv, SyncShape, CommitIsBase
    <3> QED
      BY <1>5, <3>1
  <2> QED
    BY <2>2, <2>3
<1>10. PendingIsBase'
  <2>1. SUFFICES ASSUME NEW q \in requests', req'[q].sync, req'[q].need_receipt
                 PROVE  /\ stack' # << >> /\ q = stack'[1]
                        /\ req'[q].processing_receipt => Len(stack') > 1
                        /\ \A i \in 2 .. Len(stack') : stack'[i] \in requests'
                        /\ \A c \in Children(q)' : ~req'[c].success
    BY DEF PendingIsBase
  <2>2. q # new /\ q \in Ids /\ q \in requests /\ req[q].sync
    BY <1>2, <1>4, <1>6, <2>1
  <2>3. req[q].need_receipt
    <3>1. CASE q = p
      BY <1>3, <1>6, <2>2, <3>1
    <3>2. CASE q # p
      BY <1>2, <2>1, <2>2, <3>2
    <3> QED
      BY <3>1, <3>2
  <2>4. /\ stack # << >> /\ q = stack[1] /\ Len(stack) > 0
        /\ req[q].processing_receipt => Len(stack) > 1
        /\ \A i \in 2 .. Len(stack) : stack[i] \in requests
        /\ \A c \in Children(q) : ~req[c].success
    BY <1>6, <2>2, <2>3 DEF FetchInv, SyncShape, PendingIsBase
  <2>5. stack' # << >> /\ q = stack'[1]
    BY <1>5, <2>4
  <2>6. \A i \in 2 .. Len(stack') : stack'[i] \in requests'
    BY <1>2, <1>5, <1>6, <2>4
  <2>7. \A c \in Children(q)' : ~req'[c].success
    <3>1. SUFFICES ASSUME NEW c \in Children(q)', c # new
                   PROVE  ~req'[c].success
      BY <1>2, <1>4
    <3>2. c \in Children(q) /\ c \in Ids
      BY <1>2, <1>6, <3>1 DEF Children
    <3> QED
      BY <1>2, <2>4, <3>1, <3>2 DEF SameProgress
  <2>8. req'[q].processing_receipt => Len(stack') > 1
    <3>1. CASE q = p
      <4>1. request.sync /\ w # "none"
        BY <1>3, <1>6, <2>1, <2>2, <3>1
      <4> QED
        BY <1>5, <1>6, <2>4, <4>1
    <3>2. CASE q # p
      <4>1. req'[q] = req[q]
        BY <1>2, <2>2, <3>2
      <4> QED
        BY <1>5, <1>6, <2>4, <4>1
    <3> QED
      BY <3>1, <3>2
  <2> QED
    BY <2>5, <2>6, <2>7, <2>8
<1>11. NestedForBase'
  <2>1. ASSUME NEW i \in 2 .. Len(stack), stack'[i] = stack[i], stack'[1] = stack[1]
        PROVE  req'[stack'[i]].sync /\ req'[stack'[i]].parent = stack'[1]
    BY <1>2, <1>3, <1>6, <2>1
  <2>2. CASE stack' = stack
    BY <2>1, <2>2 DEF NestedForBase
  <2>3. CASE request.sync /\ w # "none" /\ stack' # stack
    <3>1. ASSUME NEW i \in 2 .. Len(stack')
          PROVE  req'[stack'[i]].sync /\ req'[stack'[i]].parent = stack'[1]
      <4>1. stack # << >>
        BY <1>5, <2>3, <3>1
      <4>2. CASE i = Len(stack')
        BY <1>2, <1>4, <1>5, <1>7, <2>3, <4>1, <4>2
      <4>3. CASE i # Len(stack')
        BY <1>5, <1>6, <2>1, <2>3, <4>1, <4>3
      <4> QED
        BY <4>2, <4>3
    <3> QED
      BY <3>1 DEF NestedForBase
  <2> QED
    BY <1>5, <2>2, <2>3
<1>12. ASSUME NEW b, stack' # << >>, b = stack'[1]
       PROVE  Len(stack') <= 1 + Cardinality(Children(b)')
  <2>1. \A q : Children(q) \subseteq Children(q)'
    BY <1>2, <1>6 DEF Children
  <2>2. /\ IsFiniteSet(Children(b)) /\ Cardinality(Children(b)) \in Nat
        /\ IsFiniteSet(Children(b)') /\ Cardinality(Children(b)') \in Nat
    <3>1. IsFiniteSet(Children(b)) /\ Cardinality(Children(b)) \in Nat
      BY FetchBasics, ChildrenFinite
    <3>2. Children(b)' \subseteq Children(b) \cup {new}
      BY <1>2, <1>6 DEF Children
    <3>3. IsFiniteSet(Children(b)')
      BY <3>1, <3>2, FS_AddElement, FS_Subset
    <3> QED
      BY <3>1, <3>3, FS_CardinalityType
  <2>3. Cardinality(Children(b)) <= Cardinality(Children(b)')
    BY <2>1, <2>2, FS_Subset
  <2>4. stack # << >> => Len(stack) <= 1 + Cardinality(Children(stack[1]))
    BY DEF FetchInv, SyncShape, NestingPaid
  <2>5. CASE stack' = stack
    BY <1>6, <1>12, <2>2, <2>3, <2>4, <2>5
  <2>6. CASE stack' # stack /\ stack = << >>
    <3>1. Len(stack') = 1
      BY <1>5, <2>6
    <3> QED
      BY <2>2, <3>1
  <2>7. CASE stack' # stack /\ stack # << >>
    <3>1. p # NoReq /\ p = stack[1] /\ b = p /\ Len(stack') = Len(stack) + 1
      BY <1>4, <1>5, <1>7, <1>12, <2>7
    <3>2. Children(b)' = Children(b) \cup {new} /\ new \notin Children(b)
      BY <1>2, <1>4, <1>6, <3>1 DEF Children
    <3>3. Cardinality(Children(b)') = Cardinality(Children(b)) + 1
      BY <2>2, <3>2, FS_AddElement
    <3> QED
      BY <1>6, <2>2, <2>4, <2>7, <3>1, <3>3
  <2> QED
    BY <2>5, <2>6, <2>7
<1>13. NestingPaid'
  BY <1>12 DEF NestingPaid, Children
<1> QED
  BY <1>8, <1>9, <1>10, <1>11, <1>13 DEF SyncShape

LEMMA FetchSends ==
  ASSUME FetchInv, Inv', NEW structs, NEW request, NEW w, NEW p,
         Sends(structs, request, w, p)
  PROVE  FetchInv'
  BY SendsLineage, SendsParents, SendsShape DEF FetchInv

----------------------------------------------------------------------------
(***************************************************************************)
(* The steps that send nothing and receive nothing.  They may end the wait *)
(* of a transaction, and leave the structs alone otherwise.                *)
(***************************************************************************)
Calm ==
  /\ created' = created
  /\ SameStruct(req', req)
  /\ \A i \in Ids : req'[i].need_receipt => req[i].need_receipt /\ req'[i] = req[i]
  /\ \A i \in Ids : req'[i].processing_receipt => req[i].processed
  /\ \A i \in Ids : wire'[i] = "open" => wire[i] = "open"

LEMMA CalmLinks ==
  ASSUME FetchInv, Calm,
         \A i \in requests : req'[i].need_receipt => i \in requests' \/ pc' = "freed",
         pc = "freed" => pc' = "freed",
         \A c \in Ids : wire'[c] = "open" /\ req[c].parent # NoReq =>
           req'[req[c].parent].need_receipt /\ req[c].parent \in requests'
  PROVE  Lineage' /\ FetchHasParent' /\ OneFetchAtATime'
<1>1. Used' = Used /\ Used \subseteq Ids
  BY FetchBasics DEF Calm, Used
<1>2. Lineage'
  <2>1. ASSUME NEW i \in Ids, req'[i].need_receipt
        PROVE  /\ req'[i].kind = "commit" /\ req'[i].processed /\ req'[i].success
               /\ i \in requests' \/ pc' = "freed"
    BY <2>1 DEF FetchInv, Lineage, Calm
  <2>2. \A i \in Ids : req'[i].processing_receipt => req'[i].processed
    BY DEF Calm, SameStruct, SameProgress
  <2>3. ASSUME NEW i \in Ids, req'[i].parent # NoReq
        PROVE  LET p == req'[i].parent
               IN  /\ i \in Used' /\ p \in Used'
                   /\ req'[p].processed /\ req'[p].kind = "commit"
                   /\ req'[i].kind = "receipt" /\ req'[i].sync = req'[p].sync
    <3> DEFINE p == req[i].parent
    <3>1. req'[i].parent = p
      BY DEF Calm, SameStruct, SameOrigin
    <3>2. /\ i \in Used /\ p \in Used /\ req[p].processed /\ req[p].kind = "commit"
          /\ req[i].kind = "receipt" /\ req[i].sync = req[p].sync
      BY <2>3, <3>1 DEF FetchInv, Lineage
    <3>3. p \in Ids
      BY <1>1, <3>2
    <3> QED
      BY <1>1, <3>1, <3>2, <3>3 DEF Calm, SameStruct, SameOrigin, SameProgress
  <2> QED
    BY <2>1, <2>2, <2>3 DEF Lineage
<1>3. FetchHasParent'
  <2>1. ASSUME NEW c \in Ids, wire'[c] = "open", req'[c].parent # NoReq
        PROVE  LET p == req'[c].parent
               IN  /\ p \in requests'
                   /\ req'[p].processed /\ req'[p].success
                   /\ req'[p].need_receipt /\ req'[p].processing_receipt
    <3> DEFINE p == req[c].parent
    <3>1. wire[c] = "open" /\ req'[c].parent = p /\ p # NoReq /\ p \in Ids
      BY <2>1, FetchBasics DEF Calm, SameStruct, SameOrigin
    <3>2. req[p].processed /\ req[p].success /\ req[p].processing_receipt
      BY <3>1 DEF FetchInv, FetchHasParent
    <3>3. req'[p].need_receipt /\ p \in requests' /\ req'[p] = req[p]
      BY <2>1, <3>1 DEF Calm
    <3> QED
      BY <3>1, <3>2, <3>3
  <2> QED
    BY <2>1 DEF FetchHasParent
<1>4. OneFetchAtATime'
  BY DEF FetchInv, OneFetchAtATime, Calm, SameStruct, SameOrigin
<1> QED
  BY <1>2, <1>3, <1>4

\* The children are the same, and where the stack is the base has paid for it.
LEMMA CalmChildren ==
  ASSUME FetchInv, Calm
  PROVE  \A p : /\ Children(p)' = Children(p) /\ Children(p) \subseteq Ids
               /\ Cardinality(Children(p)) \in Nat
<1>1. Used' = Used /\ Used \subseteq Ids
  BY FetchBasics DEF Calm, Used
<1>2. \A p : Cardinality(Children(p)) \in Nat
  BY FetchBasics, ChildrenFinite
<1> QED
  BY <1>1, <1>2 DEF Children, Calm, SameStruct, SameOrigin

\* A calm step inside of a loop that does not end.
LEMMA CalmShape ==
  ASSUME FetchInv, Calm, UNCHANGED <<stack, requests>>
  PROVE  SyncShape'
<1>1. \A p : Children(p)' = Children(p) /\ Children(p) \subseteq Ids
  BY CalmChildren
<1>2. requests \subseteq Ids /\ Main' = Main
  BY FetchBasics DEF Main
<1>3. FetchIsMain' /\ CommitIsBase'
  BY <1>2 DEF FetchInv, SyncShape, FetchIsMain, CommitIsBase, Calm, SameStruct, SameOrigin
<1>4. NestedForBase'
  BY DEF FetchInv, Inv, StackShape, SyncShape, NestedForBase, Calm, SameStruct, SameOrigin
<1>5. NestingPaid'
  BY <1>1 DEF FetchInv, SyncShape, NestingPaid
<1>6. ASSUME NEW p \in requests', req'[p].sync, req'[p].need_receipt
      PROVE  /\ stack' # << >> /\ p = stack'[1]
             /\ req'[p].processing_receipt => Len(stack') > 1
             /\ \A i \in 2 .. Len(stack') : stack'[i] \in requests'
             /\ \A c \in Children(p)' : ~req'[c].success
  <2>1. p \in requests /\ p \in Ids /\ req'[p] = req[p]
    BY <1>2, <1>6 DEF Calm
  <2>2. /\ stack # << >> /\ p = stack[1]
        /\ req[p].processing_receipt => Len(stack) > 1
        /\ \A i \in 2 .. Len(stack) : stack[i] \in requests
        /\ \A c \in Children(p) : ~req[c].success
    BY <1>6, <2>1 DEF FetchInv, SyncShape, PendingIsBase
  <2> QED
    BY <1>1, <2>1, <2>2 DEF Calm, SameStruct, SameProgress
<1> QED
  BY <1>3, <1>4, <1>5, <1>6 DEF SyncShape, PendingIsBase

\* No synchronous request is outstanding, none waits for its receipt.
NoneSync ==
  /\ \A c \in Ids : ~(wire[c] = "open" /\ req[c].sync
                      /\ (req[c].parent # NoReq \/ req[c].kind = "commit"))
  /\ \A p \in requests : ~(req[p].sync /\ req[p].need_receipt)

\* Outside of every loop that is so; then SyncShape says little.
LEMMA IdleNoneSync == ASSUME FetchInv, stack = << >> PROVE NoneSync
  BY DEF FetchInv, SyncShape, FetchIsMain, CommitIsBase, PendingIsBase, NoneSync

LEMMA CalmOutside ==
  ASSUME FetchInv, Calm, NoneSync, stack' \in {<< >>, <<NoReq>>},
         requests' \subseteq requests
  PROVE  SyncShape'
<1>1. Len(stack') \in {0, 1}
  OBVIOUS
<1>2. FetchIsMain' /\ CommitIsBase' /\ PendingIsBase'
  BY FetchBasics DEF NoneSync, Calm, SameStruct, SameOrigin, FetchIsMain, CommitIsBase,
                     PendingIsBase
<1>3. NestedForBase'
  BY <1>1 DEF NestedForBase
<1>4. ASSUME NEW b PROVE Len(stack') <= 1 + Cardinality(Children(b)')
  <2>1. PICK n \in Nat : n = Cardinality(Children(b)')
    BY CalmChildren
  <2>2. Len(stack') <= 1 + n
    BY <1>1
  <2> QED
    BY <2>1, <2>2
<1>5. NestingPaid'
  BY <1>4 DEF NestingPaid, Children
<1> QED
  BY <1>2, <1>3, <1>5 DEF SyncShape

\* The structs are as they were.
LEMMA CalmSame ==
  ASSUME FetchInv, UNCHANGED <<created, req>>,
         \A i \in Ids : wire'[i] = "open" => wire[i] = "open"
  PROVE  Calm
  BY FetchBasics DEF Calm, FetchInv, Lineage

LEMMA FetchUnchanged ==
  ASSUME FetchInv, Inv', UNCHANGED <<created, req, requests>>,
         stack' = stack \/ Poll, pc = "freed" => pc' = "freed",
         \A i \in Ids : wire'[i] = "open" => wire[i] = "open"
  PROVE  FetchInv'
<1>1. Calm
  BY CalmSame
<1>2. Lineage' /\ FetchHasParent' /\ OneFetchAtATime'
  <2>1. \A c \in Ids : wire'[c] = "open" /\ req[c].parent # NoReq =>
           req'[req[c].parent].need_receipt /\ req[c].parent \in requests'
    BY DEF FetchInv, FetchHasParent
  <2> QED
    BY <1>1, <2>1, CalmLinks
<1>3. CASE stack' = stack
  BY <1>1, <1>2, <1>3, CalmShape DEF FetchInv
<1>4. CASE Poll
  <2>1. NoneSync
    BY <1>4, IdleNoneSync DEF Poll, FetchInv, Inv, StackShape
  <2>2. SyncShape'
    BY <1>1, <1>4, <2>1, CalmOutside DEF Poll
  <2> QED
    BY <1>2, <2>2 DEF FetchInv
<1> QED
  BY <1>3, <1>4

LEMMA FetchFree == ASSUME FetchInv, Free PROVE FetchInv'
<1>1. Inv' /\ NoneSync
  BY FreeInv, IdleNoneSync DEF Free, FetchInv, Inv, StackShape
<1>2. /\ Calm /\ pc' = "freed" /\ stack' = << >> /\ requests' = {}
      /\ \A i \in Ids : wire'[i] # "open"
  BY CalmSame DEF Free, FetchInv, Inv, StackShape
<1>3. SyncShape'
  BY <1>1, <1>2, CalmOutside
<1>4. Lineage' /\ FetchHasParent' /\ OneFetchAtATime'
  BY <1>2, CalmLinks
<1> QED
  BY <1>1, <1>3, <1>4 DEF FetchInv

LEMMA FetchNoMemoryFetch == ASSUME FetchInv, FetchNoMemory PROVE FetchInv'
<1>1. Inv' /\ req \in [Ids -> Request] /\ TypeOK
  BY FetchNoMemoryInv, FetchBasics
<1>2. PICK p \in Ids : NextToFetch(p) /\ req' = Unfetched(p)
  BY DEF FetchNoMemory, Unfetched
<1>3. /\ p \in requests /\ req[p].processed /\ req[p].need_receipt
      /\ ~req[p].processing_receipt
  BY <1>2 DEF NextToFetch, ToFetch
<1>4. /\ \A i \in Ids \ {p} : req'[i] = req[i]
      /\ ~req'[p].need_receipt
  BY <1>1, <1>2 DEF Unfetched, Fetching, Request
<1>5. UNCHANGED <<requests, created, wire, stack, pc>>
  BY DEF FetchNoMemory, link
<1>6. Calm
  BY <1>1, <1>2, <1>3, <1>4, <1>5, UnfetchedType DEF Calm, FetchInv, Lineage
<1>7. Lineage' /\ FetchHasParent' /\ OneFetchAtATime'
  <2>1. ASSUME NEW c \in Ids, wire'[c] = "open", req[c].parent # NoReq
        PROVE  req'[req[c].parent].need_receipt /\ req[c].parent \in requests'
    <3> DEFINE q == req[c].parent
    <3>1. q \in requests /\ req[q].need_receipt /\ req[q].processing_receipt
      BY <1>5, <2>1 DEF FetchInv, FetchHasParent
    <3>2. q \in Ids /\ q # p
      BY <1>3, <3>1, FetchBasics
    <3> QED
      BY <1>4, <1>5, <3>1, <3>2
  <2>2. /\ \A i \in requests : req'[i].need_receipt => i \in requests' \/ pc' = "freed"
        /\ pc = "freed" => pc' = "freed"
    BY <1>5
  <2> QED
    BY <1>6, <2>1, <2>2, CalmLinks
<1> QED
  BY <1>1, <1>5, <1>6, <1>7, CalmShape DEF FetchInv

(***************************************************************************)
(* The end of a loop.                                                      *)
(***************************************************************************)
\* A loop is left only when the answer it waited for is in.
LEMMA LeaveMain ==
  ASSUME FetchInv, Leave
  PROVE  /\ stack # << >>
         /\ \A c \in Ids : wire[c] = "open" /\ req[c].kind # "stream" => c # Main
<1>1. stack # << >>
  BY DEF Leave, FetchInv, Inv, StackShape
<1>2. ASSUME NEW c \in Ids, wire[c] = "open", req[c].kind # "stream", c = Main
      PROVE  FALSE
  <2>1. c \in requests /\ ~req[c].processed
    BY <1>2 DEF FetchInv, Inv, AwaitedIsLive
  <2>2. \A m \in MainStatus : ~m.settled
    <3>1. PICK b \in BOOLEAN : b = (req[c].processed /\ ~req[c].need_receipt)
      OBVIOUS
    <3>2. MainStatus = {[settled |-> b, success |-> req[c].success]}
      BY <1>2, <2>1, <3>1 DEF MainStatus
    <3>3. ~b
      BY <2>1, <3>1
    <3> QED
      BY <3>2, <3>3
  <2>3. transfers # 0
    <3>1. IsFiniteSet(Held) /\ c \in Held
      BY <1>2, FetchBasics, HeldFinite DEF Held
    <3>2. Cardinality(Held) # 0
      BY <3>1, FS_EmptySet
    <3> QED
      BY <3>2 DEF FetchInv, Inv, HeldCounted
  <2>4. Main # NoReq
    BY <1>2, FetchBasics
  <2> QED
    BY <2>2, <2>3, <2>4 DEF Leave
<1> QED
  BY <1>1, <1>2

\* What the end of a nested loop does to the transaction it fetched for.
LEMMA NestedLeave ==
  ASSUME FetchInv, Leave, Len(stack) # 1
  PROVE  /\ Main \in Ids /\ req[Main].sync /\ req[Main].parent = stack[1]
         /\ stack[1] \in Ids /\ req[stack[1]].sync
         /\ req' \in {req, [req EXCEPT ![stack[1]].need_receipt = FALSE]}
         /\ stack[1] \in requests => ~req'[stack[1]].need_receipt
<1> DEFINE p == stack[1]
<1>1. stack # << >> /\ Len(stack) \in Nat \ {0} /\ Main = stack[Len(stack)]
  BY LeaveMain, FetchBasics, MainType DEF Main
<1>2. Main \in Ids /\ req[Main].sync /\ req[Main].parent = p
  <2>1. Main \in Ids
    BY <1>1, FetchBasics, MainType
  <2>2. Len(stack) \in 2 .. Len(stack)
    <3>1. PICK n \in Nat \ {0} : n = Len(stack)
      BY <1>1
    <3>2. n # 1 /\ n \in 2 .. n
      BY <3>1
    <3> QED
      BY <3>1, <3>2
  <2>3. req[stack[Len(stack)]].sync /\ req[stack[Len(stack)]].parent = p
    BY <2>2 DEF FetchInv, SyncShape, NestedForBase
  <2> QED
    BY <1>1, <2>1, <2>3
<1>3. p \in Used /\ p \in Ids /\ req[p].sync /\ Main \in Children(p)
  <2>1. req[Main].parent \in Ids
    BY <1>1, FetchBasics, MainType
  <2>2. p # NoReq
    BY <1>2, <2>1, FetchBasics
  <2> QED
    BY <1>2, <2>2, FetchBasics DEF FetchInv, Lineage, Children
<1>4. PICK m \in MainStatus : Return(requests \ Settled, m.settled /\ m.success, ThroughMain)
  BY DEF Leave
<1>5. PICK ok \in BOOLEAN : ok = (m.settled /\ m.success)
  OBVIOUS
<1>6. Return(requests \ Settled, ok, ThroughMain)
  BY <1>4, <1>5
<1>7. req' = IF ok \/ p \notin requests \ Settled THEN req
             ELSE [req EXCEPT ![p].need_receipt = FALSE]
  BY <1>2, <1>6 DEF Return
<1>8. ASSUME p \in requests, req[p].need_receipt
      PROVE  ~ok /\ p \in requests \ Settled
  <2>1. Main \in requests /\ ~req[Main].success
    BY <1>1, <1>3, <1>8 DEF FetchInv, SyncShape, PendingIsBase
  <2>2. ~m.success
    BY <1>4, <2>1 DEF MainStatus
  <2>3. ~ok
    BY <1>5, <2>2
  <2> QED
    BY <1>8, <2>3 DEF Settled
<1>9. p \in requests => ~req'[p].need_receipt
  BY <1>3, <1>7, <1>8, FetchBasics DEF Request
<1> QED
  BY <1>2, <1>3, <1>7, <1>9

LEMMA LeaveStack ==
  ASSUME FetchInv, Leave
  PROVE  /\ Len(stack) \in Nat \ {0} /\ Len(stack') = Len(stack) - 1
         /\ \A i \in 1 .. Len(stack') : stack'[i] = stack[i]
         /\ Len(stack) = 1 => stack' = << >> /\ req' = req
         /\ Len(stack) # 1 => stack' # << >> /\ stack'[1] = stack[1]
         /\ requests' = requests \ Settled /\ UNCHANGED <<link, wire>>
         /\ pc' \in {"idle", "check"}
<1>1. stack # << >> /\ Inv
  BY LeaveMain DEF FetchInv
<1>2. PICK ok, live : Return(live, ok, ThroughMain) /\ live = requests \ Settled
  BY DEF Leave
<1>3. /\ Len(stack) \in Nat \ {0} /\ Len(stack') = Len(stack) - 1
      /\ \A i \in 1 .. Len(stack') : stack'[i] = stack[i]
      /\ stack' \in Seq(Ids \cup {NoReq})
  BY <1>1, <1>2, MainType, ReturnStack
<1>4. Len(stack) = 1 => stack' = << >> /\ req' = req
  <2>1. Len(stack) = 1 => Len(stack') = 0 /\ req' = req
    BY <1>2, <1>3 DEF Return
  <2> QED
    BY <1>3, <2>1
<1>5. Len(stack) # 1 => stack' # << >> /\ stack'[1] = stack[1]
  BY <1>3
<1>6. /\ requests' = requests \ Settled /\ UNCHANGED <<link, wire>>
      /\ pc' \in {"idle", "check"}
  BY <1>2 DEF Leave, Return
<1> QED
  BY <1>3, <1>4, <1>5, <1>6

LEMMA LeaveCalm == ASSUME FetchInv, Leave PROVE Calm
<1>1. created' = created /\ wire' = wire
  BY LeaveStack DEF link
<1>2. CASE req' = req
  BY <1>1, <1>2, CalmSame
<1>3. CASE req' # req
  <2>1. stack[1] \in Ids /\ req' = [req EXCEPT ![stack[1]].need_receipt = FALSE]
    BY <1>3, LeaveStack, NestedLeave
  <2>2. PICK p \in Ids : req' = [req EXCEPT ![p].need_receipt = FALSE]
    BY <2>1
  <2>3. /\ SameStruct(req', req)
        /\ \A i \in Ids : /\ req'[i].need_receipt => req'[i] = req[i]
                          /\ req'[i].processing_receipt = req[i].processing_receipt
    BY <2>2, FetchBasics DEF SameStruct, SameOrigin, SameProgress, Request
  <2> QED
    BY <1>1, <2>3 DEF Calm, FetchInv, Lineage
<1> QED
  BY <1>2, <1>3

\* When a loop is left no synchronous GetReceipt is outstanding, and none of
\* the synchronous transactions waits for its receipt any more.
LEMMA LeaveSettles ==
  ASSUME FetchInv, Leave
  PROVE  /\ \A c \in Ids : ~(wire[c] = "open" /\ req[c].sync /\ req[c].parent # NoReq)
         /\ \A p \in requests : ~(req[p].sync /\ req'[p].need_receipt)
         /\ Len(stack) = 1 => NoneSync
<1>1. \A c \in Ids : wire[c] = "open" /\ req[c].kind # "stream" => c # Main
  BY LeaveMain
<1>2. ASSUME NEW c \in Ids, wire[c] = "open", req[c].sync, req[c].parent # NoReq
      PROVE  FALSE
  BY <1>1, <1>2 DEF FetchInv, SyncShape, FetchIsMain, Lineage
<1>3. ASSUME NEW p \in requests, req[p].sync, req'[p].need_receipt
      PROVE  FALSE
  <2>1. p \in Ids /\ req[p].need_receipt
    BY <1>3, FetchBasics, LeaveCalm DEF Calm
  <2>2. /\ p = stack[1]
        /\ req[p].processing_receipt => Len(stack) > 1
    BY <1>3, <2>1 DEF FetchInv, SyncShape, PendingIsBase
  <2>3. req[p].processing_receipt
    BY <2>1 DEF FetchInv, Lineage, Leave, ToFetch
  <2>4. Len(stack) # 1
    BY <2>2, <2>3, LeaveStack
  <2> QED
    BY <1>3, <2>2, <2>4, NestedLeave
<1>4. ASSUME Len(stack) = 1
      PROVE  NoneSync
  <2>1. \A r \in Ids : ~(wire[r] = "open" /\ req[r].sync /\ req[r].kind = "commit")
    BY <1>1, <1>4 DEF FetchInv, SyncShape, CommitIsBase, Main
  <2>2. req' = req
    BY <1>4, LeaveStack
  <2> QED
    BY <1>2, <1>3, <2>1, <2>2 DEF NoneSync
<1> QED
  BY <1>2, <1>3, <1>4

LEMMA LeaveLinks ==
  ASSUME FetchInv, Leave
  PROVE  Lineage' /\ FetchHasParent' /\ OneFetchAtATime'
<1>1. Calm /\ requests' = requests \ Settled /\ wire' = wire
  BY LeaveCalm, LeaveStack
<1>2. \A i \in requests : req'[i].need_receipt => i \in requests'
  BY <1>1, FetchBasics DEF Calm, Settled
<1>3. ASSUME NEW c \in Ids, wire'[c] = "open", req[c].parent # NoReq
      PROVE  req'[req[c].parent].need_receipt /\ req[c].parent \in requests'
  <2> DEFINE q == req[c].parent
  <2>1. q \in requests /\ req[q].need_receipt /\ req[c].sync = req[q].sync
    BY <1>1, <1>3 DEF FetchInv, FetchHasParent, Lineage
  <2>2. ~req[c].sync
    BY <1>1, <1>3, LeaveSettles
  <2>3. req'[q].need_receipt
    <3>1. CASE Len(stack) = 1
      BY <2>1, <3>1, LeaveStack
    <3>2. CASE Len(stack) # 1
      <4>1. stack[1] \in Ids /\ q \in Ids /\ q # stack[1]
        BY <2>1, <2>2, <3>2, NestedLeave, FetchBasics
      <4> QED
        BY <2>1, <3>2, <4>1, NestedLeave, FetchBasics
    <3> QED
      BY <3>1, <3>2
  <2> QED
    BY <1>2, <2>1, <2>3
<1>4. pc # "freed"
  BY DEF Leave
<1> QED
  BY <1>1, <1>2, <1>3, <1>4, CalmLinks

LEMMA LeaveShape == ASSUME FetchInv, Leave PROVE SyncShape'
<1>1. /\ Len(stack) \in Nat \ {0} /\ Len(stack') = Len(stack) - 1
      /\ \A i \in 1 .. Len(stack') : stack'[i] = stack[i]
      /\ Len(stack) = 1 => stack' = << >>
      /\ Len(stack) # 1 => stack' # << >> /\ stack'[1] = stack[1]
      /\ requests' \subseteq requests /\ wire' = wire
      /\ Calm
  BY LeaveStack, LeaveCalm
<1>2. CASE Len(stack) = 1
  BY <1>1, <1>2, LeaveSettles, CalmOutside
<1>3. CASE Len(stack) # 1
  <2>1. /\ \A c \in Ids : ~(wire'[c] = "open" /\ req'[c].sync /\ req'[c].parent # NoReq)
        /\ \A p \in requests' : ~(req'[p].sync /\ req'[p].need_receipt)
    BY <1>1, LeaveSettles, FetchBasics DEF Calm, SameStruct, SameOrigin
  <2>2. FetchIsMain' /\ PendingIsBase'
    BY <2>1 DEF FetchIsMain, PendingIsBase
  <2>3. CommitIsBase'
    BY <1>1, <1>3 DEF FetchInv, SyncShape, CommitIsBase, Calm, SameStruct, SameOrigin
  <2>4. ASSUME NEW i \in 2 .. Len(stack')
        PROVE  req'[stack'[i]].sync /\ req'[stack'[i]].parent = stack'[1]
    <3>1. i \in 2 .. Len(stack) /\ stack'[i] = stack[i] /\ stack'[1] = stack[1]
      BY <1>1, <1>3
    <3>2. stack[i] \in Ids /\ req[stack[i]].sync /\ req[stack[i]].parent = stack[1]
      BY <3>1 DEF FetchInv, Inv, StackShape, SyncShape, NestedForBase
    <3> QED
      BY <1>1, <3>1, <3>2 DEF Calm, SameStruct, SameOrigin
  <2>5. ASSUME NEW b, b = stack'[1]
        PROVE  Len(stack') <= 1 + Cardinality(Children(b)')
    <3>1. PICK n \in Nat : n = Cardinality(Children(b)) /\ n = Cardinality(Children(b)')
      BY <1>1, CalmChildren
    <3>2. Len(stack) <= 1 + n
      BY <1>1, <1>3, <2>5, <3>1, LeaveMain DEF FetchInv, SyncShape, NestingPaid
    <3>3. Len(stack') <= 1 + n
      BY <1>1, <3>2
    <3> QED
      BY <3>1, <3>3
  <2>6. NestingPaid'
    BY <2>5 DEF NestingPaid, Children
  <2> QED
    BY <2>2, <2>3, <2>4, <2>6 DEF SyncShape, NestedForBase
<1> QED
  BY <1>2, <1>3

LEMMA FetchLeave == ASSUME FetchInv, Leave PROVE FetchInv'
  BY LeaveInv, LeaveLinks, LeaveShape DEF FetchInv

\* A loop that is not nested is left by an error of curl, and was the only one.
LEMMA FetchCurlFails ==
  ASSUME FetchInv, CurlFails, stack = <<NoReq>>, NoneSync
  PROVE  FetchInv'
<1>1. Inv' /\ Len(stack) = 1 /\ stack # << >>
  BY CurlFailsInv DEF FetchInv
<1>2. UNCHANGED <<created, req, requests, wire>> /\ pc # "freed" /\ stack' = << >>
  <2>1. Return(requests, FALSE, {}) /\ UNCHANGED <<link, wire>> /\ pc # "freed"
    BY DEF CurlFails
  <2>2. stack' \in Seq(Ids \cup {NoReq}) /\ Len(stack') = 0
    <3>1. PICK live, ok, through : Return(live, ok, through)
      BY <2>1
    <3>2. Inv
      BY DEF FetchInv
    <3>3. stack' \in Seq(Ids \cup {NoReq}) /\ Len(stack') = Len(stack) - 1
      BY <1>1, <3>1, <3>2, ReturnStack
    <3> QED
      BY <1>1, <3>3
  <2>3. stack' = << >>
    BY <2>2
  <2> QED
    BY <1>1, <2>1, <2>3 DEF Return, link
<1>3. Calm
  BY <1>2, CalmSame
<1>4. SyncShape'
  BY <1>2, <1>3, CalmOutside
<1>5. \A c \in Ids : wire'[c] = "open" /\ req[c].parent # NoReq =>
        req'[req[c].parent].need_receipt /\ req[c].parent \in requests'
  BY <1>2 DEF FetchInv, FetchHasParent
<1>6. Lineage' /\ FetchHasParent' /\ OneFetchAtATime'
  BY <1>2, <1>3, <1>5, CalmLinks
<1> QED
  BY <1>1, <1>4, <1>6 DEF FetchInv

----------------------------------------------------------------------------
(* All steps.                                                              *)

LEMMA RootSends ==
  ASSUME FetchInv, NEW k, NEW s \in BOOLEAN, NEW ptr,
         \/ AsyncCall(k) /\ s = FALSE /\ ptr = FALSE
         \/ SyncCall(k, ptr) /\ s = TRUE
         \/ RefusedCall(k, s) /\ ptr = s
  PROVE  \E w \in {"open", "unadded", "none"} : Sends(req, Blank(k, s, ptr, NoReq), w, NoReq)
<1> DEFINE request == Blank(k, s, ptr, NoReq)
<1>1. /\ request.parent = NoReq /\ request.sync = s
      /\ ~request.need_receipt /\ ~request.processing_receipt /\ ~request.success
  BY DEF Blank
<1>2. /\ pc = "idle" /\ stack = << >>
      /\ req \in [Ids -> Request] /\ SameStruct(req, req)
  BY FetchBasics DEF AsyncCall, SyncCall, RefusedCall, MayCall, Inv, StackShape
<1> HIDE DEF request
<1>3. CASE AsyncCall(k) /\ s = FALSE /\ ptr = FALSE
  <2>1. PICK w \in {"open", "unadded"} : Send(req, request, w)
    BY <1>3 DEF AsyncCall, Queue, request
  <2> QED
    BY <1>1, <1>2, <1>3, <2>1 DEF AsyncCall, Sends, request
<1>4. CASE RefusedCall(k, s) /\ ptr = s
  BY <1>1, <1>2, <1>4 DEF RefusedCall, Sends, request
<1>5. CASE SyncCall(k, ptr) /\ s = TRUE
  <2>1. Append(stack, created + 1) = <<created + 1>>
    BY <1>2
  <2>2. PICK w \in {"open", "unadded"} : Send(req, request, w)
    BY <1>5 DEF SyncCall, Queue, request
  <2> QED
    BY <1>1, <1>2, <1>5, <2>1, <2>2 DEF SyncCall, Sends, request
<1> QED
  BY <1>3, <1>4, <1>5 DEF request

LEMMA ChildSends ==
  ASSUME FetchInv, FetchReceipt \/ FetchRefused
  PROVE  \E p \in ToFetch, w \in {"open", "unadded", "none"} :
           \E structs \in {Fetching(p), Unfetched(p)} :
             Sends(structs, Blank("receipt", req[p].sync, req[p].return_ptr, p), w, p)
<1>1. PICK p \in Ids, w \in {"open", "unadded"} :
        /\ NextToFetch(p)
        /\ \/ /\ Send(Fetching(p), Blank("receipt", req[p].sync, req[p].return_ptr, p), w)
              /\ stack' = IF req[p].sync THEN Append(stack, created + 1) ELSE stack
           \/ /\ Send(Unfetched(p), Blank("receipt", req[p].sync, req[p].return_ptr, p), "none")
              /\ stack' = stack
  BY DEF FetchReceipt, FetchRefused, Unfetched, Queue
<1>2. pc = "check" /\ pc' \in {"check", "wait"}
  BY DEF FetchReceipt, FetchRefused
<1> DEFINE request == Blank("receipt", req[p].sync, req[p].return_ptr, p)
<1>3. /\ request.parent = p /\ request.kind = "receipt" /\ request.sync = req[p].sync
      /\ ~request.need_receipt /\ ~request.processing_receipt /\ ~request.success
  BY DEF Blank
<1>4. p \in ToFetch /\ req[p].need_receipt /\ p # NoReq
  BY <1>1, FetchBasics DEF NextToFetch, ToFetch
<1>5. /\ Fetching(p) \in [Ids -> Request] /\ SameStruct(Fetching(p), req)
      /\ Unfetched(p) \in [Ids -> Request] /\ SameStruct(Unfetched(p), req)
  BY FetchBasics, AnswerUpdates, UnfetchedType
<1>6. /\ \A i \in Ids \ {p} : Fetching(p)[i] = req[i] /\ Unfetched(p)[i] = req[i]
      /\ Fetching(p)[p].processing_receipt /\ Unfetched(p)[p].processing_receipt
      /\ Fetching(p)[p].need_receipt /\ ~Unfetched(p)[p].need_receipt
  BY <1>4, FetchBasics DEF Fetching, Unfetched, Request
<1> HIDE DEF request
<1>7. CASE /\ Send(Fetching(p), request, w)
           /\ stack' = IF req[p].sync THEN Append(stack, created + 1) ELSE stack
  <2>1. Sends(Fetching(p), request, w, p)
    BY <1>2, <1>3, <1>4, <1>5, <1>6, <1>7 DEF Sends
  <2> QED
    BY <1>4, <2>1 DEF request
<1>8. CASE Send(Unfetched(p), request, "none") /\ stack' = stack
  <2>1. Sends(Unfetched(p), request, "none", p)
    BY <1>2, <1>3, <1>4, <1>5, <1>6, <1>8 DEF Sends
  <2> QED
    BY <1>4, <2>1 DEF request
<1> QED
  BY <1>1, <1>7, <1>8 DEF request

\* Every step keeps FetchInv that is no error of curl inside a nested loop.
LEMMA FetchNext ==
  ASSUME FetchInv, [Next]_vars, CurlFails => stack = <<NoReq>> /\ NoneSync
  PROVE  FetchInv'
<1>1. Inv'
  BY FetchBasics, NextInv
<1>2. CASE Network
  BY <1>2, FetchNetwork DEF Network, NetworkStep
<1>3. CASE \/ \E k \in AsyncKinds : AsyncCall(k) \/ RefusedCall(k, FALSE)
           \/ \E k \in SyncKinds : SyncCall(k, TRUE) \/ RefusedCall(k, TRUE)
           \/ NullReceipt /\ SyncCall("commit", FALSE)
  <2>1. \E structs, request, w, p : Sends(structs, request, w, p)
    BY <1>3, RootSends
  <2> QED
    BY <1>1, <2>1, FetchSends
<1>4. CASE FetchReceipt \/ FetchRefused
  <2>1. \E structs, request, w, p : Sends(structs, request, w, p)
    BY <1>4, ChildSends
  <2> QED
    BY <1>1, <2>1, FetchSends
<1>5. CASE Collect \/ WaitAgain \/ Poll \/ Ended \/ UNCHANGED vars
  <2>1. /\ UNCHANGED <<created, req, requests>> /\ (stack' = stack \/ Poll)
        /\ pc = "freed" => pc' = "freed"
        /\ \A i \in Ids : wire'[i] = "open" => wire[i] = "open"
    BY <1>5 DEF Collect, WaitAgain, Poll, Ended, vars
  <2> QED
    BY <1>1, <2>1, FetchUnchanged
<1>6. CASE Free \/ FetchNoMemory \/ Leave
  BY <1>6, FetchFree, FetchNoMemoryFetch, FetchLeave
<1>7. CASE CurlFails
  BY <1>7, FetchCurlFails
<1> QED
  BY <1>2, <1>3, <1>4, <1>5, <1>6, <1>7 DEF Next, Application, Loop

LEMMA FetchInit == Init => FetchInv
<1> SUFFICES ASSUME Init PROVE FetchInv
  OBVIOUS
<1>1. /\ \A r \in Ids : /\ req[r].parent = NoReq /\ ~req[r].need_receipt
                        /\ ~req[r].processing_receipt
      /\ \A r \in Ids : wire[r] # "open"
      /\ requests = {} /\ stack = << >>
  BY DEF Init, Blank
<1>2. Lineage /\ FetchHasParent /\ OneFetchAtATime
  BY <1>1 DEF Lineage, FetchHasParent, OneFetchAtATime
<1>3. SyncShape
  BY <1>1 DEF SyncShape, FetchIsMain, CommitIsBase, PendingIsBase, NestedForBase, NestingPaid
<1> QED
  BY <1>2, <1>3, InitInv DEF FetchInv

(***************************************************************************)
(* As long as the application makes asynchronous calls only, every request *)
(* is asynchronous, the only loop is that of aergo_process_requests, and   *)
(* no pointer is used after free.                                          *)
(***************************************************************************)
AsyncShape ==
  /\ stack \in {<< >>, <<NoReq>>}
  /\ \A r \in Used : ~req[r].sync
  /\ NoUseAfterFree

SequencedInv == FetchInv /\ (AsyncOnly => AsyncShape)

LEMMA AsyncSteps ==
  ASSUME FetchInv, AsyncOnly, AsyncShape, [Next]_vars
  PROVE  AsyncShape'
<1>1. /\ stack \in {<< >>, <<NoReq>>} /\ dangling = {} /\ Used \subseteq Ids
      /\ \A r \in Used : ~req[r].sync
  BY FetchBasics DEF AsyncShape, NoUseAfterFree
<1>2. stack # << >> => Len(stack) = 1 /\ Main = NoReq /\ ThroughMain = {}
  BY <1>1 DEF Main, ThroughMain
<1>3. pc \in {"wait", "check"} => stack # << >>
  BY DEF FetchInv, Inv, StackShape
<1>4. ASSUME NEW r \in Ids, NetworkStep(r)
      PROVE  AsyncShape'
  <2>1. UNCHANGED <<stack, Used>> /\ SameOrigin(req', req) /\ wire[r] = "open"
    BY <1>4, NetworkFacts
  <2>2. dangling' \in {dangling, dangling \cup ThroughParent(r)}
    BY <1>4 DEF NetworkStep, Reply, CommitResponse, PlainError, ReceiptResponse, ReceiptCrash,
       ReceiptError, ReceiptNotFound, QueryResponse, StateResponse, StreamMessage, StreamEnd, Lose
  <2>3. dangling' = {}
    BY <1>1, <2>1, <2>2, ParentPointed DEF FetchInv
  <2> QED
    BY <1>1, <2>1, <2>3 DEF AsyncShape, NoUseAfterFree, SameOrigin
<1>5. ASSUME NEW structs, NEW request, NEW w, NEW p, Sends(structs, request, w, p),
             ~request.sync, dangling' = dangling
      PROVE  AsyncShape'
  <2>1. PICK new : new = created + 1
    OBVIOUS
  <2>2. /\ Used' = Used \cup {new} /\ req'[new] = request /\ new \notin Used
        /\ \A i \in Ids \ {new} : req'[i].sync = req[i].sync
    BY <1>5, <2>1, SendsFacts
  <2>3. stack' = stack
    BY <1>5 DEF Sends
  <2>4. \A r \in Used' : ~req'[r].sync
    BY <1>1, <1>5, <2>2
  <2> QED
    BY <1>1, <1>5, <2>3, <2>4 DEF AsyncShape, NoUseAfterFree
<1>6. CASE \E k \in AsyncKinds : AsyncCall(k) \/ RefusedCall(k, FALSE)
  <2>1. PICK k, w : Sends(req, Blank(k, FALSE, FALSE, NoReq), w, NoReq)
    BY <1>6, RootSends
  <2>2. ~Blank(k, FALSE, FALSE, NoReq).sync
    BY DEF Blank
  <2>3. dangling' = dangling
    BY <1>6 DEF AsyncCall, RefusedCall
  <2> QED
    BY <1>5, <2>1, <2>2, <2>3
<1>7. CASE FetchReceipt \/ FetchRefused
  <2>1. PICK p, w, structs :
          /\ p \in ToFetch
          /\ Sends(structs, Blank("receipt", req[p].sync, req[p].return_ptr, p), w, p)
    BY <1>7, ChildSends
  <2>2. Blank("receipt", req[p].sync, req[p].return_ptr, p).sync = req[p].sync
    BY DEF Blank
  <2>3. ~req[p].sync
    BY <1>1, <2>1, FetchBasics DEF ToFetch
  <2>4. dangling' = dangling
    BY <1>7 DEF FetchReceipt, FetchRefused
  <2> QED
    BY <1>5, <2>1, <2>2, <2>3, <2>4
<1>8. ASSUME created' = created, SameStruct(req', req), dangling' = {},
             stack' \in {<< >>, <<NoReq>>}
      PROVE  AsyncShape'
  BY <1>1, <1>8 DEF AsyncShape, NoUseAfterFree, Used, SameStruct, SameOrigin
<1>9. CASE FetchNoMemory
  <2>1. PICK p \in Ids : req' = Unfetched(p)
    BY <1>9 DEF FetchNoMemory, Unfetched
  <2>2. SameStruct(req', req)
    BY <2>1, FetchBasics, UnfetchedType
  <2> QED
    BY <1>1, <1>8, <1>9, <2>2 DEF FetchNoMemory, link
<1>10. CASE Leave \/ CurlFails
  <2>1. \E live, ok : Return(live, ok, {})
    BY <1>2, <1>3, <1>10 DEF Leave, CurlFails
  <2>2. stack = <<NoReq>> /\ Len(stack) = 1 /\ Main = NoReq
    BY <1>1, <1>2, <1>3, <1>10 DEF Leave, CurlFails
  <2>3. req' = req /\ dangling' = {} /\ stack' = << >>
    BY <1>1, <2>1, <2>2 DEF Return
  <2> QED
    BY <1>8, <1>10, <2>3, FetchBasics DEF Leave, CurlFails, link
<1>11. CASE Collect \/ WaitAgain \/ Poll \/ Free \/ Ended \/ UNCHANGED vars
  <2>1. ~WaitAgain
    BY <1>2, <1>3 DEF WaitAgain
  <2>2. UNCHANGED <<created, req, dangling>> /\ stack' \in {stack, <<NoReq>>}
    BY <1>11, <2>1 DEF Collect, Poll, Free, Ended, vars
  <2> QED
    BY <1>1, <1>8, <2>2, FetchBasics
<1> QED
  BY <1>4, <1>6, <1>7, <1>9, <1>10, <1>11
     DEF Next, Network, NetworkStep, Application, Loop, AsyncOnly

LEMMA SequencedNext ==
  ASSUME Sequenced, SequencedInv, [Next]_vars
  PROVE  SequencedInv'
<1>1. CurlFails => stack = <<NoReq>> /\ NoneSync
  <2>1. SUFFICES ASSUME CurlFails PROVE stack = <<NoReq>> /\ NoneSync
    OBVIOUS
  <2>2. AsyncShape /\ FetchInv
    BY <2>1 DEF CurlFails, Sequenced, SequencedInv
  <2>3. stack # << >>
    BY <2>1, <2>2 DEF CurlFails, FetchInv, Inv, StackShape
  <2>4. \A c \in Ids : wire[c] = "open" => ~req[c].sync
    BY <2>2, FetchBasics DEF AsyncShape
  <2> QED
    BY <2>2, <2>3, <2>4, FetchBasics DEF AsyncShape, NoneSync
<1> QED
  BY <1>1, FetchNext, AsyncSteps DEF SequencedInv

LEMMA SequencedInvariance == Sequenced => (Spec => []SequencedInv)
<1>1. Sequenced => (SequencedInv /\ [Next]_vars => SequencedInv')
  BY SequencedNext
<1>2. Init => SequencedInv
  <2>1. Init => AsyncShape
    BY DEF Init, AsyncShape, Used, NoUseAfterFree
  <2> QED
    BY <2>1, FetchInit DEF SequencedInv
<1> SUFFICES ASSUME Sequenced PROVE Spec => []SequencedInv
  OBVIOUS
<1>3. SequencedInv /\ [Next]_vars => SequencedInv'
  BY <1>1
<1> QED
  BY <1>2, <1>3, PTL DEF Spec

(***************************************************************************)
(* As long as the application makes no synchronous call, no released       *)
(* struct is read or written through, not even after errors of curl: the   *)
(* use after free of the sync_main_released run needs a nested loop.       *)
(***************************************************************************)
THEOREM AsyncNoUseAfterFree == AsyncOnly => (Spec => []NoUseAfterFree)
<1> SUFFICES ASSUME AsyncOnly PROVE Spec => []NoUseAfterFree
  OBVIOUS
<1>1. SequencedInv => NoUseAfterFree
  BY DEF SequencedInv, AsyncShape
<1>2. Sequenced
  BY DEF Sequenced
<1> QED
  BY SequencedInvariance, <1>1, <1>2, PTL

(***************************************************************************)
(* Every GetReceipt whose answer is outstanding has its transaction in the *)
(* list, accepted, waiting for the receipt and marked as being processed;  *)
(* no loop releases it and no answer of another settles it, however many   *)
(* synchronous and asynchronous transactions are under way.                *)
(***************************************************************************)
THEOREM FetchesHaveParents == Sequenced => (Spec => []FetchHasParent)
<1>1. SequencedInv => FetchHasParent
  BY DEF SequencedInv, FetchInv
<1> QED
  BY SequencedInvariance, <1>1, PTL

(***************************************************************************)
(* And no transaction ever has two GetReceipt outstanding.                 *)
(***************************************************************************)
THEOREM OneFetch == Sequenced => (Spec => []OneFetchAtATime)
<1>1. SequencedInv => OneFetchAtATime
  BY DEF SequencedInv, FetchInv
<1> QED
  BY SequencedInvariance, <1>1, PTL

(***************************************************************************)
(* The C stack holds the outer loop and at most MaxReceiptAttempts nested  *)
(* ones: every nested loop is for the same transaction and was paid for    *)
(* with a fetch of its own, of which there are no more than that.          *)
(***************************************************************************)
THEOREM NestingBounded == Sequenced => (Spec => []BoundedNesting)
<1>1. SequencedInv /\ BudgetInv => BoundedNesting
  <2>1. SUFFICES ASSUME SequencedInv, BudgetInv, stack # << >>
                 PROVE  Len(stack) <= 1 + MaxReceiptAttempts
    BY EngineAssumption DEF BoundedNesting
  <2>2. FetchInv /\ stack[1] \in Ids \cup {NoReq} /\ MaxReceiptAttempts \in Nat
        /\ Len(stack) \in Nat
    <3>1. FetchInv
      BY <2>1 DEF SequencedInv
    <3>2. stack \in Seq(Ids \cup {NoReq}) /\ Len(stack) \in Nat
      BY <3>1, FetchBasics
    <3>3. stack[1] \in Ids \cup {NoReq}
      BY <2>1, <3>2
    <3> QED
      BY <3>1, <3>2, <3>3, EngineAssumption
  <2>3. PICK n \in Nat : n = Cardinality(Children(stack[1])) /\ Len(stack) <= 1 + n
    BY <2>1, <2>2, FetchBasics, ChildrenFinite DEF FetchInv, SyncShape, NestingPaid
  <2>4. CASE stack[1] = NoReq
    <3>1. ~(Len(stack) > 1)
      BY <2>2, <2>4, FetchBasics DEF FetchInv, Inv, StackShape, SyncShape, NestedForBase
    <3> QED
      BY <2>2, <3>1
  <2>5. CASE stack[1] \in Ids
    <3>1. n <= MaxReceiptAttempts
      BY <2>1, <2>3, <2>5 DEF BudgetInv, Budget
    <3> QED
      BY <2>2, <2>3, <3>1
  <2> QED
    BY <2>2, <2>4, <2>5
<1> QED
  BY SequencedInvariance, BudgetInvariance, <1>1, PTL
=============================================================================
