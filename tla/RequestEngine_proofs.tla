------------------------ MODULE RequestEngine_proofs ------------------------
(***************************************************************************)
(* Proofs about RequestEngine, for every set of calls, every number of     *)
(* requests, attempts and faults.                                          *)
(***************************************************************************)
EXTENDS RequestEngine, FiniteSetTheorems, SequenceTheorems, TLAPS

(***************************************************************************)
(* The strengthening of TypeOK, TransfersCounted and AwaitedIsLive.  The   *)
(* list and the handles, those that curl did not take included, are of     *)
(* allocated requests, so a new handle is one that was not counted before. *)
(* A loop is on the stack exactly while one runs, and every nested loop    *)
(* waits for the receipt of a parent.                                      *)
(***************************************************************************)
Wires == {"none", "open", "closing", "unadded"}

Held == {r \in Ids : wire[r] # "none"}

HeldCounted == transfers = Cardinality(Held)

Numbering ==
  /\ requests \subseteq Used
  /\ Held \subseteq Used

StackShape ==
  /\ pc \in {"idle", "freed"} => stack = << >>
  /\ pc \in {"wait", "check"} => stack # << >>
  /\ \A i \in 2 .. Len(stack) : stack[i] \in Ids /\ req[stack[i]].parent \in Ids

Inv == TypeOK /\ Numbering /\ StackShape /\ HeldCounted /\ AwaitedIsLive

\* The handles are finitely many.
LEMMA HeldFinite ==
  ASSUME TypeOK
  PROVE  IsFiniteSet(Held) /\ Cardinality(Held) \in Nat
<1>1. IsFiniteSet(Ids)
  BY EngineAssumption, FS_Interval DEF Ids
<1>2. Held \subseteq Ids
  BY DEF Held
<1> QED
  BY <1>1, <1>2, FS_Subset, FS_CardinalityType

\* Those that are with curl and those that it did not take are all of them.
LEMMA HeldSum ==
  ASSUME TypeOK
  PROVE  Cardinality(Registered) + Cardinality(Unadded) = Cardinality(Held)
<1>1. IsFiniteSet(Held) /\ Registered \subseteq Held /\ Unadded \subseteq Held
  BY HeldFinite DEF Registered, Unadded, Held
<1>2. IsFiniteSet(Registered) /\ IsFiniteSet(Unadded)
  BY <1>1, FS_Subset
<1>3. Registered \cap Unadded = {} /\ Registered \cup Unadded = Held
  BY DEF Registered, Unadded, Held, TypeOK
<1>4. /\ Cardinality(Held) = Cardinality(Registered) + Cardinality(Unadded)
                             - Cardinality(Registered \cap Unadded)
      /\ Cardinality(Registered) \in Nat /\ Cardinality(Unadded) \in Nat
  BY <1>2, <1>3, FS_Union, FS_CardinalityType
<1>5. Cardinality(Registered \cap Unadded) = 0
  BY <1>3, FS_EmptySet
<1> QED
  BY <1>4, <1>5

(***************************************************************************)
(* What Send does to the counted handles: the typing of its results, and   *)
(* that transfers counts the new handle exactly if there is one.           *)
(***************************************************************************)
LEMMA SendKeeps ==
  ASSUME TypeOK, Numbering, HeldCounted,
         NEW structs \in [Ids -> Request], NEW request \in Request,
         NEW w \in {"open", "unadded", "none"}, Send(structs, request, w)
  PROVE  /\ created' \in 0 .. MaxRequests
         /\ created + 1 \in Ids
         /\ requests' \subseteq Ids
         /\ req' \in [Ids -> Request]
         /\ wire' \in [Ids -> Wires]
         /\ transfers' \in Nat
         /\ Numbering'
         /\ HeldCounted'
<1> DEFINE new == created + 1
<1>1. new \in Ids /\ created \in Nat /\ created' = new /\ new \in 0 .. MaxRequests
  BY EngineAssumption DEF Send, TypeOK, Ids
<1>2. requests' \subseteq Ids /\ req' \in [Ids -> Request]
  BY <1>1 DEF Send, TypeOK
<1>3. wire' = [wire EXCEPT ![new] = w] /\ wire' \in [Ids -> Wires]
  BY <1>1 DEF Send, TypeOK, Wires
<1>4. new \notin Used /\ Used \subseteq Used' /\ new \in Used'
  BY <1>1 DEF Used
<1>5. Numbering'
  <2>1. requests' \subseteq Used'
    BY <1>4 DEF Send, Numbering
  <2>2. Held' \subseteq Held \cup {new}
    BY <1>1, <1>3 DEF Held, TypeOK
  <2> QED
    BY <1>4, <2>1, <2>2 DEF Numbering
<1>6. transfers' \in Nat /\ HeldCounted'
  <2>1. IsFiniteSet(Held) /\ Cardinality(Held) \in Nat
    BY HeldFinite
  <2>2. new \notin Held
    BY <1>4 DEF Numbering
  <2>3. CASE w # "none"
    <3>1. Held' = Held \cup {new}
      BY <1>1, <1>3, <2>3 DEF Held, TypeOK
    <3>2. Cardinality(Held') = Cardinality(Held) + 1
      BY <2>1, <2>2, <3>1, FS_AddElement
    <3> QED
      BY <2>1, <2>3, <3>2 DEF Send, Counted, HeldCounted
  <2>4. CASE w = "none"
    <3>1. Held' = Held
      BY <1>1, <1>3, <2>2, <2>4 DEF Held, TypeOK
    <3> QED
      BY <2>1, <2>4, <3>1 DEF Send, Counted, HeldCounted
  <2> QED
    BY <2>3, <2>4
<1> QED
  BY <1>1, <1>2, <1>3, <1>5, <1>6

(***************************************************************************)
(* The updates of the structs are well typed, none changes what a struct   *)
(* is created with, and only the answer to a request makes it processed.   *)
(***************************************************************************)
SameOrigin(s, t) ==
  \A i \in Ids : /\ s[i].parent = t[i].parent
                 /\ s[i].kind = t[i].kind
                 /\ s[i].sync = t[i].sync

SameProgress(s, t, i) ==
  s[i].processed = t[i].processed /\ s[i].success = t[i].success

Answers(r, s) ==
  /\ s \in [Ids -> Request] /\ SameOrigin(s, req)
  /\ \A i \in Ids \ {r} : SameProgress(s, req, i)

SameStruct(s, t) == SameOrigin(s, t) /\ \A i \in Ids : SameProgress(s, t, i)

LEMMA ParentUpdates ==
  ASSUME NEW structs \in [Ids -> Request], NEW p \in Ids \cup {NoReq},
         NEW last \in BOOLEAN
  PROVE  /\ WithReceipt(structs, p) \in [Ids -> Request]
         /\ WithoutReceipt(structs, p) \in [Ids -> Request]
         /\ NotFound(structs, p, last) \in [Ids -> Request]
         /\ SameStruct(WithReceipt(structs, p), structs)
         /\ SameStruct(WithoutReceipt(structs, p), structs)
         /\ SameStruct(NotFound(structs, p, last), structs)
<1>1. CASE p = NoReq
  BY <1>1 DEF WithReceipt, WithoutReceipt, NotFound, SameStruct, SameOrigin, SameProgress
<1>2. CASE p \in Ids
  <2>1. p # NoReq
    BY <1>2, EngineAssumption DEF Ids, NoReq
  <2>2. WithReceipt(structs, p) \in [Ids -> Request]
        /\ SameStruct(WithReceipt(structs, p), structs)
    BY ZenonT(60), <1>2, <2>1 DEF WithReceipt, SameStruct, SameOrigin, SameProgress, Request
  <2>3. WithoutReceipt(structs, p) \in [Ids -> Request]
        /\ SameStruct(WithoutReceipt(structs, p), structs)
    BY ZenonT(25), <1>2, <2>1 DEF WithoutReceipt, SameStruct, SameOrigin, SameProgress, Request
  <2> DEFINE old == structs[p]
             upd(o, n, a, b) == [o EXCEPT !.receipt_attempts = n, !.need_receipt = a,
                                          !.processing_receipt = b]
             same(o, q) == /\ o.parent = q.parent /\ o.kind = q.kind /\ o.sync = q.sync
                           /\ o.processed = q.processed /\ o.success = q.success
             new == upd(old, old.receipt_attempts + 1, old.need_receipt /\ ~last,
                        old.processing_receipt /\ last)
  <2>4. old \in Request /\ old.receipt_attempts \in Nat
        /\ old.need_receipt \in BOOLEAN /\ old.processing_receipt \in BOOLEAN
    BY <1>2 DEF Request
  <2>5. /\ old.receipt_attempts + 1 \in Nat
        /\ (old.need_receipt /\ ~last) \in BOOLEAN
        /\ (old.processing_receipt /\ last) \in BOOLEAN
    BY <2>4
  <2>6. new \in Request /\ same(new, old)
    <3>1. ASSUME NEW n \in Nat, NEW a \in BOOLEAN, NEW b \in BOOLEAN,
                 NEW o \in Request
          PROVE  upd(o, n, a, b) \in Request /\ same(upd(o, n, a, b), o)
      BY DEF Request
    <3>2. PICK n \in Nat, a \in BOOLEAN, b \in BOOLEAN :
            /\ n = old.receipt_attempts + 1
            /\ a = (old.need_receipt /\ ~last)
            /\ b = (old.processing_receipt /\ last)
      BY <2>5
    <3> HIDE DEF old, upd, same
    <3>3. new = upd(old, n, a, b)
      BY <3>2
    <3>4. upd(old, n, a, b) \in Request /\ same(upd(old, n, a, b), old)
      BY <2>4, <3>1
    <3> QED
      BY <3>3, <3>4
  <2>7. NotFound(structs, p, last) = [structs EXCEPT ![p] = new]
    BY <1>2, <2>1 DEF NotFound
  <2>8. NotFound(structs, p, last) \in [Ids -> Request]
        /\ SameStruct(NotFound(structs, p, last), structs)
    BY <1>2, <2>6, <2>7 DEF SameStruct, SameOrigin, SameProgress
  <2> QED
    BY <2>2, <2>3, <2>8
<1> QED
  BY <1>1, <1>2

LEMMA AnswerUpdates ==
  ASSUME req \in [Ids -> Request], NEW r \in Ids, NEW ok \in BOOLEAN
  PROVE  /\ Answers(r, Processed(r, ok))
         /\ Answers(r, Committed(r, ok))
         /\ Fetching(r) \in [Ids -> Request] /\ SameStruct(Fetching(r), req)
<1>1. /\ Processed(r, ok) \in [Ids -> Request]
      /\ SameOrigin(Processed(r, ok), req)
      /\ \A i \in Ids \ {r} : SameProgress(Processed(r, ok), req, i)
  BY ZenonT(60) DEF Processed, SameOrigin, SameProgress, Request
<1>2. /\ Committed(r, ok) \in [Ids -> Request]
      /\ SameOrigin(Committed(r, ok), req)
      /\ \A i \in Ids \ {r} : SameProgress(Committed(r, ok), req, i)
  <2> DEFINE new == [Processed(r, ok) EXCEPT ![r].need_receipt = ok]
  <2>1. new \in [Ids -> Request] /\ SameStruct(new, Processed(r, ok))
    BY <1>1 DEF SameStruct, SameOrigin, SameProgress, Request
  <2> HIDE DEF new
  <2>2. SameOrigin(new, req) /\ \A i \in Ids \ {r} : SameProgress(new, req, i)
    BY <1>1, <2>1 DEF SameStruct, SameOrigin, SameProgress
  <2> QED
    BY <2>1, <2>2 DEF Committed, new
<1>3. Fetching(r) \in [Ids -> Request] /\ SameStruct(Fetching(r), req)
  BY DEF Fetching, SameStruct, SameOrigin, SameProgress, Request
<1> QED
  BY <1>1, <1>2, <1>3 DEF Answers

LEMMA ReceiptUpdates ==
  ASSUME req \in [Ids -> Request], NEW r \in Ids, NEW ok \in BOOLEAN,
         NEW p \in Ids \cup {NoReq}, NEW last \in BOOLEAN
  PROVE  /\ Answers(r, WithReceipt(Processed(r, ok), p))
         /\ Answers(r, WithoutReceipt(Processed(r, ok), p))
         /\ Answers(r, NotFound(Processed(r, ok), p, last))
<1>1. Answers(r, Processed(r, ok))
  BY AnswerUpdates
<1>2. \A s \in [Ids -> Request] : SameStruct(s, Processed(r, ok)) => Answers(r, s)
  BY <1>1 DEF Answers, SameStruct, SameOrigin, SameProgress
<1>3. Processed(r, ok) \in [Ids -> Request]
  BY <1>1 DEF Answers
<1> QED
  BY <1>2, <1>3, ParentUpdates

(***************************************************************************)
(* What every step of the network does: it closes at most the transfer it  *)
(* is about, and leaves the list, the count and the loops as they are.     *)
(***************************************************************************)
NetworkStep(r) == Reply(r) \/ StreamMessage(r) \/ StreamEnd(r) \/ Lose(r)

Delivered(r) ==
  /\ pc = "wait" /\ wire[r] = "open"
  /\ \/ Close(r)
     \/ wire' = wire /\ (req[r].kind = "stream" \/ req' = req)
  /\ Answers(r, req')
  /\ UNCHANGED <<requests, created, transfers, stack, ret>>
  /\ pc' \in {pc, "crashed"}
  /\ told' \in [Ids -> Nat]
  /\ dangling' \subseteq Ids
  /\ faults' \in 0 .. MaxFaults

LEMMA PointeeType ==
  ASSUME TypeOK, NEW r \in Ids
  PROVE  /\ Pointee(r) \subseteq Ids \cup {NoReq}
         /\ ThroughParent(r) \subseteq Ids
         /\ Root(r) \in Ids
<1>1. req[r].parent \in Ids \cup {NoReq}
  BY DEF TypeOK, Request
<1> QED
  BY <1>1 DEF Pointee, ThroughParent, Root, TypeOK

LEMMA NetworkDelivers ==
  ASSUME TypeOK, NEW r \in Ids, NetworkStep(r)
  PROVE  Delivered(r)
<1> USE DEF Awaited, link
<1>t. /\ req \in [Ids -> Request] /\ told \in [Ids -> Nat] /\ dangling \subseteq Ids
      /\ faults \in 0 .. MaxFaults /\ Answers(r, req)
  BY DEF TypeOK, Answers, SameOrigin, SameProgress
<1>f. Fault => faults' \in 0 .. MaxFaults
  BY <1>t, EngineAssumption DEF Fault
<1>d. \A ok \in BOOLEAN : Decodes(ok) => faults' \in 0 .. MaxFaults
  BY <1>t, <1>f DEF Decodes
<1>n. \A i \in Ids : Tell(i) => told' \in [Ids -> Nat]
  BY <1>t DEF Tell
<1>1. CASE CommitResponse(r)
  <2>1. PICK result \in {"ok", "rejected", "garbage"} :
          /\ req' = Committed(r, result = "ok")
          /\ Decodes(result # "garbage")
          /\ IF result = "rejected" /\ req[r].return_ptr THEN Tell(r)
                                                         ELSE UNCHANGED told
    BY <1>1 DEF CommitResponse
  <2>2. Answers(r, req')
    BY <1>t, <2>1, AnswerUpdates
  <2>3. told' \in [Ids -> Nat] /\ faults' \in 0 .. MaxFaults
    BY <1>t, <1>d, <1>n, <2>1
  <2> QED
    BY <1>1, <1>t, <2>2, <2>3 DEF CommitResponse, Delivered
<1>2. CASE PlainError(r)
  <2>1. Answers(r, req')
    BY ZenonT(25), <1>2, <1>t DEF PlainError, Request, Answers, SameOrigin, SameProgress
  <2> QED
    BY <1>2, <1>t, <2>1 DEF PlainError, Delivered
<1>3. CASE ReceiptResponse(r)
  <2>1. PICK ok \in BOOLEAN, p \in Pointee(r) :
          /\ req' = WithReceipt(Processed(r, ok), p)
          /\ Decodes(ok)
          /\ IF ok THEN Tell(Root(r)) ELSE UNCHANGED told
    BY <1>3 DEF ReceiptResponse
  <2>2. Answers(r, req')
    BY <1>t, <2>1, PointeeType, ReceiptUpdates
  <2>3. told' \in [Ids -> Nat] /\ faults' \in 0 .. MaxFaults
    BY <1>t, <1>d, <1>n, <2>1, PointeeType
  <2>4. dangling' \subseteq Ids
    BY <1>3, <1>t, PointeeType DEF ReceiptResponse
  <2> QED
    BY <1>3, <2>2, <2>3, <2>4 DEF ReceiptResponse, Delivered
<1>4. CASE ReceiptCrash(r)
  BY <1>4, <1>t DEF ReceiptCrash, Delivered
<1>5. CASE ReceiptError(r)
  <2>1. PICK p \in Pointee(r) : req' = WithoutReceipt(Processed(r, FALSE), p)
    BY <1>5 DEF ReceiptError
  <2>2. Answers(r, req')
    BY <1>t, <2>1, PointeeType, ReceiptUpdates
  <2>3. told' \in [Ids -> Nat] /\ dangling' \subseteq Ids
    BY <1>5, <1>t, <1>n, PointeeType DEF ReceiptError
  <2> QED
    BY <1>5, <1>t, <2>2, <2>3 DEF ReceiptError, Delivered
<1>6. CASE ReceiptNotFound(r)
  <2>1. PICK p \in Pointee(r), last \in BOOLEAN :
          /\ req' = NotFound(Processed(r, FALSE), p, last)
          /\ IF last /\ ~req[r].sync THEN Tell(Root(r)) ELSE UNCHANGED told
    BY <1>6 DEF ReceiptNotFound
  <2>2. Answers(r, req')
    BY <1>t, <2>1, PointeeType, ReceiptUpdates
  <2>3. told' \in [Ids -> Nat] /\ dangling' \subseteq Ids
    BY <1>6, <1>t, <1>n, <2>1, PointeeType DEF ReceiptNotFound
  <2> QED
    BY <1>6, <1>t, <2>2, <2>3 DEF ReceiptNotFound, Delivered
<1>7. CASE QueryResponse(r)
  <2>1. PICK result \in {"ok", "error", "garbage"} :
          /\ req' = Processed(r, result = "ok")
          /\ Decodes(result # "garbage")
          /\ IF result = "garbage" THEN UNCHANGED told ELSE Tell(r)
    BY <1>7 DEF QueryResponse
  <2>2. Answers(r, req')
    BY <1>t, <2>1, AnswerUpdates
  <2>3. told' \in [Ids -> Nat] /\ faults' \in 0 .. MaxFaults
    BY <1>t, <1>d, <1>n, <2>1
  <2> QED
    BY <1>7, <1>t, <2>2, <2>3 DEF QueryResponse, Delivered
<1>8. CASE StateResponse(r)
  <2>1. PICK ok \in BOOLEAN : /\ req' = Processed(r, ok)
                              /\ Decodes(ok)
                              /\ IF ok THEN Tell(r) ELSE UNCHANGED told
    BY <1>8 DEF StateResponse
  <2>2. Answers(r, req')
    BY <1>t, <2>1, AnswerUpdates
  <2>3. told' \in [Ids -> Nat] /\ faults' \in 0 .. MaxFaults
    BY <1>t, <1>d, <1>n, <2>1
  <2> QED
    BY <1>8, <1>t, <2>2, <2>3 DEF StateResponse, Delivered
<1>9. CASE StreamMessage(r)
  <2>1. PICK ok \in BOOLEAN : req' = Processed(r, ok) /\ Decodes(ok)
    BY <1>9 DEF StreamMessage
  <2>2. Answers(r, req') /\ faults' \in 0 .. MaxFaults
    BY <1>t, <1>d, <2>1, AnswerUpdates
  <2> QED
    BY <1>9, <1>t, <2>2 DEF StreamMessage, Delivered
<1>10. CASE StreamEnd(r)
  BY <1>10, <1>t DEF StreamEnd, Delivered
<1>11. CASE Lose(r)
  BY <1>11, <1>t, <1>f DEF Lose, Delivered
<1> QED
  BY <1>1, <1>2, <1>3, <1>4, <1>5, <1>6, <1>7, <1>8, <1>9, <1>10, <1>11
     DEF NetworkStep, Reply

LEMMA BlankType ==
  ASSUME NEW k \in Kinds, NEW s \in BOOLEAN, NEW ptr \in BOOLEAN,
         NEW p \in Ids \cup {NoReq}
  PROVE  Blank(k, s, ptr, p) \in Request
  BY DEF Blank, Request

\* new_http_request returned true: curl may not have taken the handle.
LEMMA QueueSends ==
  ASSUME TypeOK, NEW structs, NEW request, Queue(structs, request)
  PROVE  /\ \E w \in {"open", "unadded"} : Send(structs, request, w)
         /\ faults' \in 0 .. MaxFaults
  BY EngineAssumption DEF Queue, Fault, TypeOK

(***************************************************************************)
(* The structs that were there before are, after Send, as structs says;    *)
(* the new one is not processed, and in the list.                          *)
(***************************************************************************)
LEMMA SendAwaits ==
  ASSUME Inv, NEW structs \in [Ids -> Request], SameStruct(structs, req),
         NEW request \in Request, ~request.processed, NEW w \in {"open", "unadded", "none"},
         Send(structs, request, w)
  PROVE  /\ AwaitedIsLive'
         /\ \A i \in Ids \ {created + 1} : req'[i].parent = req[i].parent
         /\ req'[created + 1] = request
<1> DEFINE new == created + 1
<1>1. new \in Ids
  BY SendKeeps DEF Inv
<1>2. req'[new] = request /\ new \in requests' /\ requests \subseteq requests'
  BY <1>1 DEF Send
<1>3. ASSUME NEW i \in Ids, i # new
      PROVE  /\ wire'[i] = wire[i]
             /\ SameProgress(req', req, i)
             /\ req'[i].kind = req[i].kind /\ req'[i].parent = req[i].parent
  BY <1>1, <1>3 DEF Send, SameStruct, SameOrigin, SameProgress, Inv, TypeOK
<1>4. AwaitedIsLive'
  BY <1>2, <1>3 DEF AwaitedIsLive, SameProgress, Inv
<1> QED
  BY <1>2, <1>3, <1>4

LEMMA InitInv == Init => Inv
<1> SUFFICES ASSUME Init PROVE Inv
  OBVIOUS
<1>1. NoReq \in Ids \cup {NoReq} /\ Blank("state", TRUE, FALSE, NoReq) \in Request
  BY BlankType DEF Kinds
<1>2. TypeOK
  <2>1. req \in [Ids -> Request]
    BY <1>1 DEF Init
  <2>2. stack \in Seq(Ids \cup {NoReq})
    BY DEF Init
  <2>3. created \in 0 .. MaxRequests /\ faults \in 0 .. MaxFaults
    BY EngineAssumption DEF Init
  <2> QED
    BY <2>1, <2>2, <2>3 DEF Init, TypeOK
<1>3. Held = {}
  BY DEF Init, Held
<1> QED
  BY <1>2, <1>3, FS_EmptySet
     DEF Init, Inv, Numbering, StackShape, HeldCounted, AwaitedIsLive

LEMMA NetworkInv ==
  ASSUME Inv, NEW r \in Ids, NetworkStep(r)
  PROVE  Inv'
<1>1. Delivered(r)
  BY NetworkDelivers DEF Inv
<1>2. wire \in [Ids -> Wires] /\ wire[r] = "open"
  BY <1>1 DEF Delivered, Inv, TypeOK, Wires
<1>3. wire' \in [Ids -> Wires] /\ Held' = Held
  BY <1>1, <1>2 DEF Delivered, Close, Held, Wires
<1>4. req' \in [Ids -> Request] /\ SameOrigin(req', req)
  BY <1>1 DEF Delivered, Answers
<1>5. TypeOK'
  BY <1>1, <1>3, <1>4 DEF Delivered, Inv, TypeOK, Wires
<1>6. Numbering' /\ HeldCounted'
  BY <1>1, <1>3 DEF Delivered, Inv, Numbering, Used, HeldCounted
<1>7. StackShape'
  BY <1>1, <1>4 DEF Delivered, Inv, StackShape, SameOrigin
<1>8. AwaitedIsLive'
  <2>1. SUFFICES ASSUME NEW i \in Ids, wire'[i] = "open"
                 PROVE  /\ i \in requests'
                        /\ req'[i].kind # "stream" => ~req'[i].processed
    BY DEF AwaitedIsLive
  <2>2. wire[i] = "open" /\ req'[i].kind = req[i].kind /\ requests' = requests
    BY <1>1, <1>2, <1>4, <2>1 DEF Delivered, Close, SameOrigin
  <2>3. i \in requests /\ (req[i].kind # "stream" => ~req[i].processed)
    BY <2>2 DEF Inv, AwaitedIsLive
  <2>4. CASE i = r
    BY <1>1, <1>2, <2>1, <2>2, <2>3, <2>4 DEF Delivered, Close
  <2>5. CASE i # r
    BY <1>1, <2>2, <2>3, <2>5 DEF Delivered, Answers, SameProgress
  <2> QED
    BY <2>4, <2>5
<1> QED
  BY <1>5, <1>6, <1>7, <1>8 DEF Inv

(***************************************************************************)
(* The calls of the application.                                           *)
(***************************************************************************)
LEMMA AsyncCallInv ==
  ASSUME Inv, NEW k \in Kinds, AsyncCall(k)
  PROVE  Inv'
<1> DEFINE request == Blank(k, FALSE, FALSE, NoReq)
<1>1. request \in Request /\ ~request.processed
  BY BlankType DEF Blank
<1>2. req \in [Ids -> Request] /\ SameStruct(req, req)
  BY DEF Inv, TypeOK, SameStruct, SameOrigin, SameProgress
<1>3. stack = << >> /\ pc = "idle"
  BY DEF AsyncCall, MayCall, Inv, StackShape
<1>4. PICK w \in {"open", "unadded"} : Send(req, request, w) /\ faults' \in 0 .. MaxFaults
  BY QueueSends DEF AsyncCall, Inv
<1> HIDE DEF request
<1>5. AwaitedIsLive'
  BY <1>1, <1>2, <1>4, SendAwaits
<1>6. TypeOK' /\ Numbering' /\ HeldCounted'
  BY <1>1, <1>2, <1>4, SendKeeps DEF Inv, TypeOK, AsyncCall, Wires
<1>7. StackShape'
  BY <1>3 DEF AsyncCall, StackShape
<1> QED
  BY <1>5, <1>6, <1>7 DEF Inv

LEMMA SyncCallInv ==
  ASSUME Inv, NEW k \in Kinds, NEW ptr \in BOOLEAN, SyncCall(k, ptr)
  PROVE  Inv'
<1> DEFINE request == Blank(k, TRUE, ptr, NoReq)
<1>1. request \in Request /\ ~request.processed
  BY BlankType DEF Blank
<1>2. req \in [Ids -> Request] /\ SameStruct(req, req)
  BY DEF Inv, TypeOK, SameStruct, SameOrigin, SameProgress
<1>3. PICK w \in {"open", "unadded"} : Send(req, request, w) /\ faults' \in 0 .. MaxFaults
  BY QueueSends DEF SyncCall, Inv
<1> HIDE DEF request
<1>4. AwaitedIsLive'
  BY <1>1, <1>2, <1>3, SendAwaits
<1>5. /\ created' \in 0 .. MaxRequests /\ created + 1 \in Ids
      /\ requests' \subseteq Ids /\ req' \in [Ids -> Request]
      /\ wire' \in [Ids -> Wires] /\ transfers' \in Nat
      /\ Numbering' /\ HeldCounted'
  BY <1>1, <1>2, <1>3, SendKeeps DEF Inv
<1>6. stack' \in Seq(Ids \cup {NoReq}) /\ stack' = <<created + 1>> /\ Len(stack') = 1
  BY <1>5 DEF SyncCall
<1>7. TypeOK'
  BY <1>3, <1>5, <1>6 DEF Inv, TypeOK, SyncCall, Wires
<1>8. StackShape'
  BY <1>6 DEF SyncCall, StackShape
<1> QED
  BY <1>4, <1>5, <1>7, <1>8 DEF Inv

LEMMA RefusedCallInv ==
  ASSUME Inv, NEW k \in Kinds, NEW s \in BOOLEAN, RefusedCall(k, s)
  PROVE  Inv'
<1> DEFINE request == Blank(k, s, s, NoReq)
<1>1. request \in Request /\ ~request.processed
  BY BlankType DEF Blank
<1>2. req \in [Ids -> Request] /\ SameStruct(req, req)
  BY DEF Inv, TypeOK, SameStruct, SameOrigin, SameProgress
<1>3. Send(req, request, "none") /\ stack = << >> /\ pc = "idle"
  BY DEF RefusedCall, MayCall, Inv, StackShape
<1> HIDE DEF request
<1>4. AwaitedIsLive'
  BY <1>1, <1>2, <1>3, SendAwaits
<1>5. faults' \in 0 .. MaxFaults
  BY EngineAssumption DEF RefusedCall, Fault, Inv, TypeOK
<1>6. TypeOK' /\ Numbering' /\ HeldCounted'
  BY <1>1, <1>2, <1>3, <1>5, SendKeeps DEF Inv, TypeOK, RefusedCall, Wires
<1>7. StackShape'
  BY <1>3 DEF RefusedCall, StackShape
<1> QED
  BY <1>4, <1>6, <1>7 DEF Inv

LEMMA PollInv == ASSUME Inv, Poll PROVE Inv'
<1>1. stack' = <<NoReq>> /\ Len(stack') = 1 /\ stack' \in Seq(Ids \cup {NoReq})
  BY DEF Poll
<1>2. TypeOK'
  BY <1>1 DEF Inv, TypeOK, Poll
<1>3. StackShape'
  BY <1>1 DEF Poll, StackShape
<1> QED
  BY <1>2, <1>3 DEF Poll, Inv, Numbering, Used, Held, HeldCounted, AwaitedIsLive

LEMMA FreeInv == ASSUME Inv, Free PROVE Inv'
<1>1. Held' = {}
  BY DEF Free, Held
<1>2. stack = << >>
  BY DEF Free, Inv, StackShape
<1>3. TypeOK'
  BY DEF Inv, TypeOK, Free
<1> QED
  BY <1>1, <1>2, <1>3, FS_EmptySet
     DEF Free, Inv, Numbering, StackShape, HeldCounted, AwaitedIsLive

LEMMA StutterInv == ASSUME Inv, UNCHANGED vars PROVE Inv'
<1>1. TypeOK' /\ Numbering' /\ HeldCounted'
  BY DEF Inv, vars, TypeOK, Numbering, Used, Held, HeldCounted
<1>2. StackShape' /\ AwaitedIsLive'
  BY DEF Inv, vars, StackShape, AwaitedIsLive
<1> QED
  BY <1>1, <1>2 DEF Inv

LEMMA ApplicationInv == ASSUME Inv, Application PROVE Inv'
<1>1. AsyncKinds \subseteq Kinds /\ SyncKinds \subseteq Kinds /\ "commit" \in Kinds
  BY EngineAssumption DEF Kinds
<1> QED
  BY <1>1, AsyncCallInv, SyncCallInv, RefusedCallInv, PollInv, FreeInv, StutterInv
     DEF Application, Ended

(***************************************************************************)
(* The steps of the loop.                                                  *)
(***************************************************************************)
LEMMA CollectInv == ASSUME Inv, Collect PROVE Inv'
<1>1. PICK done \in SUBSET Closing :
        /\ wire' = [r \in Ids |-> IF r \in done THEN "none" ELSE wire[r]]
        /\ transfers' = transfers - Cardinality(done)
  BY DEF Collect
<1>2. done \subseteq Held /\ Held' = Held \ done
  BY <1>1 DEF Closing, Held
<1>3. IsFiniteSet(Held) /\ Cardinality(Held) \in Nat
  BY HeldFinite DEF Inv
<1>4. IsFiniteSet(done) /\ Cardinality(done) \in Nat
  BY <1>2, <1>3, FS_Subset, FS_CardinalityType
<1>5. Cardinality(Held') = Cardinality(Held) - Cardinality(Held \cap done)
      /\ Held \cap done = done
  BY <1>2, <1>3, FS_Difference
<1>6. Cardinality(Held') \in Nat
  BY <1>2, <1>3, FS_Subset, FS_CardinalityType
<1>7. HeldCounted' /\ transfers' \in Nat
  BY <1>1, <1>3, <1>4, <1>5, <1>6 DEF Inv, HeldCounted
<1>8. TypeOK'
  BY <1>1, <1>7 DEF Collect, Inv, TypeOK
<1>9. Numbering'
  BY <1>2 DEF Collect, Inv, Numbering, Used
<1>10. StackShape'
  BY DEF Collect, Inv, StackShape
<1>11. AwaitedIsLive'
  BY <1>1 DEF Collect, Inv, AwaitedIsLive
<1> QED
  BY <1>7, <1>8, <1>9, <1>10, <1>11 DEF Inv

\* The child request that is sent for p, with a handle or without.
LEMMA ChildSent ==
  ASSUME Inv, NEW p \in Ids, NEW w \in {"open", "unadded", "none"},
         NEW structs \in [Ids -> Request], SameStruct(structs, req),
         Send(structs, Blank("receipt", req[p].sync, req[p].return_ptr, p), w)
  PROVE  /\ created' \in 0 .. MaxRequests /\ created + 1 \in Ids
         /\ requests' \subseteq Ids /\ req' \in [Ids -> Request]
         /\ wire' \in [Ids -> Wires] /\ transfers' \in Nat
         /\ Numbering' /\ HeldCounted' /\ AwaitedIsLive'
         /\ req'[created + 1].parent = p
         /\ \A i \in Ids \ {created + 1} : req'[i].parent = req[i].parent
<1> DEFINE request == Blank("receipt", req[p].sync, req[p].return_ptr, p)
<1>1. req[p].sync \in BOOLEAN /\ req[p].return_ptr \in BOOLEAN
  BY DEF Inv, TypeOK, Request
<1>2. request \in Request
  BY <1>1, BlankType DEF Kinds
<1>3. ~request.processed /\ request.parent = p
  BY DEF Blank
<1> HIDE DEF request
<1> QED
  BY <1>2, <1>3, SendKeeps, SendAwaits DEF Inv, request

LEMMA FetchReceiptInv == ASSUME Inv, FetchReceipt PROVE Inv'
<1>1. PICK p \in Ids, w \in {"open", "unadded"} :
        /\ Send(Fetching(p), Blank("receipt", req[p].sync, req[p].return_ptr, p), w)
        /\ faults' \in 0 .. MaxFaults
        /\ IF req[p].sync THEN stack' = Append(stack, created + 1) /\ pc' = "wait"
                          ELSE UNCHANGED <<stack, pc>>
  BY QueueSends DEF FetchReceipt, Inv
<1>2. Fetching(p) \in [Ids -> Request] /\ SameStruct(Fetching(p), req)
  BY AnswerUpdates DEF Inv, TypeOK
<1>3. /\ created' \in 0 .. MaxRequests /\ created + 1 \in Ids
      /\ requests' \subseteq Ids /\ req' \in [Ids -> Request]
      /\ wire' \in [Ids -> Wires] /\ transfers' \in Nat
      /\ Numbering' /\ HeldCounted' /\ AwaitedIsLive'
  BY <1>1, <1>2, ChildSent
<1>4. /\ req'[created + 1].parent = p
      /\ \A i \in Ids \ {created + 1} : req'[i].parent = req[i].parent
  BY <1>1, <1>2, ChildSent
<1>5. pc = "check" /\ stack # << >> /\ stack \in Seq(Ids \cup {NoReq})
  BY DEF FetchReceipt, Inv, TypeOK, StackShape
<1>6. /\ stack' \in Seq(Ids \cup {NoReq}) /\ stack' # << >>
      /\ \A i \in 2 .. Len(stack') : stack'[i] \in Ids /\ req'[stack'[i]].parent \in Ids
  <2>1. \A i \in 2 .. Len(stack) : stack[i] \in Ids /\ req'[stack[i]].parent \in Ids
    BY <1>4 DEF Inv, StackShape
  <2>2. CASE req[p].sync
    <3>1. stack' = Append(stack, created + 1)
      BY <1>1, <2>2
    <3>2. /\ stack' \in Seq(Ids \cup {NoReq}) /\ Len(stack') = Len(stack) + 1
          /\ Len(stack) \in Nat
          /\ \A i \in 1 .. Len(stack) : stack'[i] = stack[i]
          /\ stack'[Len(stack) + 1] = created + 1
      BY <1>3, <1>5, <3>1
    <3> QED
      BY <1>3, <1>4, <2>1, <3>2
  <2>3. CASE ~req[p].sync
    BY <1>1, <1>5, <2>1, <2>3
  <2> QED
    BY <2>2, <2>3
<1>7. pc' \in {"wait", "check"}
  BY <1>1, <1>5
<1>8. TypeOK'
  BY <1>1, <1>3, <1>6, <1>7 DEF FetchReceipt, Inv, TypeOK, Wires
<1>9. StackShape'
  BY <1>6, <1>7 DEF StackShape
<1> QED
  BY <1>3, <1>8, <1>9 DEF Inv

\* What a failed fetch makes of its transaction.
Unfetched(p) == [Fetching(p) EXCEPT ![p].need_receipt = FALSE]

LEMMA UnfetchedType ==
  ASSUME TypeOK, NEW p \in Ids
  PROVE  Unfetched(p) \in [Ids -> Request] /\ SameStruct(Unfetched(p), req)
<1>1. Fetching(p) \in [Ids -> Request] /\ SameStruct(Fetching(p), req)
  BY AnswerUpdates DEF TypeOK
<1>2. /\ Unfetched(p) \in [Ids -> Request]
      /\ SameStruct(Unfetched(p), Fetching(p))
  BY ZenonT(25), <1>1 DEF Unfetched, SameStruct, SameOrigin, SameProgress, Request
<1> QED
  BY <1>1, <1>2 DEF SameStruct, SameOrigin, SameProgress

LEMMA FetchRefusedInv == ASSUME Inv, FetchRefused PROVE Inv'
<1>1. PICK p \in Ids :
        Send(Unfetched(p), Blank("receipt", req[p].sync, req[p].return_ptr, p), "none")
  BY DEF FetchRefused, Unfetched
<1>2. Unfetched(p) \in [Ids -> Request] /\ SameStruct(Unfetched(p), req)
  BY UnfetchedType DEF Inv
<1>3. /\ created' \in 0 .. MaxRequests
      /\ requests' \subseteq Ids /\ req' \in [Ids -> Request]
      /\ wire' \in [Ids -> Wires] /\ transfers' \in Nat
      /\ Numbering' /\ HeldCounted' /\ AwaitedIsLive'
  BY <1>1, <1>2, ChildSent
<1>4. /\ req'[created + 1].parent = p
      /\ \A i \in Ids \ {created + 1} : req'[i].parent = req[i].parent
  BY <1>1, <1>2, ChildSent
<1>5. faults' \in 0 .. MaxFaults
  BY EngineAssumption DEF FetchRefused, Fault, Inv, TypeOK
<1>6. TypeOK'
  BY <1>3, <1>5 DEF FetchRefused, Inv, TypeOK, Wires
<1>7. StackShape'
  BY <1>4 DEF FetchRefused, Inv, StackShape
<1> QED
  BY <1>3, <1>6, <1>7 DEF Inv

LEMMA FetchNoMemoryInv == ASSUME Inv, FetchNoMemory PROVE Inv'
<1>1. PICK p \in Ids : req' = Unfetched(p)
  BY DEF FetchNoMemory, Unfetched
<1>2. req' \in [Ids -> Request] /\ SameStruct(req', req)
  BY <1>1, UnfetchedType DEF Inv
<1>3. faults' \in 0 .. MaxFaults
  BY EngineAssumption DEF FetchNoMemory, Fault, Inv, TypeOK
<1>4. TypeOK'
  BY <1>2, <1>3 DEF FetchNoMemory, Inv, TypeOK, link
<1>5. Numbering' /\ HeldCounted'
  BY DEF FetchNoMemory, link, Inv, Numbering, Used, Held, HeldCounted
<1>6. StackShape' /\ AwaitedIsLive'
  BY <1>2 DEF FetchNoMemory, Inv, StackShape, AwaitedIsLive, SameStruct, SameOrigin,
              SameProgress
<1> QED
  BY <1>4, <1>5, <1>6 DEF Inv

\* What the innermost loop waits for, and whose receipt that is.
LEMMA MainType ==
  ASSUME Inv, stack # << >>
  PROVE  /\ Len(stack) \in Nat \ {0}
         /\ Main \in Ids \cup {NoReq} /\ ThroughMain \subseteq Ids
         /\ Len(stack) # 1 => Main \in Ids /\ req[Main].parent \in Ids
<1>1. stack \in Seq(Ids \cup {NoReq}) /\ Len(stack) \in Nat \ {0}
  BY DEF Inv, TypeOK
<1>2. Main \in Ids \cup {NoReq}
  BY <1>1 DEF Main
<1>3. ThroughMain \subseteq Ids
  BY <1>2 DEF ThroughMain
<1>4. Len(stack) # 1 => Main \in Ids /\ req[Main].parent \in Ids
  <2>1. PICK n \in Nat \ {0} : n = Len(stack)
    BY <1>1
  <2>2. n # 1 => n \in 2 .. n
    OBVIOUS
  <2> QED
    BY <2>1, <2>2 DEF Main, Inv, StackShape
<1> QED
  BY <1>1, <1>2, <1>3, <1>4

LEMMA WaitAgainInv == ASSUME Inv, WaitAgain PROVE Inv'
<1>1. dangling' \subseteq Ids
  BY MainType DEF WaitAgain, Inv, TypeOK, StackShape
<1>2. TypeOK'
  BY <1>1 DEF WaitAgain, Inv, TypeOK
<1>3. Numbering' /\ HeldCounted'
  BY DEF WaitAgain, Inv, Numbering, Used, Held, HeldCounted
<1>4. StackShape' /\ AwaitedIsLive'
  BY DEF WaitAgain, Inv, StackShape, AwaitedIsLive
<1> QED
  BY <1>2, <1>3, <1>4 DEF Inv

\* What the stack is after the innermost loop has ended.
LEMMA ReturnStack ==
  ASSUME Inv, stack # << >>, NEW live, NEW ok, NEW through, Return(live, ok, through)
  PROVE  /\ stack' \in Seq(Ids \cup {NoReq}) /\ Len(stack') = Len(stack) - 1
         /\ \A i \in 1 .. Len(stack') : stack'[i] = stack[i]
<1> DEFINE n == Len(stack) - 1
           outer == SubSeq(stack, 1, n)
           Entry == Ids \cup {NoReq}
<1>1. stack \in Seq(Entry) /\ stack' = outer
  BY DEF Return, Inv, TypeOK
<1>2. n \in Int /\ n \in Nat /\ 1 \in Int
  BY MainType
<1>3. \A i \in 1 .. n : stack[i] \in Entry
  BY MainType, <1>1
<1> HIDE DEF n, Entry
<1>4. /\ outer \in Seq(Entry)
      /\ Len(outer) = IF 1 <= n THEN n - 1 + 1 ELSE 0
      /\ \A i \in 1 .. n - 1 + 1 : outer[i] = stack[1 + i - 1]
  <2> DEFINE s == stack
  <2>1. \A i \in 1 .. n : s[i] \in Entry
    BY <1>3
  <2> HIDE DEF s
  <2>2. /\ SubSeq(s, 1, n) \in Seq(Entry)
        /\ Len(SubSeq(s, 1, n)) = IF 1 <= n THEN n - 1 + 1 ELSE 0
        /\ \A i \in 1 .. n - 1 + 1 : SubSeq(s, 1, n)[i] = s[1 + i - 1]
    BY <1>2, <2>1, SubSeqProperties
  <2> QED
    BY <2>2 DEF s
<1>5. Len(outer) = n /\ \A i \in 1 .. n : outer[i] = stack[i]
  <2> HIDE DEF outer
  <2> QED
    BY <1>2, <1>4
<1> QED
  BY <1>1, <1>4, <1>5 DEF n, Entry

(***************************************************************************)
(* The end of a loop that leaves the list live: it may release no request  *)
(* whose answer is outstanding.                                            *)
(***************************************************************************)
LEMMA ReturnInv ==
  ASSUME Inv, stack # << >>, NEW live \in SUBSET requests, NEW ok \in BOOLEAN,
         NEW through \in SUBSET Ids, Return(live, ok, through),
         \A r \in Ids : wire[r] = "open" => r \in live,
         UNCHANGED <<link, wire, told>>, faults' \in 0 .. MaxFaults
  PROVE  Inv'
<1> DEFINE tx == req[Main].parent
<1>1. /\ Len(stack) \in Nat \ {0} /\ Main \in Ids \cup {NoReq}
      /\ Len(stack) # 1 => tx \in Ids
  BY MainType
<1>2. /\ stack' \in Seq(Ids \cup {NoReq}) /\ Len(stack') = Len(stack) - 1
      /\ \A i \in 1 .. Len(stack') : stack'[i] = stack[i]
  BY ReturnStack
<1>3. req' \in [Ids -> Request] /\ SameStruct(req', req)
  <2>1. req \in [Ids -> Request] /\ SameStruct(req, req)
    BY DEF Inv, TypeOK, SameStruct, SameOrigin, SameProgress
  <2>2. CASE req' = req
    BY <2>1, <2>2
  <2>3. CASE Len(stack) # 1 /\ req' = [req EXCEPT ![tx].need_receipt = FALSE]
    <3>1. ASSUME NEW i \in Ids
          PROVE  /\ [req EXCEPT ![i].need_receipt = FALSE] \in [Ids -> Request]
                 /\ SameStruct([req EXCEPT ![i].need_receipt = FALSE], req)
      BY ZenonT(25), <2>1 DEF SameStruct, SameOrigin, SameProgress, Request
    <3> QED
      BY <1>1, <2>3, <3>1
  <2> QED
    BY <2>2, <2>3 DEF Return
<1>4. ret' \in [Ids -> {"none", "true", "false", "dropped"}]
  BY <1>1 DEF Return, Inv, TypeOK
<1>5. dangling' \subseteq Ids
  BY <1>1 DEF Return, Inv, TypeOK
<1>6. pc' \in {"idle", "check"} /\ (pc' = "idle" <=> Len(stack) = 1)
  BY DEF Return
<1>7. TypeOK'
  BY <1>2, <1>3, <1>4, <1>5, <1>6 DEF Return, Inv, TypeOK, link
<1>8. Numbering' /\ HeldCounted'
  BY DEF Return, link, Inv, Numbering, Used, Held, HeldCounted
<1>9. StackShape'
  <2>1. stack' = << >> <=> Len(stack) = 1
    BY <1>1, <1>2
  <2>2. \A i \in 2 .. Len(stack') : i \in 2 .. Len(stack) /\ stack'[i] = stack[i]
    BY <1>1, <1>2
  <2>3. \A i \in 2 .. Len(stack') : stack'[i] \in Ids /\ req'[stack'[i]].parent \in Ids
    BY <1>3, <2>2 DEF Inv, StackShape, SameStruct, SameOrigin
  <2> QED
    BY <1>6, <2>1, <2>3 DEF StackShape
<1>10. AwaitedIsLive'
  <2>1. requests' = live
    BY DEF Return
  <2> QED
    BY <1>3, <2>1 DEF Inv, AwaitedIsLive, SameStruct, SameOrigin, SameProgress
<1> QED
  BY <1>7, <1>8, <1>9, <1>10 DEF Inv

LEMMA LeaveInv == ASSUME Inv, Leave PROVE Inv'
<1>1. PICK m \in MainStatus :
        Return(requests \ Settled, m.settled /\ m.success, ThroughMain)
  BY DEF Leave
<1>2. stack # << >> /\ ThroughMain \subseteq Ids
  BY MainType DEF Leave, Inv, StackShape
<1>3. (m.settled /\ m.success) \in BOOLEAN
  OBVIOUS
<1>4. \A r \in Ids : wire[r] = "open" => r \in requests \ Settled
  BY DEF Inv, AwaitedIsLive, Settled
<1>5. UNCHANGED <<link, wire, told>> /\ faults' \in 0 .. MaxFaults
  BY DEF Leave, Inv, TypeOK
<1>6. PICK ok \in BOOLEAN : Return(requests \ Settled, ok, ThroughMain)
  BY <1>1, <1>3
<1> QED
  BY <1>2, <1>4, <1>5, <1>6, ReturnInv

LEMMA CurlFailsInv == ASSUME Inv, CurlFails PROVE Inv'
<1>1. stack # << >> /\ Return(requests, FALSE, {})
  BY DEF CurlFails, Inv, StackShape
<1>2. \A r \in Ids : wire[r] = "open" => r \in requests
  BY DEF Inv, AwaitedIsLive
<1>3. UNCHANGED <<link, wire, told>> /\ faults' \in 0 .. MaxFaults
  BY EngineAssumption DEF CurlFails, Fault, Inv, TypeOK
<1> QED
  BY <1>1, <1>2, <1>3, ReturnInv

(***************************************************************************)
(* Every step keeps the invariant.                                         *)
(***************************************************************************)
LEMMA NextInv == ASSUME Inv, [Next]_vars PROVE Inv'
<1>1. CASE Application
  BY <1>1, ApplicationInv
<1>2. CASE Network
  BY <1>2, NetworkInv DEF Network, NetworkStep
<1>3. CASE Loop
  BY <1>3, CollectInv, FetchReceiptInv, FetchRefusedInv, FetchNoMemoryInv, WaitAgainInv,
     LeaveInv DEF Loop
<1>4. CASE CurlFails
  BY <1>4, CurlFailsInv
<1>5. CASE UNCHANGED vars
  BY <1>5, StutterInv
<1> QED
  BY <1>1, <1>2, <1>3, <1>4, <1>5 DEF Next

LEMMA Invariance == Spec => []Inv
<1>1. Inv /\ [Next]_vars => Inv'
  BY NextInv
<1> QED
  BY InitInv, <1>1, PTL DEF Spec

(***************************************************************************)
(* Every variable of the engine always has its type.                       *)
(***************************************************************************)
THEOREM TypeCorrect == Spec => []TypeOK
<1>1. Inv => TypeOK
  BY DEF Inv
<1> QED
  BY Invariance, <1>1, PTL

(***************************************************************************)
(* transfers, counted up in new_http_request whether or not curl takes the *)
(* handle and down where the loop reads DONE, always exceeds the number of *)
(* handles curl has by that of those it did not take, whatever is lost,    *)
(* refused or abandoned: only such a refusal can keep it above 0 for ever. *)
(***************************************************************************)
THEOREM TransfersAccounted == Spec => []TransfersCounted
<1>1. Inv => TransfersCounted
  BY HeldSum DEF Inv, HeldCounted, TransfersCounted
<1> QED
  BY Invariance, <1>1, PTL

(***************************************************************************)
(* The pointer curl has to a request whose answer is outstanding always is *)
(* one to a struct in the list that was not processed: no loop, however    *)
(* deep, and no error path ever releases it.                               *)
(***************************************************************************)
THEOREM NoAnswerToReleased == Spec => []AwaitedIsLive
<1>1. Inv => AwaitedIsLive
  BY DEF Inv
<1> QED
  BY Invariance, <1>1, PTL

----------------------------------------------------------------------------
(***************************************************************************)
(* What an answer to r leaves of the structs, when p is what its pointer   *)
(* to a parent points to: all but r and p as they were; a transaction      *)
(* begins to wait for a receipt only when it is answered itself, and what  *)
(* goes on waiting is told of no receipt or of one more attempt that was   *)
(* not the last.                                                           *)
(***************************************************************************)
Spends(old, new) ==
  \/ /\ new.processing_receipt = old.processing_receipt
     /\ new.receipt_attempts = old.receipt_attempts
  \/ /\ ~new.processing_receipt
     /\ new.receipt_attempts = old.receipt_attempts + 1
     /\ new.receipt_attempts < MaxReceiptAttempts

Grants(old, new) == old.kind = "commit" /\ new.processed /\ new.success

Touches(r, p, s) ==
  /\ \A i \in Ids \ {r, p} : s[i] = req[i]
  /\ \A i \in Ids :
       /\ req[i].processed => s[i].processed
       /\ s[i].processing_receipt => req[i].processing_receipt
       /\ s[i].need_receipt => req[i].need_receipt \/ (i = r /\ Grants(req[i], s[i]))
       /\ s[i].need_receipt /\ req[i].need_receipt => Spends(req[i], s[i])

LEMMA UsedIds == ASSUME TypeOK PROVE Used \subseteq Ids /\ NoReq \notin Ids
<1>1. created \in 0 .. MaxRequests
  BY DEF TypeOK
<1> QED
  BY <1>1, EngineAssumption DEF Used, Ids, NoReq

LEMMA AnswerTouches ==
  ASSUME TypeOK, NEW r \in Ids, NEW ok \in BOOLEAN
  PROVE  /\ Touches(r, NoReq, Processed(r, ok))
         /\ req[r].kind = "commit" /\ ~req[r].processed /\ ~req[r].need_receipt
              => Touches(r, NoReq, Committed(r, ok))
<1> DEFINE s == Processed(r, ok)
<1>1. req \in [Ids -> Request] /\ s \in [Ids -> Request]
  BY AnswerUpdates DEF TypeOK, Answers
<1>2. \A i \in Ids \ {r} : s[i] = req[i]
  BY <1>1 DEF Processed
<1>3. /\ s[r].processed = TRUE /\ s[r].success = ok
      /\ s[r].need_receipt = req[r].need_receipt
      /\ s[r].processing_receipt = req[r].processing_receipt
      /\ s[r].receipt_attempts = req[r].receipt_attempts
  BY <1>1 DEF Processed, Request
<1> HIDE DEF s
<1>4. Touches(r, NoReq, s)
  BY <1>2, <1>3 DEF Touches, Spends
<1>5. CASE req[r].kind = "commit" /\ ~req[r].processed /\ ~req[r].need_receipt
  <2> DEFINE t == Committed(r, ok)
  <2>1. \A i \in Ids \ {r} : t[i] = req[i]
    BY <1>1, <1>2 DEF Committed, s
  <2>2. /\ t[r].processed = TRUE /\ t[r].success = ok /\ t[r].need_receipt = ok
        /\ t[r].processing_receipt = req[r].processing_receipt
    BY <1>1, <1>3 DEF Committed, s, Request
  <2> HIDE DEF t
  <2>3. Touches(r, NoReq, t)
    BY <1>5, <2>1, <2>2 DEF Touches, Spends, Grants
  <2> QED
    BY <1>4, <2>3 DEF s, t
<1> QED
  BY <1>4, <1>5 DEF s

LEMMA ParentTouches ==
  ASSUME TypeOK, NEW r \in Ids, NEW ok \in BOOLEAN, NEW p \in Ids \cup {NoReq},
         NEW last \in BOOLEAN, p # NoReq => last = GivesUp(p)
  PROVE  /\ Touches(r, p, WithReceipt(Processed(r, ok), p))
         /\ Touches(r, p, WithoutReceipt(Processed(r, ok), p))
         /\ Touches(r, p, NotFound(Processed(r, ok), p, last))
<1> DEFINE s == Processed(r, ok)
<1>1. req \in [Ids -> Request] /\ s \in [Ids -> Request]
  BY AnswerUpdates DEF TypeOK, Answers
<1>2. Touches(r, NoReq, s)
  BY AnswerTouches
<1>3. CASE p = NoReq
  BY <1>2, <1>3 DEF WithReceipt, WithoutReceipt, NotFound
<1>4. CASE p \in Ids
  <2>1. p # NoReq
    BY <1>4, UsedIds
  <2>2. /\ s[p].need_receipt = req[p].need_receipt
        /\ s[p].processing_receipt = req[p].processing_receipt
        /\ s[p].receipt_attempts = req[p].receipt_attempts
        /\ req[p].processed => s[p].processed
    BY <1>1, <1>4 DEF Processed, Request
  <2>3. ASSUME NEW t, \A i \in Ids \ {p} : t[i] = s[i],
               req[p].processed => t[p].processed,
               t[p].processing_receipt => req[p].processing_receipt,
               t[p].need_receipt => req[p].need_receipt /\ Spends(req[p], t[p])
        PROVE  Touches(r, p, t)
    BY <1>2, <2>3, UsedIds DEF Touches
  <2> HIDE DEF s
  <2>4. Touches(r, p, WithReceipt(s, p))
    <3> DEFINE t == WithReceipt(s, p)
    <3>1. \A i \in Ids \ {p} : t[i] = s[i]
      BY <1>1, <2>1 DEF WithReceipt
    <3>2. /\ t[p].processed = s[p].processed
          /\ ~t[p].need_receipt /\ ~t[p].processing_receipt
      BY <1>1, <1>4, <2>1 DEF WithReceipt, Request
    <3> HIDE DEF t
    <3>3. Touches(r, p, t)
      BY <2>2, <2>3, <3>1, <3>2
    <3> QED
      BY <3>3 DEF t
  <2>5. Touches(r, p, WithoutReceipt(s, p))
    <3> DEFINE t == WithoutReceipt(s, p)
    <3>1. \A i \in Ids \ {p} : t[i] = s[i]
      BY <1>1, <2>1 DEF WithoutReceipt
    <3>2. /\ t[p].processed = s[p].processed
          /\ ~t[p].need_receipt /\ t[p].processing_receipt = s[p].processing_receipt
      BY <1>1, <1>4, <2>1 DEF WithoutReceipt, Request
    <3> HIDE DEF t
    <3>3. Touches(r, p, t)
      BY <2>2, <2>3, <3>1, <3>2
    <3> QED
      BY <3>3 DEF t
  <2>6. Touches(r, p, NotFound(s, p, last))
    <3> DEFINE t == NotFound(s, p, last)
    <3>1. \A i \in Ids \ {p} : t[i] = s[i]
      BY <1>1, <2>1 DEF NotFound
    <3>2. /\ t[p].processed = s[p].processed
          /\ t[p].need_receipt = (s[p].need_receipt /\ ~last)
          /\ t[p].processing_receipt = (s[p].processing_receipt /\ last)
          /\ t[p].receipt_attempts = s[p].receipt_attempts + 1
      BY <1>1, <1>4, <2>1 DEF NotFound, Request
    <3>3. ~last => req[p].receipt_attempts + 1 < MaxReceiptAttempts
      <4>1. PICK n \in Nat : n = req[p].receipt_attempts
        BY <1>1, <1>4 DEF Request
      <4>2. ~last => ~(n + 1 >= MaxReceiptAttempts)
        <5>1. last = GivesUp(p)
          BY <2>1
        <5>2. GivesUp(p) = (n + 1 >= MaxReceiptAttempts)
          BY <4>1 DEF GivesUp
        <5> QED
          BY <5>1, <5>2, Zenon
      <4>3. MaxReceiptAttempts \in Nat
        BY EngineAssumption
      <4>4. ~(n + 1 >= MaxReceiptAttempts) => n + 1 < MaxReceiptAttempts
        BY <4>3
      <4> QED
        BY <4>1, <4>2, <4>4
    <3> HIDE DEF t
    <3>4. t[p].need_receipt => s[p].need_receipt /\ ~last
      BY <3>2
    <3>5. t[p].processing_receipt => s[p].processing_receipt /\ last
      BY <3>2
    <3>6. t[p].need_receipt => Spends(req[p], t[p])
      BY <2>2, <3>2, <3>3, <3>4, <3>5 DEF Spends
    <3>7. Touches(r, p, t)
      BY <2>2, <2>3, <3>1, <3>2, <3>4, <3>5, <3>6
    <3> QED
      BY <3>7 DEF t
  <2> QED
    BY <2>4, <2>5, <2>6 DEF s
<1> QED
  BY <1>3, <1>4

LEMMA NetworkTouches ==
  ASSUME Inv, NEW r \in Ids, NetworkStep(r),
         req[r].need_receipt => req[r].processed
  PROVE  \E p \in Pointee(r) \cup {NoReq} : Touches(r, p, req')
<1>1. Delivered(r) /\ TypeOK /\ Pointee(r) \subseteq Ids \cup {NoReq}
  BY NetworkDelivers, PointeeType DEF Inv
<1>2. /\ \A ok \in BOOLEAN : Touches(r, NoReq, Processed(r, ok))
      /\ \A ok \in BOOLEAN, p \in Pointee(r) :
           /\ Touches(r, p, WithReceipt(Processed(r, ok), p))
           /\ Touches(r, p, WithoutReceipt(Processed(r, ok), p))
  <2>1. \A p \in Ids \cup {NoReq} : \E last \in BOOLEAN : p # NoReq => last = GivesUp(p)
    <3>1. \A p \in Ids \cup {NoReq} : GivesUp(p) = TRUE \/ GivesUp(p) = FALSE
      BY DEF GivesUp
    <3> QED
      BY <3>1
  <2> QED
    BY <1>1, <2>1, AnswerTouches, ParentTouches
<1>3. Touches(r, NoReq, req)
  BY DEF Touches, Spends
<1>4. CASE CommitResponse(r)
  <2>1. req[r].kind = "commit" /\ ~req[r].processed /\ ~req[r].need_receipt
    BY <1>4 DEF CommitResponse, Awaited, Inv, AwaitedIsLive
  <2>2. PICK result \in {"ok", "rejected", "garbage"} : req' = Committed(r, result = "ok")
    BY <1>4 DEF CommitResponse
  <2>3. PICK ok \in BOOLEAN : req' = Committed(r, ok)
    BY <2>2
  <2> QED
    BY <1>1, <2>1, <2>3, AnswerTouches
<1>5. CASE PlainError(r)
  <2>1. /\ req' = [req EXCEPT ![r].processed = TRUE]
        /\ req \in [Ids -> Request]
    BY <1>1, <1>5 DEF PlainError, TypeOK
  <2>2. Touches(r, NoReq, req')
    BY <2>1 DEF Touches, Spends, Request
  <2> QED
    BY <2>2
<1>6. CASE ReceiptResponse(r) \/ ReceiptError(r)
  <2>1. \E ok \in BOOLEAN, p \in Pointee(r) :
          \/ req' = WithReceipt(Processed(r, ok), p)
          \/ req' = WithoutReceipt(Processed(r, ok), p)
    BY <1>6 DEF ReceiptResponse, ReceiptError
  <2> QED
    BY <1>2, <2>1
<1>7. CASE ReceiptNotFound(r)
  <2>1. PICK p \in Pointee(r), last \in BOOLEAN :
          /\ p # NoReq => last = GivesUp(p)
          /\ req' = NotFound(Processed(r, FALSE), p, last)
    BY <1>7 DEF ReceiptNotFound
  <2> QED
    BY <1>1, <2>1, ParentTouches
<1>8. CASE QueryResponse(r) \/ StateResponse(r) \/ StreamMessage(r)
  <2>1. \E ok \in BOOLEAN : req' = Processed(r, ok)
    BY <1>8 DEF QueryResponse, StateResponse, StreamMessage
  <2> QED
    BY <1>2, <2>1
<1>9. CASE ReceiptCrash(r) \/ StreamEnd(r) \/ Lose(r)
  <2>1. req' = req
    BY <1>9 DEF ReceiptCrash, StreamEnd, Lose
  <2> QED
    BY <1>3, <2>1
<1> QED
  BY <1>4, <1>5, <1>6, <1>7, <1>8, <1>9 DEF NetworkStep, Reply

----------------------------------------------------------------------------
(* How often a receipt is fetched.                                         *)

(***************************************************************************)
(* The strengthening of BoundedFetches.  Children are of transactions that *)
(* were processed, and only these wait for a receipt.  A transaction that  *)
(* waits for one has used up no more fetches, with the one it may send     *)
(* next, than attempts were counted and one more, and none too many.       *)
(***************************************************************************)
Ancestry ==
  /\ \A r \in Ids : req[r].need_receipt => req[r].processed
  /\ \A c \in Used : req[c].parent # NoReq =>
       req[c].parent \in Used /\ req[req[c].parent].processed

Fetches(p) == Cardinality(Children(p)) + (IF req[p].processing_receipt THEN 0 ELSE 1)

Budget ==
  \A p \in Ids :
    /\ Cardinality(Children(p)) <= MaxReceiptAttempts
    /\ req[p].need_receipt => /\ Fetches(p) <= req[p].receipt_attempts + 1
                              /\ Fetches(p) <= MaxReceiptAttempts

BudgetInv == Inv /\ Ancestry /\ Budget

LEMMA ChildrenFinite ==
  ASSUME TypeOK, NEW p
  PROVE  /\ Children(p) \subseteq Used /\ IsFiniteSet(Children(p))
         /\ Cardinality(Children(p)) \in Nat
<1>1. created \in Int /\ Children(p) \subseteq Used
  BY DEF TypeOK, Children
<1>2. IsFiniteSet(Used)
  BY <1>1, FS_Interval DEF Used
<1> QED
  BY <1>1, <1>2, FS_Subset, FS_CardinalityType

\* A step that allocates no struct.
LEMMA BudgetKept ==
  ASSUME BudgetInv, Inv', created' = created, SameOrigin(req', req),
         \A i \in Ids : req[i].processed => req'[i].processed,
         \A i \in Ids : req'[i].need_receipt =>
           \/ req[i].need_receipt /\ Spends(req[i], req'[i])
           \/ ~req[i].processed /\ req'[i].processed
  PROVE  BudgetInv'
<1>1. Used' = Used /\ Used \subseteq Ids /\ TypeOK /\ TypeOK'
  BY UsedIds DEF BudgetInv, Inv, Used
<1>2. Ancestry'
  BY <1>1 DEF BudgetInv, Ancestry, SameOrigin
<1>3. \A p : Children(p)' = Children(p)
  BY <1>1 DEF Children, SameOrigin
<1>4. ASSUME NEW p \in Ids
      PROVE  /\ Cardinality(Children(p)') <= MaxReceiptAttempts
             /\ req'[p].need_receipt => /\ Fetches(p)' <= req'[p].receipt_attempts + 1
                                        /\ Fetches(p)' <= MaxReceiptAttempts
  <2>1. PICK n \in Nat : n = Cardinality(Children(p)) /\ n <= MaxReceiptAttempts
    BY <1>1, ChildrenFinite DEF BudgetInv, Budget
  <2>2. PICK a \in Nat, b \in Nat : a = req[p].receipt_attempts /\ b = req'[p].receipt_attempts
    BY <1>1 DEF TypeOK, Request
  <2>3. /\ Fetches(p) = n + (IF req[p].processing_receipt THEN 0 ELSE 1)
        /\ Fetches(p)' = n + (IF req'[p].processing_receipt THEN 0 ELSE 1)
    BY <1>3, <2>1 DEF Fetches
  <2>4. MaxReceiptAttempts \in Nat \ {0}
    BY EngineAssumption
  <2>5. CASE req[p].need_receipt /\ Spends(req[p], req'[p])
    <3>1. Fetches(p) <= a + 1 /\ Fetches(p) <= MaxReceiptAttempts
      BY <2>2, <2>5 DEF BudgetInv, Budget
    <3>2. CASE req'[p].processing_receipt = req[p].processing_receipt /\ b = a
      BY <1>3, <2>1, <2>2, <2>3, <3>1, <3>2
    <3>3. CASE ~req'[p].processing_receipt /\ b = a + 1 /\ b < MaxReceiptAttempts
      BY <1>3, <2>1, <2>2, <2>3, <2>4, <3>1, <3>3
    <3> QED
      BY <2>2, <2>5, <3>2, <3>3 DEF Spends
  <2>6. CASE ~req[p].processed
    <3>1. Children(p) = {}
      BY <1>1, <2>6, UsedIds DEF Children, BudgetInv, Ancestry
    <3>2. n = 0
      BY <2>1, <3>1, FS_EmptySet
    <3>3. Fetches(p)' \in {0, 1}
      BY <2>3, <3>2
    <3>4. Fetches(p)' <= b + 1 /\ Fetches(p)' <= MaxReceiptAttempts
      BY <2>2, <2>4, <3>3
    <3> QED
      BY <1>3, <2>1, <2>2, <3>4
  <2> QED
    BY <1>3, <2>1, <2>5, <2>6
<1>5. Budget'
  BY <1>4 DEF Budget
<1> QED
  BY <1>2, <1>5 DEF BudgetInv

(***************************************************************************)
(* A request is sent that is not processed, and the others stay as structs *)
(* says.  It is nobody's child, or that of a transaction which had a fetch *)
(* left and is marked as being processed or waits no longer.               *)
(***************************************************************************)
LEMMA BudgetSend ==
  ASSUME BudgetInv, Inv', NEW structs \in [Ids -> Request], SameStruct(structs, req),
         NEW request, NEW w, Send(structs, request, w), ~request.need_receipt,
         NEW p \in Ids \cup {NoReq}, request.parent = p,
         \A i \in Ids \ {p} : structs[i] = req[i],
         p # NoReq => /\ p \in Used /\ req[p].need_receipt
                      /\ ~req[p].processing_receipt
                      /\ structs[p].receipt_attempts = req[p].receipt_attempts
                      /\ structs[p].need_receipt => structs[p].processing_receipt
  PROVE  BudgetInv'
<1> DEFINE new == created + 1
<1>1. /\ TypeOK /\ TypeOK' /\ Numbering /\ Used \subseteq Ids /\ NoReq \notin Ids
      /\ created \in Nat
  BY UsedIds DEF BudgetInv, Inv, TypeOK
<1>2. /\ new \in Ids /\ new \notin Used /\ Used' = Used \cup {new}
  <2>1. created \in 0 .. MaxRequests /\ created < MaxRequests /\ created' = created + 1
    BY <1>1 DEF TypeOK, Send
  <2> QED
    BY <2>1, EngineAssumption DEF Used, Ids
<1>3. req'[new] = request /\ \A i \in Ids \ {new} : req'[i] = structs[i]
  BY <1>2 DEF Send
<1> HIDE DEF new
<1>4. \A i \in Ids \ {new} :
        /\ req'[i].parent = req[i].parent /\ req'[i].processed = req[i].processed
        /\ i # p => req'[i] = req[i]
  BY <1>3 DEF SameStruct, SameOrigin, SameProgress
<1>5. p # NoReq => p \in Ids /\ p # new /\ req[p].processed
  BY <1>1, <1>2 DEF BudgetInv, Ancestry
<1>6. Ancestry'
  <2>1. ASSUME NEW i \in Ids, req'[i].need_receipt
        PROVE  req'[i].processed
    <3>1. i # new
      BY <1>3, <2>1
    <3>2. req[i].need_receipt
      BY <1>1, <1>4, <2>1, <3>1
    <3> QED
      BY <1>4, <3>1, <3>2 DEF BudgetInv, Ancestry
  <2>2. ASSUME NEW c \in Used', req'[c].parent # NoReq
        PROVE  req'[c].parent \in Used' /\ req'[req'[c].parent].processed
    <3>1. CASE c = new
      BY <1>2, <1>3, <1>4, <1>5, <2>2, <3>1
    <3>2. CASE c # new
      <4>1. c \in Used /\ c \in Ids /\ req'[c].parent = req[c].parent
        BY <1>1, <1>2, <1>4, <3>2
      <4>2. req[c].parent \in Used /\ req[req[c].parent].processed
        BY <2>2, <4>1 DEF BudgetInv, Ancestry
      <4> QED
        BY <1>1, <1>2, <1>4, <4>1, <4>2
    <3> QED
      BY <3>1, <3>2
  <2> QED
    BY <2>1, <2>2 DEF Ancestry
<1>7. ASSUME NEW q \in Ids, q # p
      PROVE  Children(q)' = Children(q)
  BY <1>1, <1>2, <1>3, <1>4, <1>7 DEF Children
<1>8. ASSUME p # NoReq
      PROVE  Children(p)' = Children(p) \cup {new}
  BY <1>1, <1>2, <1>3, <1>4 DEF Children
<1>9. Children(new) = {}
  BY <1>1, <1>2 DEF Children, BudgetInv, Ancestry
<1>10. MaxReceiptAttempts \in Nat \ {0}
  BY EngineAssumption
<1>11. ASSUME NEW q \in Ids
       PROVE  /\ Cardinality(Children(q)') <= MaxReceiptAttempts
              /\ req'[q].need_receipt => /\ Fetches(q)' <= req'[q].receipt_attempts + 1
                                         /\ Fetches(q)' <= MaxReceiptAttempts
  <2>1. PICK n \in Nat : n = Cardinality(Children(q)) /\ n <= MaxReceiptAttempts
    BY <1>1, ChildrenFinite DEF BudgetInv, Budget
  <2>2. CASE q = new
    <3>1. q # p
      BY <1>1, <1>2, <1>5, <2>2
    <3>2. Cardinality(Children(q)') = 0
      BY <1>7, <1>9, <2>2, <3>1, FS_EmptySet
    <3>3. ~req'[q].need_receipt
      BY <1>3, <2>2
    <3> QED
      BY <1>10, <3>2, <3>3
  <2>3. CASE q # new /\ q # p
    <3>1. Children(q)' = Children(q) /\ req'[q] = req[q]
      BY <1>4, <1>7, <2>3
    <3>2. Fetches(q)' = Fetches(q)
      BY <3>1 DEF Fetches
    <3> QED
      BY <3>1, <3>2 DEF BudgetInv, Budget
  <2>4. CASE q = p
    <3>1. p # NoReq /\ p # new
      BY <1>1, <1>5, <2>4
    <3>2. /\ req[p].need_receipt /\ ~req[p].processing_receipt
          /\ req'[p].receipt_attempts = req[p].receipt_attempts
          /\ req'[p].need_receipt => req'[p].processing_receipt
      BY <1>3, <1>5, <3>1
    <3>3. PICK a \in Nat : a = req[p].receipt_attempts
      BY <1>1, <2>4 DEF TypeOK, Request
    <3>4. n + 1 <= a + 1 /\ n + 1 <= MaxReceiptAttempts
      <4>1. Fetches(p) = n + 1
        BY <2>1, <2>4, <3>2 DEF Fetches
      <4> QED
        BY <2>4, <3>2, <3>3, <4>1 DEF BudgetInv, Budget
    <3>5. Cardinality(Children(p)') = n + 1
      <4>1. new \notin Children(p) /\ IsFiniteSet(Children(p))
        BY <1>1, <1>2, ChildrenFinite DEF Children
      <4> QED
        BY <1>8, <2>1, <2>4, <3>1, <4>1, FS_AddElement
    <3>6. req'[p].need_receipt => Fetches(p)' = n + 1
      BY <2>1, <3>2, <3>5 DEF Fetches
    <3> QED
      BY <2>4, <3>2, <3>3, <3>4, <3>5, <3>6
  <2> QED
    BY <2>2, <2>3, <2>4
<1> QED
  BY <1>6, <1>11 DEF BudgetInv, Budget

LEMMA BudgetInit == Init => BudgetInv
<1> SUFFICES ASSUME Init PROVE BudgetInv
  OBVIOUS
<1>1. Used = {} /\ \A r \in Ids : ~req[r].need_receipt
  BY DEF Init, Used, Blank
<1>2. \A p : Children(p) = {}
  BY <1>1 DEF Children
<1>3. Ancestry
  BY <1>1 DEF Ancestry
<1>4. Budget
  BY <1>1, <1>2, EngineAssumption, FS_EmptySet DEF Budget
<1> QED
  BY <1>3, <1>4, InitInv DEF BudgetInv

LEMMA BudgetNetwork ==
  ASSUME BudgetInv, NEW r \in Ids, NetworkStep(r)
  PROVE  BudgetInv'
<1>1. Inv' /\ Delivered(r) /\ TypeOK
  BY NetworkInv, NetworkDelivers DEF BudgetInv, Inv
<1>2. PICK p : Touches(r, p, req')
  BY NetworkTouches DEF BudgetInv, Ancestry
<1>3. created' = created /\ SameOrigin(req', req)
  BY <1>1 DEF Delivered, Answers
<1>4. req[r].kind = "commit" => ~req[r].processed
  BY <1>1 DEF BudgetInv, Inv, AwaitedIsLive, Delivered
<1>5. \A i \in Ids : req'[i].need_receipt =>
        \/ req[i].need_receipt /\ Spends(req[i], req'[i])
        \/ ~req[i].processed /\ req'[i].processed
  BY <1>2, <1>4 DEF Touches, Grants
<1>6. \A i \in Ids : req[i].processed => req'[i].processed
  BY <1>2 DEF Touches
<1> QED
  BY <1>1, <1>3, <1>5, <1>6, BudgetKept

\* A step that leaves the structs alone, or clears a need_receipt.
LEMMA BudgetQuiet ==
  ASSUME BudgetInv, Inv', created' = created, NEW p,
         req' \in {req, [req EXCEPT ![p].need_receipt = FALSE], Unfetched(p)}
  PROVE  BudgetInv'
<1>1. req \in [Ids -> Request]
  BY DEF BudgetInv, Inv, TypeOK
<1>2. \A i \in Ids : /\ req'[i].need_receipt => req[i].need_receipt /\ req'[i] = req[i]
                     /\ req'[i].processed = req[i].processed
                     /\ req'[i].parent = req[i].parent /\ req'[i].kind = req[i].kind
                     /\ req'[i].sync = req[i].sync
  <2>1. CASE req' = req
    BY <2>1
  <2>2. CASE p \in Ids /\ req' = [req EXCEPT ![p].need_receipt = FALSE]
    BY <1>1, <2>2 DEF Request
  <2>3. CASE p \in Ids /\ req' = Unfetched(p)
    BY <1>1, <2>3 DEF Unfetched, Fetching, Request
  <2>4. CASE p \notin Ids
    BY <1>1, <2>4 DEF Unfetched, Fetching
  <2> QED
    BY <2>1, <2>2, <2>3, <2>4
<1>3. SameOrigin(req', req)
  BY <1>2 DEF SameOrigin
<1>4. \A i \in Ids : req'[i].need_receipt => req[i].need_receipt /\ Spends(req[i], req'[i])
  BY <1>2 DEF Spends
<1> QED
  BY <1>2, <1>3, <1>4, BudgetKept

LEMMA BudgetFetch ==
  ASSUME BudgetInv, FetchReceipt \/ FetchRefused
  PROVE  BudgetInv'
<1>1. Inv /\ Inv' /\ req \in [Ids -> Request]
  BY FetchReceiptInv, FetchRefusedInv DEF BudgetInv, Inv, TypeOK
<1>2. PICK p, w, structs :
        /\ NextToFetch(p) /\ p \in Ids /\ structs \in {Fetching(p), Unfetched(p)}
        /\ Send(structs, Blank("receipt", req[p].sync, req[p].return_ptr, p), w)
  BY DEF FetchReceipt, FetchRefused, Unfetched, Queue
<1> DEFINE request == Blank("receipt", req[p].sync, req[p].return_ptr, p)
<1>3. request.parent = p /\ ~request.need_receipt
  BY DEF Blank
<1>4. structs \in [Ids -> Request] /\ SameStruct(structs, req)
  BY <1>1, <1>2, AnswerUpdates, UnfetchedType DEF Inv
<1>5. p \in Used /\ req[p].need_receipt /\ ~req[p].processing_receipt
  BY <1>1, <1>2 DEF NextToFetch, ToFetch, Inv, Numbering
<1>6. /\ \A i \in Ids \ {p} : structs[i] = req[i]
      /\ structs[p].receipt_attempts = req[p].receipt_attempts
      /\ structs[p].need_receipt => structs[p].processing_receipt
  BY <1>1, <1>2 DEF Unfetched, Fetching, Request
<1> HIDE DEF request
<1>7. Send(structs, request, w)
  BY <1>2 DEF request
<1> QED
  BY <1>1, <1>3, <1>4, <1>5, <1>6, <1>7, BudgetSend

LEMMA BudgetNext == ASSUME BudgetInv, [Next]_vars PROVE BudgetInv'
<1>1. Inv /\ Inv' /\ req \in [Ids -> Request] /\ SameStruct(req, req)
  BY NextInv DEF BudgetInv, Inv, TypeOK, SameStruct, SameOrigin, SameProgress
<1>2. ASSUME NEW k, NEW s, NEW ptr, NEW w, Send(req, Blank(k, s, ptr, NoReq), w)
      PROVE  BudgetInv'
  <2> DEFINE request == Blank(k, s, ptr, NoReq)
  <2>1. request.parent = NoReq /\ ~request.need_receipt
    BY DEF Blank
  <2> HIDE DEF request
  <2>2. Send(req, request, w)
    BY <1>2 DEF request
  <2> QED
    BY <1>1, <2>1, <2>2, BudgetSend
<1>3. CASE \E k, s, ptr : AsyncCall(k) \/ SyncCall(k, ptr) \/ RefusedCall(k, s)
  BY <1>2, <1>3 DEF AsyncCall, SyncCall, RefusedCall, Queue
<1>4. CASE Network
  BY <1>4, BudgetNetwork DEF Network, NetworkStep
<1>5. CASE FetchReceipt \/ FetchRefused
  BY <1>5, BudgetFetch
<1>6. CASE FetchNoMemory \/ Leave \/ CurlFails
  <2>1. created' = created
    BY <1>6 DEF FetchNoMemory, Leave, CurlFails, link
  <2>2. \E p : req' \in {req, [req EXCEPT ![p].need_receipt = FALSE], Unfetched(p)}
    <3>1. CASE FetchNoMemory
      BY <3>1 DEF FetchNoMemory, Unfetched
    <3>2. CASE Leave \/ CurlFails
      BY <3>2 DEF Leave, CurlFails, Return
    <3> QED
      BY <1>6, <3>1, <3>2
  <2> QED
    BY <1>1, <2>1, <2>2, BudgetQuiet
<1>7. CASE Poll \/ Free \/ Ended \/ Collect \/ WaitAgain \/ UNCHANGED vars
  <2>1. created' = created /\ req' = req
    BY <1>7 DEF Poll, Free, Ended, Collect, WaitAgain, vars
  <2> QED
    BY <1>1, <2>1, BudgetQuiet
<1> QED
  BY <1>3, <1>4, <1>5, <1>6, <1>7 DEF Next, Application, Loop

LEMMA BudgetInvariance == Spec => []BudgetInv
<1>1. BudgetInv /\ [Next]_vars => BudgetInv'
  BY BudgetNext
<1> QED
  BY BudgetInit, <1>1, PTL DEF Spec

(***************************************************************************)
(* on_failed_receipt sends at most MaxReceiptAttempts GetReceipt for one   *)
(* transaction, whatever is lost, refused or released early: the attempts  *)
(* are counted in a struct that a nested loop may have released, and yet a *)
(* struct that still waits for a receipt never had more fetches than it    *)
(* counted.                                                                *)
(***************************************************************************)
THEOREM FetchesBounded == Spec => []BoundedFetches
<1>1. BudgetInv => BoundedFetches
  BY DEF BudgetInv, Budget, BoundedFetches
<1> QED
  BY BudgetInvariance, <1>1, PTL
=============================================================================
