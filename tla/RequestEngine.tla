--------------------------- MODULE RequestEngine ---------------------------
(***************************************************************************)
(* The request engine of libaergo: the list of requests an instance keeps, *)
(* the curl transfers that carry them, and the one function that drives    *)
(* both, aergo_process_requests__internal (socket.c).                      *)
(*                                                                         *)
(* A caller hands a request over with send_grpc_request.  An asynchronous  *)
(* request returns at once and is answered later, from within a call to    *)
(* aergo_process_requests; a synchronous one runs the same loop on the     *)
(* spot until its own request is settled.  A transaction that the node     *)
(* accepted is settled only when its receipt was fetched by a child        *)
(* request, and the child of a synchronous transaction is synchronous too: *)
(* it runs the loop again, nested in the loop that noticed the             *)
(* transaction.  Every nested loop releases settled requests on its way    *)
(* out, also those an outer loop still points to.                          *)
(*                                                                         *)
(* The library is single threaded.  What interleaves is the caller's       *)
(* calls, the node's answers, lost transfers and failing allocations.      *)
(***************************************************************************)
EXTENDS Naturals, FiniteSets, Sequences

CONSTANTS
  AsyncKinds,          \* the kinds of asynchronous calls the application makes
  SyncKinds,           \* the kinds of synchronous calls the application makes
  NullReceipt,         \* whether it also calls aergo_transfer with receipt = NULL
  CurlMayFail,         \* whether curl_multi_perform and curl_multi_wait may fail
  MaxReceiptAttempts,  \* 10 in the code (aergo.c:1841)
  MaxCalls,            \* bound: API calls the application makes
  MaxRequests,         \* bound: request structs ever allocated
  MaxFaults            \* bound: lost transfers, undecodable messages, failed
                       \* allocations and curl calls

ASSUME EngineAssumption ==
  /\ AsyncKinds \subseteq {"commit", "receipt", "query", "stream"}
  /\ SyncKinds \subseteq {"commit", "receipt", "query", "state"}
  /\ NullReceipt \in BOOLEAN
  /\ CurlMayFail \in BOOLEAN
  /\ MaxReceiptAttempts \in Nat \ {0}
  /\ MaxCalls \in Nat
  /\ MaxRequests \in Nat
  /\ MaxFaults \in Nat

(***************************************************************************)
(* Requests are numbered in the order they are allocated and a number is   *)
(* never used twice, so a pointer to a released struct stays recognizable. *)
(* llist_add appends, llist_remove keeps the order: the list               *)
(* instance->requests is the set of its members in ascending order.        *)
(***************************************************************************)
Ids   == 1 .. MaxRequests
NoReq == 0

(***************************************************************************)
(* The kinds are the gRPC methods as far as their handlers differ: commit  *)
(* is CommitTX, receipt is GetReceipt, query stands for QueryContract and  *)
(* QueryContractState, state for GetState and Blockchain, stream for       *)
(* ListEventStream and ListBlockStream (the requests with keep_active).    *)
(***************************************************************************)
Kinds == {"commit", "receipt", "query", "state", "stream"}

(* struct request; sync is callback = NULL, return_ptr is whether the      *)
(* caller gave a place for the answer, keep_active is kind = "stream".     *)
Request ==
  [kind: Kinds, sync: BOOLEAN, return_ptr: BOOLEAN, parent: Ids \cup {NoReq},
   processed: BOOLEAN, success: BOOLEAN, need_receipt: BOOLEAN,
   processing_receipt: BOOLEAN, receipt_attempts: Nat]

VARIABLES
  requests,   \* instance->requests: the live structs
  created,    \* how many structs were ever allocated
  req,        \* the contents of every struct, the released ones as they were
  wire,       \* the curl handle of a request: none (no handle, or it is done),
              \* open (no answer yet), closing (nothing more to receive), or
              \* unadded (the multi handle did not take it)
  transfers,  \* instance->transfers
  stack,      \* main_request of every active process_requests, innermost last
  pc,         \* where the innermost one is: at wait (loc_wait_again), at check
              \* (loc_check_receipts); or idle, freed, crashed outside of it
  ret,        \* what the API call that created a request returned
  told,       \* how often the caller of a request was given its answer
  dangling,   \* the released structs that were read or written through
  faults      \* how many faults happened

vars == <<requests, created, req, wire, transfers, stack, pc, ret, told,
          dangling, faults>>

\* The curl and caller side, and the ghosts, that a handler leaves alone.
link == <<created, transfers>>

Blank(k, s, ptr, p) ==
  [kind |-> k, sync |-> s, return_ptr |-> ptr, parent |-> p,
   processed |-> FALSE, success |-> FALSE, need_receipt |-> FALSE,
   processing_receipt |-> FALSE, receipt_attempts |-> 0]

Init ==
  /\ requests = {}
  /\ created = 0
  /\ req = [r \in Ids |-> Blank("state", TRUE, FALSE, NoReq)]
  /\ wire = [r \in Ids |-> "none"]
  /\ transfers = 0
  /\ stack = << >>
  /\ pc = "idle"
  /\ ret = [r \in Ids |-> "none"]
  /\ told = [r \in Ids |-> 0]
  /\ dangling = {}
  /\ faults = 0

Used == 1 .. created
Root(r) == IF req[r].parent = NoReq THEN r ELSE req[r].parent
Children(p) == {c \in Used : req[c].parent = p}
Registered == {r \in Ids : wire[r] \in {"open", "closing"}}
Unadded == {r \in Ids : wire[r] = "unadded"}
Closing == {r \in Ids : wire[r] = "closing"}

Fault == faults < MaxFaults /\ faults' = faults + 1

\* A message either can be decoded (pb_decode) or is one of the faults.
Decodes(ok) == IF ok THEN UNCHANGED faults ELSE Fault

----------------------------------------------------------------------------
(***************************************************************************)
(* Definitions named ...Mutant are never used: each is a plausible mistake *)
(* in the definition that follows it, kept to show which property finds it.*)
(*                                                                         *)
(* Sending.  new_request allocates the struct and appends it to the list;  *)
(* new_http_request adds a curl handle for it.  When the latter fails      *)
(* (w = "none") the struct stays in the list.  It does not look at what    *)
(* curl_multi_add_handle returns: a handle that curl does not take is      *)
(* counted as well, and the call goes on as if it were under way.          *)
(***************************************************************************)
NotCountedMutant(w) == transfers

\* counted although curl_easy_init failed
OvercountedMutant(w) == transfers + 1

\* transfers++ for all that get as far (socket.c:316-317)
Counted(w) == IF w = "none" THEN transfers ELSE transfers + 1

Send(structs, request, w) ==
  /\ created < MaxRequests
  /\ created' = created + 1
  /\ requests' = requests \cup {created + 1}
  /\ req' = [structs EXCEPT ![created + 1] = request]
  /\ wire' = [wire EXCEPT ![created + 1] = w]
  /\ transfers' = Counted(w)

\* new_http_request returns true: the handle was added, or it was refused.
Queue(structs, request) ==
  \E w \in {"open", "unadded"} :
    /\ IF w = "open" THEN UNCHANGED faults ELSE Fault
    /\ Send(structs, request, w)

MayCall ==
  /\ pc = "idle"
  /\ Cardinality({r \in Used : req[r].parent = NoReq}) < MaxCalls

\* An _async function or a subscription: queued, and true is returned at once.
AsyncCall(k) ==
  /\ MayCall
  /\ Queue(req, Blank(k, FALSE, FALSE, NoReq))
  /\ ret' = [ret EXCEPT ![created + 1] = "true"]
  /\ UNCHANGED <<stack, pc, told, dangling>>

\* A synchronous function: queued, then waited for with main_request set.
SyncCall(k, ptr) ==
  /\ MayCall
  /\ Queue(req, Blank(k, TRUE, ptr, NoReq))
  /\ stack' = <<created + 1>>
  /\ pc' = "wait"
  /\ UNCHANGED <<ret, told, dangling>>

\* Either of them when new_http_request fails: false is returned.
RefusedCall(k, s) ==
  /\ MayCall
  /\ Fault
  /\ Send(req, Blank(k, s, s, NoReq), "none")
  /\ ret' = [ret EXCEPT ![created + 1] = "false"]
  /\ UNCHANGED <<stack, pc, told, dangling>>

\* aergo_process_requests; with an empty list it returns 0 at once.
Poll ==
  /\ pc = "idle"
  /\ requests # {}
  /\ stack' = <<NoReq>>
  /\ pc' = "wait"
  /\ UNCHANGED <<requests, created, req, wire, transfers, ret, told, dangling,
                 faults>>

\* aergo_free releases every struct and abandons the curl handles.
Free ==
  /\ pc = "idle"
  /\ requests' = {}
  /\ wire' = [r \in Ids |-> "none"]
  /\ transfers' = 0
  /\ pc' = "freed"
  /\ ret' = [r \in Ids |-> IF r \in requests THEN "dropped" ELSE ret[r]]
  /\ UNCHANGED <<created, req, stack, told, dangling, faults>>

\* The instance is gone, or the process is: another aergo_connect is another
\* behavior of this specification.
Ended == pc \in {"freed", "crashed"} /\ UNCHANGED vars

----------------------------------------------------------------------------
(***************************************************************************)
(* What curl_multi_perform calls back.  The node is a gRPC server: to a    *)
(* unary call it sends one message, or one non-empty grpc-message trailer, *)
(* or nothing; to a subscription any number of messages, then possibly a   *)
(* grpc-message.  The transfer is done some time later.                    *)
(***************************************************************************)
Awaited(r, k) == pc = "wait" /\ wire[r] = "open" /\ req[r].kind = k

Close(r) == wire' = [wire EXCEPT ![r] = "closing"]

\* only a successful answer marks the request as processed
ProcessedMutant(r, ok) ==
  [req EXCEPT ![r].processed = ok, ![r].success = ok]

Processed(r, ok) ==
  [req EXCEPT ![r].processed = TRUE, ![r].success = ok]

Tell(r) == told' = [told EXCEPT ![r] = @ + 1]

\* need_receipt is forgotten
CommittedMutant(r, ok) == Processed(r, ok)

Committed(r, ok) == [Processed(r, ok) EXCEPT ![r].need_receipt = ok]

\* handle_transfer_response and handle_contract_call_response: TX_OK, a commit
\* error (copied to the receipt of a synchronous caller), or undecodable.
CommitResponse(r) ==
  /\ Awaited(r, "commit")
  /\ Close(r)
  /\ \E result \in {"ok", "rejected", "garbage"} :
       /\ req' = Committed(r, result = "ok")
       /\ Decodes(result # "garbage")
       /\ IF result = "rejected" /\ req[r].return_ptr THEN Tell(r)
                                                      ELSE UNCHANGED told
  /\ UNCHANGED <<link, requests, stack, pc, ret, dangling>>

\* process_request_error for a request without an error handler.
PlainError(r) ==
  /\ \/ \E k \in {"commit", "state", "stream"} : Awaited(r, k)
     \/ Awaited(r, "receipt") /\ req[r].parent = NoReq
  /\ Close(r)
  /\ req' = [req EXCEPT ![r].processed = TRUE]
  /\ UNCHANGED <<link, requests, stack, pc, ret, told, dangling, faults>>

(***************************************************************************)
(* request->parent of request r, as memory: the parent itself, or when it  *)
(* was released whatever its block holds now - nothing in use, or a struct *)
(* allocated after r.                                                      *)
(***************************************************************************)
Pointee(r) ==
  IF req[r].parent \in requests \cup {NoReq}
  THEN {req[r].parent}
  ELSE {NoReq} \cup {q \in requests : q > r}

ThroughParent(r) ==
  IF req[r].parent \in requests \cup {NoReq} THEN {} ELSE {req[r].parent}

\* the parent is released from being processed, not from needing a receipt
WithReceiptMutant(structs, p) ==
  IF p = NoReq THEN structs
  ELSE [structs EXCEPT ![p].processing_receipt = FALSE]

\* What a receipt does to the parent.
WithReceipt(structs, p) ==
  IF p = NoReq THEN structs
  ELSE [structs EXCEPT ![p].need_receipt = FALSE, ![p].processing_receipt = FALSE]

\* handle_receipt_response: the parent is settled whether or not the message
\* can be decoded, the caller is told only if it can.
ReceiptResponse(r) ==
  /\ Awaited(r, "receipt")
  /\ req[r].sync => req[r].return_ptr
  /\ Close(r)
  /\ \E ok \in BOOLEAN, p \in Pointee(r) :
       /\ req' = WithReceipt(Processed(r, ok), p)
       /\ Decodes(ok)
       /\ IF ok THEN Tell(Root(r)) ELSE UNCHANGED told
  /\ dangling' = dangling \cup ThroughParent(r)
  /\ UNCHANGED <<link, requests, stack, pc, ret>>

\* The same with neither a callback nor a place for the receipt: memset(NULL).
ReceiptCrash(r) ==
  /\ Awaited(r, "receipt")
  /\ req[r].sync /\ ~req[r].return_ptr
  /\ pc' = "crashed"
  /\ UNCHANGED <<link, requests, req, wire, stack, ret, told, dangling, faults>>

\* What an error does to the parent; the mutant fetches again as if not found.
WithoutReceiptMutant(structs, p) ==
  IF p = NoReq THEN structs
  ELSE [structs EXCEPT ![p].processing_receipt = FALSE]

WithoutReceipt(structs, p) ==
  IF p = NoReq THEN structs ELSE [structs EXCEPT ![p].need_receipt = FALSE]

\* on_failed_receipt, any message but "tx not found": the parent is settled and
\* an asynchronous caller is told; a synchronous caller's receipt is untouched.
ReceiptError(r) ==
  /\ Awaited(r, "receipt") /\ req[r].parent # NoReq
  /\ Close(r)
  /\ \E p \in Pointee(r) : req' = WithoutReceipt(Processed(r, FALSE), p)
  /\ IF req[r].sync THEN UNCHANGED told ELSE Tell(Root(r))
  /\ dangling' = dangling \cup ThroughParent(r)
  /\ UNCHANGED <<link, requests, stack, pc, ret, faults>>

\* on_failed_receipt, "tx not found": the parent may fetch again, or this was
\* the last attempt and it is settled as above.
GivesUpMutant(p) == req[p].receipt_attempts + 1 > MaxReceiptAttempts

GivesUp(p) == req[p].receipt_attempts + 1 >= MaxReceiptAttempts

\* the parent stays marked as being processed
NotFoundMutant(structs, p, last) ==
  IF p = NoReq THEN structs
  ELSE [structs EXCEPT ![p].receipt_attempts = @ + 1,
                       ![p].need_receipt = @ /\ ~last]

\* What "tx not found" does to the parent.
NotFound(structs, p, last) ==
  IF p = NoReq THEN structs
  ELSE [structs EXCEPT ![p].receipt_attempts = @ + 1,
                       ![p].need_receipt = @ /\ ~last,
                       ![p].processing_receipt = @ /\ last]

ReceiptNotFound(r) ==
  /\ Awaited(r, "receipt") /\ req[r].parent # NoReq
  /\ Close(r)
  /\ \E p \in Pointee(r), last \in BOOLEAN :
       /\ p # NoReq => last = GivesUp(p)
       /\ req' = NotFound(Processed(r, FALSE), p, last)
       /\ IF last /\ ~req[r].sync THEN Tell(Root(r)) ELSE UNCHANGED told
  /\ dangling' = dangling \cup ThroughParent(r)
  /\ UNCHANGED <<link, requests, stack, pc, ret, faults>>

\* handle_query_response, handle_query_state_var_response and handle_query_error:
\* the caller is told of a value or of an error, not of an undecodable message.
QueryResponse(r) ==
  /\ Awaited(r, "query")
  /\ Close(r)
  /\ \E result \in {"ok", "error", "garbage"} :
       /\ req' = Processed(r, result = "ok")
       /\ Decodes(result # "garbage")
       /\ IF result = "garbage" THEN UNCHANGED told ELSE Tell(r)
  /\ UNCHANGED <<link, requests, stack, pc, ret, dangling>>

\* handle_blockchain_status_response and handle_account_state_response.
StateResponse(r) ==
  /\ Awaited(r, "state")
  /\ Close(r)
  /\ \E ok \in BOOLEAN :
       /\ req' = Processed(r, ok)
       /\ Decodes(ok)
       /\ IF ok THEN Tell(r) ELSE UNCHANGED told
  /\ UNCHANGED <<link, requests, stack, pc, ret, dangling>>

\* handle_event_response and handle_block_response; the stream stays open.
StreamMessage(r) ==
  /\ Awaited(r, "stream")
  /\ \E ok \in BOOLEAN : req' = Processed(r, ok) /\ Decodes(ok)
  /\ UNCHANGED <<link, requests, wire, stack, pc, ret, told, dangling>>

\* The node closes a subscription.
StreamEnd(r) ==
  /\ Awaited(r, "stream")
  /\ Close(r)
  /\ UNCHANGED <<link, requests, req, stack, pc, ret, told, dangling, faults>>

\* A transfer ends without an answer: refused, reset or cut off in a message.
Lose(r) ==
  /\ \E k \in Kinds \ {"stream"} : Awaited(r, k)
  /\ Close(r)
  /\ Fault
  /\ UNCHANGED <<link, requests, req, stack, pc, ret, told, dangling>>

----------------------------------------------------------------------------
(***************************************************************************)
(* aergo_process_requests__internal after the network: collect the DONE    *)
(* messages, fetch receipts, test the main request, release.               *)
(***************************************************************************)
\* done are the transfers that curl_multi_info_read reports as DONE.
Collect ==
  /\ pc = "wait"
  /\ \E done \in SUBSET Closing :
       /\ wire' = [r \in Ids |-> IF r \in done THEN "none" ELSE wire[r]]
       /\ transfers' = transfers - Cardinality(done)
  /\ pc' = "check"
  /\ UNCHANGED <<requests, created, req, stack, ret, told, dangling, faults>>

\* The requests loc_check_receipts looks for.
ToFetch ==
  {p \in requests : /\ req[p].processed /\ req[p].success
                    /\ req[p].need_receipt /\ ~req[p].processing_receipt}

NextToFetch(p) == p \in ToFetch /\ \A q \in ToFetch : p <= q

FetchingMutant(p) == req

Fetching(p) == [req EXCEPT ![p].processing_receipt = TRUE]

\* aergo_get_receipt__internal for the first of them: with a callback the child
\* is just queued, without one it is waited for in a nested loop.
FetchReceipt ==
  /\ pc = "check"
  /\ \E p \in Ids :
       /\ NextToFetch(p)
       /\ Queue(Fetching(p), Blank("receipt", req[p].sync, req[p].return_ptr, p))
       /\ IF req[p].sync
          THEN stack' = Append(stack, created + 1) /\ pc' = "wait"
          ELSE UNCHANGED <<stack, pc>>
  /\ UNCHANGED <<ret, told, dangling>>

\* The same when new_http_request fails: the parent is settled without a receipt.
FetchRefused ==
  /\ pc = "check"
  /\ Fault
  /\ \E p \in Ids :
       /\ NextToFetch(p)
       /\ Send([Fetching(p) EXCEPT ![p].need_receipt = FALSE],
               Blank("receipt", req[p].sync, req[p].return_ptr, p), "none")
  /\ UNCHANGED <<stack, pc, ret, told, dangling>>

\* The same when new_request has no memory: no struct at all.
FetchNoMemory ==
  /\ pc = "check"
  /\ Fault
  /\ \E p \in Ids :
       /\ NextToFetch(p)
       /\ req' = [Fetching(p) EXCEPT ![p].need_receipt = FALSE]
  /\ UNCHANGED <<link, requests, wire, stack, pc, ret, told, dangling>>

Main == stack[Len(stack)]

(***************************************************************************)
(* What main_request->processed && !main_request->need_receipt and         *)
(* main_request->success give: for a struct a nested loop has released,    *)
(* anything (its block may hold another request by now).                   *)
(***************************************************************************)
MainStatus ==
  IF Main \in requests
  THEN {[settled |-> req[Main].processed /\ ~req[Main].need_receipt,
         success |-> req[Main].success]}
  ELSE [settled: BOOLEAN, success: BOOLEAN]

ThroughMain == IF Main \in requests \cup {NoReq} THEN {} ELSE {Main}

\* goto loc_wait_again
WaitAgain ==
  /\ pc = "check" /\ ToFetch = {}
  /\ Main # NoReq
  /\ transfers > 0
  /\ \E m \in MainStatus : ~m.settled
  /\ pc' = "wait"
  /\ dangling' = dangling \cup ThroughMain
  /\ UNCHANGED <<requests, created, req, wire, transfers, stack, ret, told, faults>>

(***************************************************************************)
(* The end of the innermost process_requests, with live the list it leaves *)
(* and ok the *psuccess it sets: back to the application, or to the loop   *)
(* that fetches a receipt, which clears need_receipt of the transaction if *)
(* the fetch failed (socket.c:87-89) - also when that was released.        *)
(***************************************************************************)
Return(live, ok, through) ==
  /\ requests' = live
  /\ stack' = SubSeq(stack, 1, Len(stack) - 1)
  /\ IF Len(stack) = 1
     THEN /\ pc' = "idle"
          /\ ret' = IF Main = NoReq THEN ret
                    ELSE [ret EXCEPT ![Main] = IF ok THEN "true" ELSE "false"]
          /\ dangling' = dangling \cup through
          /\ UNCHANGED req
     ELSE LET tx == req[Main].parent
              stale == ~ok /\ tx \notin live
          IN  /\ pc' = "check"
              /\ req' = IF ok \/ stale THEN req
                        ELSE [req EXCEPT ![tx].need_receipt = FALSE]
              /\ dangling' = dangling \cup through \cup (IF stale THEN {tx} ELSE {})
              /\ UNCHANGED ret

\* the receipt is not waited for
SettledEarlyMutant ==
  {r \in requests : req[r].processed /\ req[r].kind # "stream"}

\* subscriptions are not kept
SettledStreamMutant ==
  {r \in requests : req[r].processed /\ ~req[r].need_receipt}

\* requests without an answer are not kept
SettledUnansweredMutant ==
  {r \in requests : ~req[r].need_receipt /\ req[r].kind # "stream"}

\* What loc_exit releases.
Settled ==
  {r \in requests : /\ req[r].processed /\ ~req[r].need_receipt
                    /\ req[r].kind # "stream"}

\* loc_exit
Leave ==
  /\ pc = "check" /\ ToFetch = {}
  /\ \E m \in MainStatus :
       /\ m.settled \/ transfers = 0 \/ Main = NoReq
       /\ Return(requests \ Settled, m.settled /\ m.success, ThroughMain)
  /\ UNCHANGED <<link, wire, told, faults>>

\* loc_failed: an error of curl_multi_perform or curl_multi_wait; -1, and
\* *psuccess stays false.
CurlFails ==
  /\ CurlMayFail
  /\ pc = "wait"
  /\ transfers > 0
  /\ Fault
  /\ Return(requests, FALSE, {})
  /\ UNCHANGED <<link, wire, told>>

----------------------------------------------------------------------------
Application ==
  \/ \E k \in AsyncKinds : AsyncCall(k) \/ RefusedCall(k, FALSE)
  \/ \E k \in SyncKinds : SyncCall(k, TRUE) \/ RefusedCall(k, TRUE)
  \/ NullReceipt /\ SyncCall("commit", FALSE)
  \/ Poll
  \/ Free
  \/ Ended

Reply(r) ==
  \/ CommitResponse(r)
  \/ PlainError(r)
  \/ ReceiptResponse(r)
  \/ ReceiptCrash(r)
  \/ ReceiptError(r)
  \/ ReceiptNotFound(r)
  \/ QueryResponse(r)
  \/ StateResponse(r)

Network == \E r \in Ids : Reply(r) \/ StreamMessage(r) \/ StreamEnd(r) \/ Lose(r)

Loop ==
  \/ Collect
  \/ FetchReceipt
  \/ FetchRefused
  \/ FetchNoMemory
  \/ WaitAgain
  \/ Leave

Next == Application \/ Network \/ Loop \/ CurlFails

Spec == Init /\ [][Next]_vars

(***************************************************************************)
(* Fairness.  The loop is sequential code, it goes on.  The application    *)
(* polls while it has nothing else to do, as the examples do.  The node    *)
(* answers every unary call: while curl is asked again and again, some     *)
(* answer that is outstanding is received.  That happens only while        *)
(* curl_multi_perform runs, hence strong fairness; a request has one       *)
(* answer, so in time all of them are received.  Nothing is assumed of     *)
(* when a transfer ends.                                                   *)
(***************************************************************************)
Delivery == \E r \in Ids : Reply(r)

FairSpec == Spec /\ WF_vars(Loop \/ Poll) /\ SF_vars(Delivery)

----------------------------------------------------------------------------
\* Every variable has its type (struct request and struct aergo, aergo-int.h).
TypeOK ==
  /\ requests \subseteq Ids
  /\ created \in 0 .. MaxRequests
  /\ req \in [Ids -> Request]
  /\ wire \in [Ids -> {"none", "open", "closing", "unadded"}]
  /\ transfers \in Nat
  /\ stack \in Seq(Ids \cup {NoReq})
  /\ pc \in {"idle", "wait", "check", "freed", "crashed"}
  /\ ret \in [Ids -> {"none", "true", "false", "dropped"}]
  /\ told \in [Ids -> Nat]
  /\ dangling \subseteq Ids
  /\ faults \in 0 .. MaxFaults

(***************************************************************************)
(* instance->transfers, kept by hand in two places far apart, is exactly   *)
(* the number of handles in the multi handle and of those that curl did    *)
(* not take (socket.c:316-317): a loop that waits while transfers > 0      *)
(* never stops early, and waits for nothing only after such a refusal.     *)
(***************************************************************************)
TransfersCounted == transfers = Cardinality(Registered) + Cardinality(Unadded)

(***************************************************************************)
(* curl holds a raw pointer to the request of every handle (WRITEDATA and  *)
(* HEADERDATA).  While the answer is outstanding that request is in the    *)
(* list, and unless it is a subscription it was not processed yet.         *)
(***************************************************************************)
AwaitedIsLive ==
  \A r \in Ids : wire[r] = "open" =>
    /\ r \in requests
    /\ req[r].kind # "stream" => ~req[r].processed

(***************************************************************************)
(* While a GetReceipt is outstanding its parent, which the handlers write  *)
(* through request->parent, is in the list, still needs the receipt and is *)
(* marked as being processed.                                              *)
(***************************************************************************)
FetchHasParent ==
  \A c \in Ids : wire[c] = "open" /\ req[c].parent # NoReq =>
    LET p == req[c].parent
    IN  /\ p \in requests
        /\ req[p].processed /\ req[p].success
        /\ req[p].need_receipt /\ req[p].processing_receipt

\* A transaction never has two GetReceipt outstanding at a time.
OneFetchAtATime ==
  \A c, d \in Ids :
    /\ wire[c] = "open" /\ wire[d] = "open"
    /\ req[c].parent = req[d].parent /\ req[c].parent # NoReq
    => c = d

\* No struct is read or written through after free_request released it.
NoUseAfterFree == dangling = {}

(***************************************************************************)
(* The caller of a request that has one answer - whose callback the        *)
(* request and each of its receipt fetches share - is told at most once.   *)
(***************************************************************************)
ToldOnce == \A r \in Ids : told[r] <= 1

\* on_failed_receipt: at most MaxReceiptAttempts fetches for one transaction.
BoundedFetches ==
  \A r \in Ids : Cardinality(Children(r)) <= MaxReceiptAttempts

(***************************************************************************)
(* A synchronous transaction recurses once for every "tx not found": while *)
(* curl does not fail, the C stack holds the outer loop and no more than   *)
(* MaxReceiptAttempts nested ones, even when lost replies and other        *)
(* synchronous calls come between.                                         *)
(***************************************************************************)
BoundedNesting == Len(stack) <= 1 + MaxReceiptAttempts

(***************************************************************************)
(* What aergo_process_requests returns to a caller that polls now (it does *)
(* not count requests that wait for no transfer).  The examples loop while *)
(* it is positive, then exit.                                              *)
(***************************************************************************)
PollResult == IF requests = {} THEN 0 ELSE transfers

\* r is an asynchronous call with one answer, and its function returned true.
Accepted(r) ==
  /\ r \in Used
  /\ ret[r] = "true"
  /\ ~req[r].sync /\ req[r].kind # "stream"

\* r was accepted by the node: TX_OK, or an answer that could be decoded.
Granted(r) == Accepted(r) /\ req[r].processed /\ req[r].success

(***************************************************************************)
(* When polling reports 0 and no fault happened, nothing is outstanding:   *)
(* every asynchronous call has been processed, every transaction the node  *)
(* accepted has been reported to its callback, and nothing but ended       *)
(* subscriptions is left in the list.                                      *)
(***************************************************************************)
ZeroMeansSettled ==
  pc = "idle" /\ PollResult = 0 /\ faults = 0 =>
    /\ \A r \in Ids : wire[r] # "open"
    /\ \A r \in Used : Accepted(r) => req[r].processed
    /\ \A r \in Used : Granted(r) => told[r] = 1
    /\ \A r \in requests : req[r].kind = "stream"

(***************************************************************************)
(* Once the caller of a transaction was told its receipt, no other fetch   *)
(* is ever sent for it.                                                    *)
(***************************************************************************)
ToldIsFinal ==
  [][\A p \in Used : told[p] > 0 /\ req[p].kind = "commit"
                       => Children(p)' = Children(p)]_vars

(***************************************************************************)
(* Every asynchronous transaction that the node accepts is reported to its *)
(* callback, unless the instance is freed before: if no fault happens, the *)
(* application goes on polling and the node goes on answering, there is    *)
(* always a time to come when none is owed.                                *)
(***************************************************************************)
Owed == {r \in Used : /\ Granted(r) /\ req[r].kind = "commit"
                      /\ told[r] = 0}

GrantedIsTold == []<>(faults = 0 => Owed = {})

(***************************************************************************)
(* What the innermost loop waits for is not under way any more: a nested   *)
(* loop released its request (socket.c:113), or a fault took the answer,   *)
(* such as a transfer that was lost (socket.c:104) or never added.  Next   *)
(* to an open subscription, which keeps transfers above 0, such a loop may *)
(* go on for ever.                                                         *)
(***************************************************************************)
Forlorn ==
  /\ stack # << >> /\ Main # NoReq
  /\ \/ Main \notin requests
     \/ faults > 0 /\ ~req[Main].processed /\ wire[Main] # "open"

(***************************************************************************)
(* Every call into the library returns, unless what it waits for is not    *)
(* under way any more: whatever other requests are answered, fetched and   *)
(* released meanwhile, and however deep the loops nest.                    *)
(***************************************************************************)
CallsReturn ==
  (pc \in {"wait", "check"}) ~> (pc = "idle" \/ Forlorn)

(***************************************************************************)
(* What the comments and the examples of the repository say of it, and the *)
(* runs refute.                                                            *)
(***************************************************************************)

\* transfer_async.c:59-60 waits for "the response" until polling gives 0: by
\* then every asynchronous transaction was reported, accepted or not.
ZeroMeansTold ==
  pc = "idle" /\ PollResult = 0 =>
    \A r \in Used : Accepted(r) /\ req[r].kind = "commit" => told[r] = 1

\* contract_call.c:63-77 prints the receipt when the synchronous call returned
\* true: then it was filled in.
TrueMeansFilled ==
  \A r \in Used :
    ret[r] = "true" /\ req[r].sync /\ req[r].kind = "commit" => told[r] = 1

\* aergo.c:1423, of a transfer with receipt = NULL: "do not ask for a txn receipt".
NullReceiptNotFetched ==
  \A c \in Used : req[c].parent # NoReq /\ req[c].sync => req[c].return_ptr

=============================================================================
