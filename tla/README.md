# libaergo in TLA+

libaergo is a C client library for the Aergo blockchain. A program opens an instance
(`aergo_connect`), makes synchronous or asynchronous calls on it (transfers,
contract calls and queries, subscriptions), and drives everything that is
outstanding with `aergo_process_requests`. This directory holds a TLA+ model of the
library: the engine that drives its requests, the reassembly of messages, the
numbering of transactions, the driver of the Ledger device and the conversions, with
the TLC runs that check them and TLAPS proofs about them. Line numbers refer to the
sources at the commit this directory sits beside.

## Inventory

| Component | State | Operations | Hard behaviours | What makes it correct |
|---|---|---|---|---|
| **Request engine** (`socket.c`, the handlers of `aergo.c`) | `instance->requests`, `instance->transfers`, `struct request`, curl's multi handle, the C stack of nested loops | `send_grpc_request`, `aergo_process_requests__internal`, the response and error handlers, the receipt fetch and its retries, `aergo_free` | nested loops that release what an outer loop points to; a transaction is answered by a chain of requests; flags that make a retry happen, or stop it; lost replies, failing allocations and curl calls | no released struct is touched; every callback comes once; nothing accepted is forgotten; `transfers` is the number of handles, and of those curl did not take; nesting is bounded; a call returns unless what it waits for is not under way any more |
| **Request list** (`linked_list.c`) | the `next` pointers | `llist_add`, `llist_prepend`, `llist_remove` | removal of head, middle and tail while iterating | order and members are those of a sequence; in the engine the list is abstract |
| **Response reassembly** (`server_response_callback`, `server_header_callback` in `socket.c`) | `response`, `received`, `remaining_size` of a request | append a chunk, finish a message | messages split anywhere, several in a chunk, the 5 byte prefix split, sizes that an `int` does not hold | no copy past the memory of a message; the handler gets the messages the node sent, each whole, in order; none waits for another chunk |
| **Transaction entry points and nonces** (`aergo.c`, `account.c`) | `aergo_account` (nonce, `is_updated`), the global `blockchain_id_hash` | `aergo_transfer…`, `aergo_call…`, `aergo_multicall…`, `check_blockchain_id_hash`, `get_account_state` | nonces taken before the transaction is sent; a second fetch of the state while transactions are in flight; answers that outlive their call or cannot be decoded; instances on several chains | nonces are fresh, different and consecutive; what is sent is executed; the hash is that of the instance's chain |
| **Message handlers and encoders** (`aergo.c`, nanopb) | a request's return place or callback | `handle_*_response`, `Encode*` | errors, messages that do not decode, buffers at their limit | the caller gets the answer or an error |
| **Ledger driver** (`ledger.c`, `ledger/`) | HID handle, the chunk offset, the packet sequence | `ledger_send_apdu`, wrap and unwrap of packets, `get_device_account`, `sign` | one buffer for command and answer; 0x9001 restarts; read timeouts and answers that come late; packets by sequence number | the device gets the chunks in order; what is returned as a signature is the device's, for this transaction; the packets fit the buffer; calls return unless the device makes them start over for ever |
| **Conversions** (`conversions.c`) | none | amount strings to big numbers and back, JSON arguments | 18 decimals cut and filled up; space counted apart from what is written | the digits transferred are those of the text; the text of a balance has its digits; a JSON text that fits is complete and inside its buffer, another goes past it by a known number of bytes |
| Address encoding, SHA-256, endianness, HID loader | none | | | not modelled: pure or third-party code |
| nanopb, mbedtls, generated protobuf tables | | | | vendored or generated |
| Language wrappers, examples, headers | | | | one-to-one bindings; the examples give the fairness and the statements that the violation runs refute |

How they interact: an entry point encodes a message, `new_request` puts a struct in
the list, `new_http_request` gives curl a handle with a raw pointer to it.
Everything afterwards happens below `aergo_process_requests__internal`:
`curl_multi_perform` calls `server_response_callback`, which reassembles a message
and calls the request's handler, which calls the application's callback or fills the
place the caller gave. After that, the loop sends receipt requests for accepted
transactions, tests the request a synchronous call waits for, and releases what is
settled. The library is single threaded.

## Modules

| Module | What it is |
|---|---|
| `RequestEngine.tla` | the request engine: state, actions, properties and mutants |
| `RequestEngine_proofs.tla` | proofs for every application: typing, the count of transfers, the safety of curl's pointers, the number of receipt attempts |
| `RequestEngineFetches_proofs.tla` | proofs about receipt fetches and nested loops: parents, one fetch at a time, the depth of the nesting, memory safety |
| `RequestEngineTold_proofs.tla` | proofs about callers: told once, and told last; when polling yields 0 and nothing failed, everything accepted has been reported |
| `MessageStream.tla` | what the handlers of a request are promised of its transfer: whole messages, in order |
| `Framing.tla` | `server_response_callback` over chunks of any length; implements `MessageStream` |
| `Framing_proofs.tla` | proofs for every stream and every chunk: memory, and the refinement |
| `Accounts.tla` | nonces and the chain id hash, next to a node that orders transactions by nonce |
| `Accounts_proofs.tla` | proofs for every set of instances and accounts: typing, the chain id hash, the nonces |
| `Ledger.tla` | signing on the device: chunks, packets, restarts, timeouts |
| `Ledger_proofs.tla` | proofs for every number of calls, chunks and faults: the buffer, the order of the chunks, what is returned as signed |
| `Conversions.tla` | amounts and arguments |
| `ConversionsArguments_proofs.tla` | proofs about the JSON text of the arguments, for every buffer and every length |
| `Conversions_proofs.tla` | proofs about amounts, for every text and every number |
| `MCFraming`, `MCAccounts`, `MCLedger`, `MCConversions` | the values TLC gives to their constants |

### RequestEngine

*State.* Requests are numbered by allocation and numbers are not reused, so that a
pointer to a released struct can be told from one to a live struct. `requests` is
the list (append and in-order removal make it the ascending order of its members),
`req` the contents of every struct, also of released ones, `wire` the curl handle of
a request (none, open, closing, or unadded when the multi handle did not take it),
`transfers` the counter. `stack` has the
`main_request` of every active process_requests, innermost last, with `NoReq` for
the one an application polls with; `pc` says whether the innermost is at
`loc_wait_again` or at `loc_check_receipts`. `ret`, `told` and `dangling` are
history: what a call returned, how often a caller was given its answer, which
released structs were used.

*Actions.*

| Action | Code |
|---|---|
| `AsyncCall`, `SyncCall`, `RefusedCall` | `send_grpc_request`, `new_request`, `new_http_request` |
| `Poll`, `Free` | `aergo_process_requests`, `aergo_free` |
| `CommitResponse`, `ReceiptResponse`, `ReceiptCrash`, `QueryResponse`, `StateResponse`, `StreamMessage` | the `handle_*` functions, with the `processed` flag `server_response_callback` sets |
| `PlainError`, `ReceiptError`, `ReceiptNotFound` | `process_request_error`, `on_failed_receipt` |
| `Collect` | `curl_multi_wait`, `curl_multi_info_read` |
| `FetchReceipt`, `FetchRefused`, `FetchNoMemory` | the loop over the list and `aergo_get_receipt__internal` |
| `WaitAgain`, `Leave`, `CurlFails` | the test of the main request, `loc_exit`, `loc_failed`, and the return into an outer loop |
| `StreamEnd`, `Lose` | external: the node closes a subscription, a connection fails |

*What is read through a released struct* is arbitrary: `MainStatus` allows any flags
for a released `main_request`; `Pointee` lets `request->parent` of a released parent
be nothing in use or any request allocated later.

*Assumptions about the environment.* The node behaves as a gRPC server: a unary call
gets one message, or one non-empty `grpc-message`, or nothing; a subscription any
number of messages. A message that does not decode, a transfer without an answer and
a handle that `curl_multi_add_handle` refuses are faults, and `MaxFaults` bounds them.
`new_http_request` does not look at that refusal: it counts the handle and returns
true (`Queue`), so the request is waited for and never comes. Callbacks do not call the library. The
preliminary calls that a transaction makes (chain id, account state) are synchronous
calls of kind `state` of their own.

### Framing and MessageStream

`Framing` is one transfer of one request. A byte is its position in the stream the
node sends, so that a message handed to the handler says where its bytes came from;
`stream` has the ends of the messages. `arrived` and `ptr` are positions, `size`,
`response`, `response_size`, `received` and `remaining_size` the variables of the
code, `allocated` the size given to `malloc`. `pc` is `again` from the beginning of
the callback, or a `goto loc_again`, until the next jump or return.

| Action | Code |
|---|---|
| `Callback` | curl calls `server_response_callback` with the next bytes (external) |
| `NewMessage`, `MoreOfMessage` | one round of the loop, for a new message or one that was begun |
| `NoSize`, `Astray` | where the loop goes wrong: a size that wrapped around to 0, an index that became negative |
| `OutOfMemory` | `malloc` fails, the callback returns 0 |
| `ErrorTrailer` | `server_header_callback` on a `grpc-message` |
| `Close` | the end of the transfer (external) |

The size of a message is read from the bytes at `ptr`. `SizesRead` has the numbers
this can give: what the chunk holds of the size field counts, the bytes that have not
arrived may be anything, and where no message begins all of them may. `MsgSize` wraps
around at `Word`, as `msg_size += 5` does on an `unsigned int`; the three counters are
`int`, and `AsInt` is what an assignment from a larger unsigned number makes of them.
A negative `remaining_size` is compared as a `size_t`, so the rest of the chunk is
copied; a negative `response_size` is an index before the memory, and what follows is
undefined.

`MessageStream` is the contract: the next message is handed over whole, or the
request fails for good. The code relies on prefixes that arrive whole and nothing
ensures it, so the refinement treats a cut prefix as a failure: `cut` is history, and
`intact` has the messages handed over before that. `Whole == INSTANCE MessageStream
WITH sent <- stream, handed <- intact, failed <- failed \/ cut`; `NewMessage` and
`MoreOfMessage` are a `Hand` when nothing remains, `OutOfMemory`, `ErrorTrailer` and a
size read from a cut prefix are a `Fail`, the rest stutters.

### Accounts

*State.* `blockchain_id_hash` is the global that all instances share. `account` has
the fields of `aergo_account` that nonces depend on. `call` is the call that runs:
the library is sequential, so there is at most one, and it is about to fetch, or
waits for a status or a state, or has all it needs (`encode`). `leftStatus` and
`leftState` are requests that an error of curl left behind when their call returned:
they are answered while a later call waits, and then write to the global, or to the
account. A status answer is decoded straight into the global, so one that cannot be
decoded may fail with any hash in it (`Undecoded`), and the call goes on with that. `txs` and `mined` are the node's side. `heard`, `gaps`, `overlapped` and
`late` are history, with what a property has to except.

| Action | Code |
|---|---|
| `Transact`, `GetStatus`, `GetState` | the entry points, with the tests of `check_blockchain_id_hash` and `is_updated` |
| `StatusReply`, `StatusFails`, `LateStatus` | `handle_blockchain_status_response`, errors, a late answer |
| `NoKey`, `Fetch`, `StateReply`, `StateFails`, `LateState` | `aergo_get_account_state`, `handle_account_state_response` |
| `Sent`, `NotSent`, `NoBuffers` | the `Encode` functions: the nonce is taken, then signing, encoding and sending may fail |
| `Arrive`, `Lose`, `Mine`, `Answer`, `LateAnswer` | the node and the network (external) |

Transactions are sent asynchronously, which allows more orders than synchronous
ones.

### Ledger

*State.* `buffer` is the one buffer of `sendApduHidapi`: the packets of the command
first, overwritten one by one with those of the answer. A packet knows which chunk
or answer it belongs to, its sequence number and the length in the first packet;
bytes are left out. `filled` counts the reads, also those that timed out, because
`hid_read_timeout` returning 0 is taken for a packet. `Unwrap` and `StatusOf` give
all outcomes that memory nobody wrote may have. `inbox`, `outbox` and `signing` are
the device. `clean` is history: nothing of an earlier call was under way when this
one began, and none of its reads timed out.

| Action | Code |
|---|---|
| `Open`, `NotOpened` | `ledger_sign_transaction` or `ledger_get_account_public_key`, up to `hid_open` |
| `SendChunk` | the inner loop of `ledger_send_apdu`, `wrapCommandAPDU` and the writes |
| `Read`, `ReadTimeout`, `Incomplete`, `Malformed` | the read loop and `unwrapReponseAPDU` |
| `Complete` | the status, and whether and from where the loops go on |
| `Unplugged`, `PluggedIn` | an error of hidapi, with the device gone, or still there and perhaps with the chunk |
| `Accept`, `AcceptEmpty`, `Refuse`, `AskAgain` | the device with its user (external); `AcceptEmpty` answers the last chunk with a status and no data |

How often the device asks for the first chunk again, or answers without data, is not
bounded, as in the code. That only the last chunk is answered with data is an
assumption about the device's application.

### Conversions

A big number is its decimal digits; of a text, digits, the point, the minus and
other characters are told apart. `Transfer` is `aergo_transfer_str` with
`string_to_bignum`, `TransferInt` is `aergo_transfer_int`, `PrintBalance` is
`read_bignum_to_double` with `bignum_to_string`, up to the text. The caller gets
`atof` of it, a double of some 16 digits, which is not modelled. The arguments of a
call are written one by one (`StringArgument`, `NumberArgument`, `BlobArgument`,
`UnknownArgument`) between `BeginJson` and `EndJson`; `dsize` is the space the code
believes to be left, `top` what it really wrote. What they are compared with is a
definition of its own: the digit worth 10^(k - 18) of the text, and the JSON text.

A leading minus is dropped, and the magnitude is transferred. Integer parts of more
than 17 digits are left out: they overflow `integer[36]`, which is undefined.

The checks of `arguments_to_json` leave no room for the comma before an argument, the
closing quote, the bracket and the NUL, and a string is compared with `limit` only
after a character, thus never when it is empty. A JSON text that does not fit may
therefore be written past the end: by up to 3 bytes, and by 3 more for every empty
string, without bound in their number (`dsize` is then negative). `OverrunBounded`
says so; `ArgumentsExact` is about texts that do fit.

## Runs

| Run | Question | Bounds |
|---|---|---|
| `engine_async` | asynchronous transactions and subscriptions, with lost replies, undecodable messages, refused requests, handles that curl does not take and curl errors; what was accepted is reported | 2 calls, 2 receipt attempts, 6 structs, 1 fault |
| `engine_sync` | every synchronous kind, also `receipt = NULL`, mixed with asynchronous calls | 2 calls, 2 attempts, 6 structs, 1 fault |
| `engine_live` | synchronous calls of every kind, next to a subscription that never ends or a query: every call returns, unless what it waits for is not under way any more | 2 calls, 2 attempts, 6 structs, 1 fault |
| `sync_main_released` | refutes that a request is not used after it was invalidated (`socket.c:91`) | 1 call |
| `null_receipt_fetched` | refutes that `receipt = NULL` means no receipt is asked for (`aergo.c:1423`) | 1 call |
| `rejected_never_told` | refutes that an asynchronous caller gets a response before polling yields 0 (`transfer_async.c:59`) | 1 call |
| `true_without_receipt` | refutes that a synchronous call that returned true filled in the receipt (`contract_call.c:69`) | 1 call, 1 fault |
| `framing` | every chunking: copies inside the memory below 2 GiB, and until a prefix is cut implements `MessageStream` and leaves no whole message behind | streams of 1 to 3 messages with 0 to 2 bytes, chunks up to 7 bytes, `Base` 2: sizes modulo 16, an int from -8 to 7 |
| `split_prefix` | refutes that the size is read "on the first part" of a message (`socket.c:194`) | the same |
| `accounts` | nonces fresh, different, consecutive, executed; the hash the chain's, also after answers that cannot be decoded | 1 account, 3 instances on 3 chains, a damaged hash, 2 transactions, 2 faults |
| `ledger` | what is returned as signed, the order of the chunks, the buffer, that calls return | 2 calls, 2 timeouts, 1 error, restarts without end; commands of 1 and 3 packets, data of 1 and 3 chunks |
| `conversions` | amounts digit by digit, argument lists against their JSON text, how far past the buffer the others are written | amounts of real length; 4 arguments in a buffer of 48 bytes |

Why the bounds are enough for the engine. Two calls give every pair of kinds, which
is what interferes: one request with the loop that waits for the other. Two receipt
attempts are the least with a retry and a last attempt; the code has ten and treats
the ones between alike. Six structs let two transactions use all their attempts (2 +
2 * 2). One fault can fall at every step; more of them combine only independent
requests. The proofs below do without the bounds.

What the runs show. With asynchronous calls alone no released struct is touched, a
transaction has one fetch at a time with its parent in the list, the callback comes
at most once, no fetch follows it, and when polling gives 0 without faults
everything accepted has been reported. With synchronous calls the same holds of
parents and callbacks and the nesting is bounded by the attempts, but the struct a
synchronous transaction waits for is released by the nested loop that fetched its
receipt, and the outer loop goes on to read it (`sync_main_released`). `engine_sync`
runs without errors of curl: after one, a nested loop leaves while the receipt's
transfer is still open.

`CallsReturn` is checked with synchronous transactions and their nested loops, with
a reply that is lost, a handle that curl does not take or an error of curl at any
step. It has one exception, `Forlorn`: what the loop waits for is not under way any
more. That is so after a nested loop released the main request of an outer one (the
flags that are then read may be any), and after a fault took the answer. Such a call
waits as long as any transfer is open or counted: next to a subscription, or for the
handle that curl did not take, for ever. No other call does. `TransfersCounted` says
by how much the counter is off then: by the handles that curl did not take.

Why the bounds of the others are enough. In `framing` a byte of the size has two
values instead of 256 and everything else is scaled with it: 16 sizes, of which the
upper half does not fit an int, and which wrap around with the prefix. A chunk of 7
bytes holds the end of a message, the next one and the beginning of a third; a
message falls into up to seven chunks, cut anywhere. In `accounts` two transactions
are what it takes for one to overtake, repeat or block the other, and faults fall at
every step of either; the other two instances are on an ordinary chain and on one
with a zero byte in front of its hash. Accounts interact only through the global
hash, and the proofs cover any number. In `ledger` the second call meets what the
first left; the last chunk of 514 bytes is so short that the command itself could
pass for an answer. In `conversions` the integer and fraction lengths are those next
to the limits of the buffers; the buffer of the arguments is scaled from 512 to 48
bytes, since the code only compares lengths with what is left, and four arguments
fill it.

What these runs show. Until a prefix is cut, every chunking hands over the stream's
messages. However prefixes are cut, no copy leaves the memory of a message whose size
was read as less than 2^31 (`CopyFits`); beyond, the counters are negative, and the
index of the copy may be. In `split_prefix` a part of the size is taken from bytes
that have not arrived, and the handler gets what is no message. Nonces differ, unless
the application asks for the state while transactions are under way, or a request for
it outlives its call (`overlapped`, `late`): then the nonce is set back to the node's
view and used again. They are consecutive, unless a call fails after it took one or a
transaction is lost or carried the hash of another chain (`gaps`). These exceptions
are what happens, and no property speaks against it. The hash is right unless an
answer held another: that of another instance's chain, or a damaged one, which stays
in the global although the answer was refused. A result the Ledger driver calls a
success is the device's answer for this very transaction, except when a read timed
out in this call or an answer to an earlier one is still under way. A call on the
device returns, unless the device answers 0x9001, or the last chunk with 0x9000 and
no data, again and again: the loops of `ledger_send_apdu` then go on for ever.

*Fairness.* `Accounts!FairSpec`: the node receives every transaction that is not
lost and goes on making blocks; nothing is assumed of the application or of the
library, which `AllMined` does not need. `Ledger!FairSpec`: the driver is sequential
code, and the user of the device decides; without the latter a call may wait for
ever. `CallReturns` assumes nothing of how often the device starts over, which is its
exception. `RequestEngine!FairSpec`, in `engine_async` and `engine_live`:
`Loop` is weakly fair: it is sequential code. `Poll` is weakly fair: the examples
poll in a loop. `Delivery` is strongly fair: the node answers every unary call, but
an answer is received only while `curl_multi_perform` runs, so it is enabled again
and again rather than all the time. Nothing is assumed of subscriptions, of the end
of a transfer, or of new calls.

Each property of a passing run has a mutant: an operator named `...Mutant` beside
the definition it would replace. `PROJECT.json` lists the pairs.

## Proofs

`RequestEngine_proofs` proves, for every value of the constants, `TypeCorrect`,
`TransfersAccounted`, `NoAnswerToReleased` and `FetchesBounded`. None of the four is
inductive. `Inv` adds `Numbering` (the list and the handles are of allocated
requests, so a new handle was not counted before), `HeldCounted` (`transfers` counts
the handles curl has together with those it did not take; they are apart, so
`TransfersCounted` is their sum) and `StackShape` (a loop is on the
stack exactly while one runs, and every loop but the outermost waits for the receipt
of a parent, so the write through `tx` on its return is typed). `AwaitedIsLive` is
preserved because `loc_exit` releases only what is processed and no subscription,
and a request without its answer is not processed: only the handler of its own
answer sets that flag (`NetworkDelivers`: an answer to r changes the progress of r
alone). For `BoundedFetches`, `BudgetInv` counts fetches against attempts
(`Budget`): a transaction that waits for its receipt has no more fetches, with the
one it may send next, than attempts were counted and one more, and never more than
`MaxReceiptAttempts`. `Ancestry` says that only transactions that were processed
have fetches, so a new request has none.

`RequestEngineFetches_proofs` is about receipt fetches where calls are mixed. It
assumes `Sequenced`: the application makes no synchronous call, or curl reports no
error. Either half alone suffices; with both a call whose nested loop an error ended
returns while its GetReceipt is outstanding, so that a parent is released before its
fetch: this is what TLC shows when `Sequenced` is dropped, and why `engine_sync`
runs without errors of curl. Three theorems share `FetchInv`: `FetchesHaveParents`,
`OneFetch` and `NestingBounded` (`FetchHasParent`, `OneFetchAtATime`,
`BoundedNesting`). They are proved together, because an answer to one fetch must not
take the parent from another. `Lineage` says that only an accepted transaction waits
for a receipt, that it stays in the list while it does, and that its fetches are
synchronous if it is, and `SyncShape` describes the stack of nested loops: an
outstanding synchronous fetch is what the innermost loop waits for (`FetchIsMain`),
an outstanding synchronous transaction (`CommitIsBase`) or one that waits for a
receipt (`PendingIsBase`) is what the outermost one waits for, all loops between
fetch for that transaction, each a receipt of its own (`NestedForBase`), and every
nested loop was paid for with a fetch (`NestingPaid`), of which `BoundedFetches`
bounds the number.

`AsyncNoUseAfterFree` is in the same module and assumes `AsyncOnly`: no synchronous
calls, none with `receipt = NULL`. A transaction that waits for a receipt is not
released, thus `request->parent` points to it, and without nested loops nobody holds
another pointer. `AsyncOnly` is needed: `sync_main_released` is a counterexample
without it.

`RequestEngineTold_proofs` proves `CallersToldOnce` and `CallersToldIsFinal`, with
synchronous calls, from `Sequenced`. `ToldInv` adds to `FetchInv` that a caller was
told only if its request is through (`ToldDone`): answered, not waiting for a
receipt, and no subscription. Whoever is told next is not through yet, being either
the request whose answer is outstanding or the waiting parent of a fetch
(`ToldNetwork`); steps outside of the network tell nobody, and only send fetches for
requests that wait (`LocalEvolves`).

The second half of the module proves `ZeroSettles` (`ZeroMeansSettled`) for every
value of the constants. The property holds only while `faults = 0`, an error of curl
is a fault, and `faults` never falls; so `SettledInv` is `faults = 0 =>
Faultless`, and within `Faultless` the invariants above hold without `Sequenced`
being assumed. What it adds: a request without its answer is with curl
(`NothingLost`), a transaction marked as being processed has a fetch that is
(`FetchUnderWay`), an asynchronous call the node granted was told or waits for its
receipt (`Reported`), success comes only with an answer (`SuccessIsAnswer`), and
when a loop has left, nothing waits to be fetched for and nothing that is through is
in the list (`LeftInOrder`).

`Framing_proofs` proves, for every set of streams, every even `Base` and every length
of chunks, four theorems; `FramingAssumption` says that no message and no chunk has
2 GiB. `CopyStaysInside` and `FramingTypes` are about every chunking. `Inv` is
`TypeOK` with `CopyFits`, that less than 2 GiB of the chunk are left, and that what
was allocated is an unsigned number. It is inductive because the two counters are
exact modulo 2^32: `CountsDown` shows it of `remaining_size`, also while it is
negative, and `CountsUp` of what is copied, which stays below the size that was read.
`ImplementsStream` (the refinement) and `NothingWaits` (`IdleMeansHanded`) hold until
a prefix is cut. `WholeInv` adds that what was handed over are the first messages in
order (`HandedInOrder`), that nothing follows a failure (`FailedIsClosed`), and, until
a prefix was cut (`Uncut`), that the bytes collected are those of the next message
(`Collecting`) and that the rest of a chunk begins at a message or continues one
(`ChunkLeft`); without the last the size read at `ptr` could be anything. `SizeIsRead`
shows that with a whole prefix `SizesRead` is the size that was sent, `CutFails` that
a cut one is a `Fail` of `MessageStream`.

`Accounts_proofs` proves `TypeCorrect` and `HashIsOfTheChain` (`RightChain`)
together, as `HashInv`: the type of a transaction that is sent depends on there
being a hash (`HashKnown`: from the test in `check_blockchain_id_hash` on there is
one, and no late answer takes it away), and `HashHeard` says that the global, and
the hash of every transaction, is one that some status answer held, decoded or not.

Its second half proves `NoncesNeverShared`, `NoncesStayFresh` and
`NoncesConsecutive` (`NoncesDiffer`, `NonceIsFresh`, `NoGaps`) from `NonceInv`. Two
of its parts are about the call: `StateKnown` (a call that takes a nonce has fetched
one) and `RepliesOld` (the nonce a GetState brings is one the chain had reached, and
a late one is of an account in `late`). `TameNumbered` is about accounts whose nonce
the application did not have set back: what is under way is past the chain and not
past the account, no two transactions share a nonce, the account is not behind the
chain, and while a state is awaited the chain stands still, thus the answer is
exactly the nonce of the last block. `NoGaps` needs none of the latter: a state that
comes in between only shortens the range of nonces it speaks about. Steps are
grouped by what they do to an account (`Elsewhere`, `Refetched`, a nonce taken, a
step of the node).

`Ledger_proofs` proves `LedgerTypes`, `LedgerBufferFits`, `LedgerInOrder` and
`LedgerSignedIsSent` (`TypeOK`, `BufferFits`, `InOrder`, `SignedIsSent`), for any
number of calls, restarts, answers without data, timeouts and errors of hidapi, any length of the data and
any answer that fits `out`. `LedgerAssumption` has `out` of at most 352 bytes, which
is what the six packets of the buffer carry (57 bytes and five times 59); the
callers in `ledger.c` have 120 and 43. `TypeInv` is about the buffer: chunks and
answers are shorter than that, so no read is past the sixth packet. `CleanInv` is
about the order. In a call that is `clean` (nothing of an earlier one was under way,
no read timed out), at most one message is under way: the chunk at `offset`, which
continues what the device has (`Waiting`), or the answer to it, some of whose
packets lie at the start of the buffer in their order while the others wait
(`Answered`). Therefore the length and the status that are read are those of this
answer, and a success after the last chunk means that the device has signed exactly
the data of this call.

`ConversionsArguments_proofs` proves `ArgumentsFit`, `ReservesAreSmall` and
`OverrunIsBounded` (`ArgumentsExact`, `SmallAccepted`, `OverrunBounded`) for any number of arguments and any buffer of at
least 28 bytes. The text is defined by a recursive function; that it has the value
its equation asks for (`JsonUpToParts`), and that it only grows (`JsonUpToType`), is
shown with a set of naturals that has 0 and every successor, thus is `Nat`
(`Inductive`, from `Least`), since the library's induction takes an operator.
`JsonInv` says that `dsize` is what `Room` makes of what was written, except before
the first argument, when it is two less than the buffer; and that what was written
is the text up to the next argument, if the whole of it fits. Then there is room for
the argument, since the text goes on for at least as long (`WritingFacts`), and
`snprintf` never cuts. If it is refused, what its type asks for exceeds what it
takes by so little that less than 15 bytes would be left over. The worst is a double
of 8 characters, for which the code asks 26: `"%f"` prints no finite one shorter,
and `ConversionsAssumption` leaves out the others, which are no JSON. `OverrunInv` is
for texts that do not fit as well: after an argument the text ends in the buffer, or
past it by three bytes for every string so far that is empty, and what follows adds
three more at most. A string that is not empty stops at `limit`, a number or a blob
begins only if what its type asks for is left.

`Conversions_proofs` proves `ConversionsTypes`, `AmountsAreExact`,
`IntegersAreExact` and `BalanceTextsAreExact` (`TypeOK`, `AmountExact`, `IntExact`,
`BalanceTextExact`) for texts and numbers of any length. `AmountInv` says where the
amount and its text come from; the work is in lemmas about the conversions, each
about the digit worth 10^(k - 18): cutting and filling up the fraction keeps it
(`ConcatenatedFacts`), so does dropping a minus (`TailDigits`, `UnsignedFacts`) or
leading zeros (`MagnitudeFacts`), printing two integers (`PrintIntFacts`) and
placing the point in the text of a balance (`AlignedFacts`). A text is refused for a character
that is no digit: it is worth at most 10^16, thus in the range that `AmountExact`
compares, because an integer part has at most 17 characters
(`ConversionsAssumption`).

Only model-checked: `GrantedIsTold`, `CallsReturn`, `AllMined` and `CallReturns`.
They are liveness under fairness and stay with TLC, since the prover does not handle
`ENABLED`. The theorems that assume `Sequenced` are not stated without it, because
TLC refutes them where nested loops meet errors of curl.

## Plan

Done: `RequestEngine`, `Framing` with its refinement, `Accounts`, `Ledger` and
`Conversions`, with all their safety properties proved. Left:

1. `LinkedList`: the pointer list refines append and remove on a sequence, also
   while the loop over it removes.
2. `AsyncContract`: pending, then called, silent or dropped, as an abstract
   specification that `RequestEngine` implements.
3. `Buffers`: the strings and blobs that handlers copy to the result structs, at
   their limits.

## Not modelled

The layout of protobuf messages, HTTP headers and TLS (curl, nanopb); wording of
errors and the texts in a receipt; the result buffers of queries (`aergo.c:479`
clips only longer messages, one of exactly that length is terminated past the end);
how doubles are printed and parsed (`"%f"`, and the `atof` that makes a double of
some 16 digits of a balance's text) and how the characters of arguments are printed;
the `next` pointers of the list. The vendored and generated code (mbedtls, nanopb,
`blockchain.pb.*`, SHA-256, base58) is most of the C files by size and has no model of its own,
the language wrappers forward every call, examples and builds have no logic of the
library. Callbacks that call the library again would re-enter `curl_multi_perform`,
which curl does not support. An amount with an integer part of more than 17 digits
is undefined behaviour and left out.
