------------------------------ MODULE Framing ------------------------------
(***************************************************************************)
(* How a request puts the messages of its transfer together again:         *)
(* server_response_callback (socket.c), which curl calls with chunks of    *)
(* any length, and server_header_callback.                                 *)
(*                                                                         *)
(* A message is a prefix of five bytes, a zero and the size of the content *)
(* in big endian, and the content.  The callback reads the size where it   *)
(* expects a message to begin, allocates the message and copies chunks to  *)
(* it until nothing remains; then it calls the handler, and starts over    *)
(* (loc_again) if the chunk is longer than that.                           *)
(*                                                                         *)
(* A chunk that ends within a prefix makes it read, as a part of the size, *)
(* whatever is behind the chunk.  What was handed over before that is kept *)
(* apart, in intact: it is what MessageStream is compared with.            *)
(***************************************************************************)
EXTENDS Integers, Sequences

CONSTANTS
  Streams,   \* the streams a node may send, as the ends of their messages
  MaxChunk,  \* bound: the longest chunk curl delivers at once
  Base       \* how many values a byte of the size field has, 256

Prefix == 5
Word == Base * Base * Base * Base  \* what an unsigned int is modulo, and ...
Half == Word \div 2                \* ... the number from which an int is negative

\* A node sends no message of 2 GiB, and curl passes on 16 KiB at once.
ASSUME FramingAssumption ==
  /\ Base \in Nat /\ Base > 0 /\ Base % 2 = 0
  /\ Streams \subseteq Seq(Nat)
  /\ \A s \in Streams : \A i \in 1 .. Len(s) :
       /\ s[i] >= Prefix
       /\ \A j \in 1 .. i - 1 : s[i] >= s[j] + Prefix
       /\ s[i] < Half + (IF i = 1 THEN 0 ELSE s[i - 1])
  /\ MaxChunk \in Nat /\ MaxChunk < Half

NULL == 0

VARIABLES
  stream,          \* where the messages of this transfer end
  arrived,         \* how many bytes curl has passed on
  pc,              \* idle between callbacks, again at loc_again, or closed;
                   \* endless and undefined are explained where they are set
  ptr,             \* the position in the stream before *ptr
  size,            \* the bytes from ptr to the end of the chunk
  allocated,       \* NULL, or the size that was given to malloc
  response,        \* the bytes copied, by position in the stream
  response_size,   \* how many, and ...
  received,        \* ... what the handler is told, and ...
  remaining_size,  \* ... what is missing, each of them an int
  handed,          \* the messages the handler was called with
  failed,          \* whether process_request_error was called
  cut,             \* history: whether a size was read from a cut prefix, ...
  intact           \* ... and the messages handed over before that

ints == <<response_size, received, remaining_size>>
history == <<cut, intact>>
vars == <<stream, arrived, pc, ptr, size, allocated, response, ints, handed,
          failed, history>>

Whole == INSTANCE MessageStream
           WITH sent <- stream, handed <- intact, failed <- failed \/ cut

Length == IF stream = << >> THEN 0 ELSE stream[Len(stream)]

Init ==
  /\ stream \in Streams
  /\ arrived = 0
  /\ pc = "idle"
  /\ ptr = 0
  /\ size = 0
  /\ allocated = NULL
  /\ response = << >>
  /\ response_size = 0 /\ received = 0 /\ remaining_size = 0
  /\ handed = << >>
  /\ failed = FALSE
  /\ cut = FALSE /\ intact = << >>

----------------------------------------------------------------------------
(* Definitions named ...Mutant are plausible mistakes, as in RequestEngine. *)

\* curl calls server_response_callback with the next n bytes.
Callback(n) ==
  /\ pc = "idle"
  /\ arrived + n <= Length
  /\ pc' = "again"
  /\ ptr' = arrived
  /\ size' = n
  /\ arrived' = arrived + n
  /\ UNCHANGED <<stream, allocated, response, ints, handed, failed, history>>

\* What the bytes of the size field that are not in the chunk count together.
Unread ==
  LET count == <<Word, Base * Base * Base, Base * Base, Base, 1>>
  IN count[IF size < Prefix THEN size ELSE Prefix]

(***************************************************************************)
(* copy_be32 from ptr + 1: if a message begins here, its size as far as it *)
(* is in the chunk; else any other bytes.                                  *)
(***************************************************************************)
SizesRead ==
  {s \in 0 .. Word - 1 :
     \A i \in 1 .. Len(stream) :
       Whole!Start(i) = ptr => s \div Unread = (stream[i] - ptr - Prefix) \div Unread}

CutHere == cut' = (cut \/ size < Prefix)

\* the counters are taken to be as wide as the sizes
AsIntMutant(x) == x

\* What an int is after the assignment of x, or of an unsigned x.
AsInt(x) == IF x >= Half THEN x - Word ELSE IF x < -Half THEN x + Word ELSE x

\* A negative remaining_size is compared as a size_t, beyond any chunk.
ToProcess(wanted) == IF wanted >= 0 /\ size > wanted THEN wanted ELSE size

\* received is not set back, as if a request only ever got one message
ReleasedMutant == response_size' = 0 /\ received' = received + ToProcess(allocated)

Released == response_size' = 0 /\ received' = 0

\* the rest of the chunk is left, as if it could only hold one message
AgainMutant(rest) == "idle"

Again(rest) == IF rest > 0 THEN "again" ELSE "idle"

\* the content only: msg_size += 5 is missing
MsgSizeMutant(content) == content

\* msg_size += 5, which wraps around.
MsgSize(content) ==
  IF content + Prefix < Word THEN content + Prefix ELSE content + Prefix - Word

(***************************************************************************)
(* The loop from memcpy on, for a message that was given total bytes and   *)
(* misses wanted of them.  The handler is told that response has received  *)
(* bytes; what it does if that is negative is undefined.                   *)
(***************************************************************************)
Copy(total, wanted) ==
  LET n == ToProcess(wanted)
      count == AsInt(received + n)
      filled == response \o [k \in 1 .. n |-> ptr + k]
  IN /\ remaining_size' = AsInt(wanted - n)
     /\ size' = size - n
     /\ IF remaining_size' = 0 /\ count >= 0
        THEN /\ handed' = Append(handed, SubSeq(filled, 1, count))
             /\ allocated' = NULL
             /\ response' = << >>
             /\ Released
             /\ ptr' = ptr + n
             /\ pc' = Again(size - n)
        ELSE /\ allocated' = total
             /\ response' = filled
             /\ response_size' = AsInt(response_size + n)
             /\ received' = count
             /\ pc' = IF remaining_size' = 0 THEN "undefined" ELSE "idle"
             /\ UNCHANGED <<handed, ptr>>
     /\ intact' = IF cut' THEN intact ELSE handed'
     /\ UNCHANGED <<stream, arrived, failed>>

\* A new message: its size is read, and memory for all of it allocated.
NewMessage ==
  /\ pc = "again"
  /\ allocated = NULL
  /\ CutHere
  /\ \E s \in SizesRead : MsgSize(s) > 0 /\ Copy(MsgSize(s), MsgSize(s))

\* If msg_size has become 0, then the handler is called with no byte and the
\* size is read again at the same place, without end.
NoSize ==
  /\ pc = "again"
  /\ allocated = NULL
  /\ \E s \in SizesRead : MsgSize(s) = 0
  /\ CutHere
  /\ pc' = "endless"
  /\ UNCHANGED <<stream, arrived, ptr, size, allocated, response, ints, handed,
                 failed, intact>>

\* A message of which this is not the first chunk.
MoreOfMessage ==
  /\ pc = "again"
  /\ allocated # NULL
  /\ response_size >= 0
  /\ UNCHANGED cut
  /\ Copy(allocated, remaining_size)

\* The index of memcpy is negative: what it overwrites is undefined.
Astray ==
  /\ pc = "again"
  /\ allocated # NULL
  /\ response_size < 0
  /\ pc' = "undefined"
  /\ UNCHANGED <<stream, arrived, ptr, size, allocated, response, ints, handed,
                 failed, history>>

\* malloc returned NULL: the callback returns 0 and curl ends the transfer.
OutOfMemory ==
  /\ pc = "again"
  /\ allocated = NULL
  /\ \E s \in SizesRead :
       /\ remaining_size' = AsInt(MsgSize(s) - ToProcess(MsgSize(s)))
       /\ size' = size - ToProcess(MsgSize(s))
  /\ failed' = TRUE
  /\ pc' = "closed"
  /\ UNCHANGED <<stream, arrived, ptr, allocated, response, response_size,
                 received, handed, history>>

\* server_header_callback on a non-empty grpc-message, which is a trailer:
\* no data follows it.
ErrorTrailer ==
  /\ pc = "idle"
  /\ failed' = TRUE
  /\ pc' = "closed"
  /\ UNCHANGED <<stream, arrived, ptr, size, allocated, response, ints, handed,
                 history>>

\* The transfer ends, at the end of the stream or early.
Close ==
  /\ pc = "idle"
  /\ pc' = "closed"
  /\ UNCHANGED <<stream, arrived, ptr, size, allocated, response, ints, handed,
                 failed, history>>

Closed == pc \in {"closed", "endless", "undefined"} /\ UNCHANGED vars

Next ==
  \/ \E n \in 1 .. MaxChunk : Callback(n)
  \/ NewMessage \/ NoSize \/ MoreOfMessage \/ Astray \/ OutOfMemory
  \/ ErrorTrailer \/ Close \/ Closed

Spec == Init /\ [][Next]_vars

----------------------------------------------------------------------------
Int32 == -Half .. Half - 1

TypeOK ==
  /\ stream \in Streams
  /\ arrived \in Nat
  /\ pc \in {"idle", "again", "closed", "endless", "undefined"}
  /\ ptr \in Nat
  /\ size \in Nat
  /\ allocated \in Nat
  /\ response \in Seq(Nat)
  /\ response_size \in Int32
  /\ received \in Int32
  /\ remaining_size \in Int32
  /\ handed \in Seq(Seq(Nat))
  /\ failed \in BOOLEAN
  /\ cut \in BOOLEAN
  /\ intact \in Seq(Seq(Nat))

\* remaining_size as the unsigned number it was assigned from.
Missing == IF remaining_size < 0 THEN remaining_size + Word ELSE remaining_size

\* memcpy never writes outside of the memory allocated for the message, and
\* the handler is told how much there is, however the chunks fall and whatever
\* the size was read as, if it is less than 2^31; from there on what is copied,
\* what is missing and the allocation still agree, but as an index the int
\* goes wrong (socket.c:204, 222, 227-229).
CopyFits ==
  /\ IF allocated = NULL
     THEN response = << >> /\ response_size = 0 /\ received = 0
     ELSE /\ Len(response) + Missing = allocated
          /\ response_size = AsInt(Len(response))
          /\ received = response_size
          /\ pc # "undefined" => Missing > 0
  /\ pc = "undefined" => allocated >= Half

\* Between two callbacks every message that arrived as a whole was handed to
\* the handler, as long as no prefix was cut: none waits for the chunk after it
\* (the goto loc_again).
IdleMeansHanded ==
  pc = "idle" /\ ~cut =>
    \A i \in 1 .. Len(stream) : stream[i] <= arrived => Len(handed) >= i

\* Until a prefix is cut the handler is called with the messages the node sent,
\* each whole, in order, and not after an error: the callback implements
\* MessageStream, in which a cut prefix counts as a failure.
Implements == Whole!Spec

\* What the comments "gets the size of the msg on the first part" and "is
\* there the whole message?" say (socket.c:194, 231): what the handler is
\* called with is the next message of the stream, also if a prefix arrives
\* in two chunks.
WholeMessages ==
  \A i \in 1 .. Len(handed) :
    i <= Len(stream) /\ handed[i] = Whole!Message(i)
=============================================================================
