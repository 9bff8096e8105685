--------------------------- MODULE Ledger_proofs ----------------------------
(***************************************************************************)
(* Proofs about Ledger, for every job whose answer fits into the buffer    *)
(* and every number of calls, timeouts and faults.                         *)
(***************************************************************************)
EXTENDS Ledger, SequenceTheorems, TLAPS

----------------------------------------------------------------------------
(* Packets.                                                                *)

(***************************************************************************)
(* A message fits into its packets with all their headers, and one of at   *)
(* most 352 bytes into the six that the buffer has room for.               *)
(***************************************************************************)
LEMMA PacketsBounds ==
  ASSUME NEW length \in Nat
  PROVE  /\ Packets(length) \in Nat \ {0}
         /\ length + 7 <= PacketSize * Packets(length)
         /\ length <= 352 => Packets(length) <= 6
<1>1. CASE length <= 57
  BY <1>1 DEF Packets, PacketSize
<1>2. CASE length > 57
  <2> DEFINE q == (length + 1) \div 59
  <2>1. q \in Nat /\ 59 * q <= length + 1 /\ length + 1 < 59 * q + 59
    OBVIOUS
  <2>2. Packets(length) = 1 + q
    BY <1>2 DEF Packets, PacketSize
  <2> HIDE DEF q
  <2> QED
    BY <1>2, <2>1, <2>2 DEF PacketSize
<1> QED
  BY <1>1, <1>2

\* The buffer has room for six packets.
LEMMA SixSlots == Slots = 1 .. 6
  BY DEF Slots, BufferSize, PacketSize

(***************************************************************************)
(* What the messages in flight are: chunks to the device, and packets of   *)
(* chunks or answers in the buffer.                                        *)
(***************************************************************************)
ChunkType ==
  [kind: {"chunk"}, txn: Nat, from: Nat, to: Nat, first: BOOLEAN, last: BOOLEAN,
   answer: Nat \ {0, 1, 2}]

AnswerType == [kind: {"answer"}, txn: Nat, to: Nat, last: BOOLEAN, sw: Sws]

PacketType == [of: ChunkType \cup AnswerType, seq: Nat, length: Nat \ {0, 1}]

LEMMA WrapType ==
  ASSUME NEW body \in ChunkType \cup AnswerType, NEW length \in Nat \ {0, 1}
  PROVE  /\ Wrap(body, length) \in Seq(PacketType)
         /\ Len(Wrap(body, length)) = Packets(length)
         /\ DOMAIN Wrap(body, length) = 1 .. Packets(length)
         /\ \A k \in 1 .. Packets(length) :
              Wrap(body, length)[k] = [of |-> body, seq |-> k - 1, length |-> length]
<1>1. Packets(length) \in Nat
  BY PacketsBounds
<1>2. \A k \in 1 .. Packets(length) :
        [of |-> body, seq |-> k - 1, length |-> length] \in PacketType
  BY <1>1 DEF PacketType
<1> QED
  BY <1>1, <1>2 DEF Wrap

----------------------------------------------------------------------------
(* Types, and reads inside the buffer.                                     *)

(***************************************************************************)
(* The strengthening of TypeOK and BufferFits: with the types of what is   *)
(* in flight, and a packet read before the buffer is parsed.               *)
(***************************************************************************)
TypeInv ==
  /\ calls \in 0 .. MaxCalls
  /\ job \in Jobs
  /\ pc \in {"idle", "send", "read", "parse"}
  /\ offset \in 0 .. job.length - 1
  /\ buffer \in [Slots -> PacketType \cup {Nothing}]
  /\ filled \in 0 .. 6
  /\ pc = "read" => filled < 6
  /\ pc = "parse" => filled > 0
  /\ inbox \in Seq(ChunkType)
  /\ confused \in BOOLEAN
  /\ outbox \in Seq(PacketType)
  /\ returned.sw \in Sws
  /\ returned.result \in Int /\ returned.result >= -1
  /\ clean \in BOOLEAN

LEMMA JobType ==
  ASSUME NEW j \in Jobs
  PROVE  /\ j.length \in Nat \ {0} /\ j.out \in 0 .. 352
         /\ j.answer \in Nat /\ 2 < j.answer /\ j.answer <= j.out
  BY LedgerAssumption

\* The next chunk is a part of the transaction that is not empty and fits into
\* one APDU.
LEMMA ChunkFacts ==
  ASSUME TypeInv
  PROVE  /\ Chunk \in ChunkType
         /\ Chunk.txn = calls /\ Chunk.from = offset /\ Chunk.answer = job.answer
         /\ Chunk.first = (offset = 0)
         /\ Chunk.last = (Chunk.to = job.length)
         /\ Chunk.to \in offset + 1 .. job.length
         /\ Chunk.to - Chunk.from <= 250
<1>1. /\ job.length \in Nat \ {0} /\ offset \in 0 .. job.length - 1 /\ calls \in Nat
      /\ job.answer \in Nat \ {0, 1, 2}
  BY JobType, LedgerAssumption DEF TypeInv
<1>2. PICK to \in offset + 1 .. job.length :
        /\ to - offset <= 250
        /\ to = IF job.length - offset > ChunkSize THEN offset + ChunkSize ELSE job.length
  BY <1>1 DEF ChunkSize
<1>3. Chunk = [kind |-> "chunk", txn |-> calls, from |-> offset, to |-> to,
               first |-> offset = 0, last |-> to = job.length, answer |-> job.answer]
  BY <1>2 DEF Chunk
<1>4. offset \in Nat /\ to \in Nat
  BY <1>1, <1>2
<1> QED
  BY <1>1, <1>2, <1>3, <1>4 DEF ChunkType

(***************************************************************************)
(* What comes of the packets read so far: an answer that is incomplete     *)
(* leaves room for another packet, one that is complete was read in full.  *)
(***************************************************************************)
LEMMA UnwrapFacts ==
  ASSUME TypeInv, pc = "parse"
  PROVE  /\ 0 \in Unwrap(filled) => filled < 6
         /\ \A length \in Unwrap(filled) \ {-1, 0} :
              /\ buffer[1] \in PacketType /\ length = buffer[1].length
              /\ length \in Nat \ {0, 1}
              /\ Packets(length) <= filled
<1>1. filled \in 1 .. 6 /\ job.out \in 0 .. 352 /\ 1 \in Slots
  BY JobType, SixSlots DEF TypeInv
<1>2. CASE buffer[1] = Nothing \/ FALSE \in InSequence(1) \/ buffer[1].length > job.out
  <2>1. Unwrap(filled) = {-1}
    BY <1>2 DEF Unwrap
  <2> QED
    BY <2>1
<1>3. CASE ~(buffer[1] = Nothing \/ FALSE \in InSequence(1) \/ buffer[1].length > job.out)
  <2>1. buffer[1] \in PacketType
    BY <1>1, <1>3 DEF TypeInv
  <2>2. PICK length \in Nat \ {0, 1} : length = buffer[1].length
    BY <2>1 DEF PacketType
  <2>3. length <= 352
    <3>1. ~(length > job.out)
      BY <1>3, <2>2
    <3> QED
      BY <1>1, <3>1
  <2>4. /\ Packets(length) \in Nat \ {0} /\ Packets(length) <= 6
        /\ length + 7 <= 64 * Packets(length)
    BY <2>2, <2>3, PacketsBounds DEF PacketSize
  <2>5. CASE 64 * filled < 7 + length
    <3>1. Unwrap(filled) = {0}
      BY <1>3, <2>2, <2>5 DEF Unwrap, PacketSize
    <3>2. filled < 6
      BY <1>1, <2>4, <2>5
    <3> QED
      BY <3>1, <3>2
  <2>6. CASE ~(64 * filled < 7 + length)
    <3>1. Unwrap(filled) \subseteq {-1, IF Packets(length) <= filled THEN length ELSE 0}
      BY <1>3, <2>2, <2>6 DEF Unwrap, PacketSize
    <3>2. CASE Packets(length) <= filled
      BY <2>1, <2>2, <3>1, <3>2
    <3>3. CASE ~(Packets(length) <= filled)
      BY <1>1, <2>4, <3>1, <3>3
    <3> QED
      BY <3>2, <3>3
  <2> QED
    BY <2>5, <2>6
<1> QED
  BY <1>2, <1>3

\* The status is one of the three, also where it is taken from other bytes.
LEMMA StatusType ==
  ASSUME TypeInv, pc = "parse", NEW length \in Unwrap(filled) \ {-1, 0},
         NEW sw \in StatusOf(Parts(length))
  PROVE  sw \in Sws
<1>1. CASE \E a \in Parts(length) : Parts(length) = {a} /\ a.kind = "answer"
  <2>1. PICK a : Parts(length) = {a} /\ a.kind = "answer"
    BY <1>1
  <2>2. buffer[1] \in PacketType /\ 1 \in 1 .. Packets(length)
    BY UnwrapFacts, PacketsBounds
  <2>3. a = buffer[1].of
    BY <2>1, <2>2 DEF Parts
  <2>4. a.sw \in Sws
    BY <2>1, <2>2, <2>3 DEF PacketType, AnswerType, ChunkType
  <2> QED
    BY <1>1, <2>1, <2>4 DEF StatusOf
<1>2. CASE ~ \E a \in Parts(length) : Parts(length) = {a} /\ a.kind = "answer"
  BY <1>2 DEF StatusOf
<1> QED
  BY <1>1, <1>2

LEMMA TypeInit == Init => TypeInv
<1> SUFFICES ASSUME Init PROVE TypeInv
  OBVIOUS
<1>1. 0 \in 0 .. MaxCalls /\ 0 \in 0 .. job.length - 1
  BY JobType, LedgerAssumption DEF Init
<1>2. buffer \in [Slots -> PacketType \cup {Nothing}]
  BY DEF Init
<1>3. inbox \in Seq(ChunkType) /\ outbox \in Seq(PacketType)
  BY DEF Init
<1>4. returned.sw \in Sws /\ returned.result \in Int /\ returned.result >= -1
  BY DEF Init, Sws
<1>5. calls \in 0 .. MaxCalls /\ offset \in 0 .. job.length - 1 /\ filled \in 0 .. 6
  BY <1>1 DEF Init
<1>6. job \in Jobs /\ pc = "idle" /\ confused = FALSE /\ clean = TRUE
  BY DEF Init
<1> QED
  BY <1>2, <1>3, <1>4, <1>5, <1>6 DEF TypeInv

\* A call begins, or fails to.
LEMMA TypeOpen ==
  ASSUME TypeInv, (\E j \in Jobs : Open(j)) \/ NotOpened
  PROVE  TypeInv'
<1>1. calls' \in 0 .. MaxCalls
  <2>1. calls < MaxCalls /\ calls' = calls + 1
    BY DEF Open, NotOpened
  <2>2. MaxCalls \in Nat /\ calls \in 0 .. MaxCalls
    BY LedgerAssumption DEF TypeInv
  <2> QED
    BY <2>1, <2>2
<1>2. ASSUME NEW j \in Jobs, Open(j)
      PROVE  TypeInv'
  <2>1. 0 \in 0 .. j.length - 1 /\ << >> \in Seq(PacketType)
    BY JobType
  <2> QED
    BY <1>1, <1>2, <2>1 DEF TypeInv, Open
<1>3. CASE NotOpened
  BY <1>1, <1>3 DEF TypeInv, NotOpened, Return, device, Sws
<1> QED
  BY <1>2, <1>3

LEMMA TypeSend ==
  ASSUME TypeInv, SendChunk
  PROVE  TypeInv'
<1>1. Chunk \in ChunkType /\ Header + Chunk.to - Chunk.from \in Nat \ {0, 1}
  BY ChunkFacts DEF Header, ChunkType
<1>2. PICK wrapped \in Seq(PacketType) :
        buffer' = [k \in Slots |-> IF k \in DOMAIN wrapped THEN wrapped[k] ELSE Nothing]
  BY <1>1, WrapType DEF SendChunk
<1>3. buffer' \in [Slots -> PacketType \cup {Nothing}]
  BY <1>2
<1>4. inbox' \in Seq(ChunkType)
  BY <1>1, AppendProperties DEF TypeInv, SendChunk
<1> QED
  BY <1>3, <1>4 DEF TypeInv, SendChunk, bounds

LEMMA TypeRead ==
  ASSUME TypeInv, Read \/ ReadTimeout \/ Unplugged \/ PluggedIn
  PROVE  TypeInv'
<1>1. CASE Read
  <2>1. filled \in 0 .. 5 /\ filled + 1 \in Slots
    BY <1>1, SixSlots DEF TypeInv, Read
  <2>2. Head(outbox) \in PacketType /\ Tail(outbox) \in Seq(PacketType)
    BY <1>1, HeadTailProperties DEF TypeInv, Read
  <2>3. buffer' \in [Slots -> PacketType \cup {Nothing}]
    BY <1>1, <2>1, <2>2 DEF TypeInv, Read
  <2>4. filled' \in 1 .. 6
    BY <1>1, <2>1 DEF Read
  <2> QED
    BY <1>1, <2>2, <2>3, <2>4 DEF TypeInv, Read, bounds
<1>2. CASE ReadTimeout
  <2>1. filled' \in 1 .. 6
    BY <1>2 DEF TypeInv, ReadTimeout
  <2>2. UNCHANGED <<calls, job, offset, buffer, inbox, confused, outbox, returned>>
    BY <1>2 DEF ReadTimeout, device
  <2>3. clean' \in BOOLEAN /\ pc' = "parse"
    BY <1>2 DEF ReadTimeout
  <2> QED
    BY <2>1, <2>2, <2>3 DEF TypeInv
<1>3. CASE Unplugged \/ PluggedIn
  <2>1. << >> \in Seq(PacketType) /\ << >> \in Seq(ChunkType)
    OBVIOUS
  <2>2. Append(inbox, Chunk) \in Seq(ChunkType)
    BY ChunkFacts, AppendProperties DEF TypeInv
  <2>3. inbox' \in Seq(ChunkType) /\ outbox' \in Seq(PacketType)
    BY <1>3, <2>1, <2>2 DEF TypeInv, Unplugged, PluggedIn
  <2>4. HidError
    BY <1>3 DEF Unplugged, PluggedIn
  <2> QED
    BY <2>3, <2>4 DEF TypeInv, HidError, Return, Sws
<1> QED
  BY <1>1, <1>2, <1>3

LEMMA TypeParse ==
  ASSUME TypeInv, Incomplete \/ Malformed \/ Complete
  PROVE  TypeInv'
<1>1. CASE Incomplete
  BY <1>1, UnwrapFacts DEF TypeInv, Incomplete, device, bounds
<1>2. CASE Malformed
  BY <1>2 DEF TypeInv, Malformed, Return, device, bounds, Sws
<1>3. CASE Complete
  <2>1. PICK length \in Unwrap(filled) \ {-1, 0} :
          \E sw \in StatusOf(Parts(length)) :
            IF Again(length - 2, sw)
            THEN /\ offset' = Resume(sw)
                 /\ pc' = "send"
                 /\ UNCHANGED returned
            ELSE /\ Return(length - 2, sw, Parts(length))
                 /\ UNCHANGED offset
    BY <1>3 DEF Complete
  <2>2. PICK sw \in StatusOf(Parts(length)) :
            IF Again(length - 2, sw)
            THEN /\ offset' = Resume(sw)
                 /\ pc' = "send"
                 /\ UNCHANGED returned
            ELSE /\ Return(length - 2, sw, Parts(length))
                 /\ UNCHANGED offset
    BY <2>1
  <2>3. pc = "parse" /\ UNCHANGED <<calls, job, buffer, filled, device, clean, bounds>>
    BY <1>3 DEF Complete
  <2>4. length \in Nat \ {0, 1} /\ sw \in Sws
    BY <2>3, UnwrapFacts, StatusType
  <2>5. Resume(sw) \in 0 .. job.length - 1
    <3>1. job.length \in Nat \ {0} /\ offset \in Nat
      BY JobType DEF TypeInv
    <3>2. Chunk.to \in offset + 1 .. job.length
      BY ChunkFacts
    <3> QED
      BY <3>1, <3>2 DEF Resume, NextOffset
  <2>6. CASE Again(length - 2, sw)
    BY <2>2, <2>3, <2>5, <2>6 DEF TypeInv, device
  <2>7. CASE ~Again(length - 2, sw)
    BY <2>2, <2>3, <2>4, <2>7 DEF TypeInv, device, Return
  <2> QED
    BY <2>6, <2>7
<1> QED
  BY <1>1, <1>2, <1>3

(***************************************************************************)
(* What the device sends for a chunk: its answer is of n bytes, which are  *)
(* the status alone or what the last chunk was to get.                     *)
(***************************************************************************)
AnswerTo(c, sw) ==
  [kind |-> "answer", txn |-> c.txn, to |-> c.to, last |-> c.last, sw |-> sw]

MayAnswer(c, sw, n) == n = 2 \/ (sw = SwOK /\ c.last /\ n = c.answer)

DeviceStep(c, sw, n) ==
  /\ MayAnswer(c, sw, n)
  /\ inbox' = Tail(inbox)
  /\ outbox' = outbox \o Wrap(AnswerTo(c, sw), n)
  /\ UNCHANGED <<calls, job, pc, offset, buffer, filled, returned, clean>>
  /\ sw = SwOK => signing' = [txn |-> c.txn, to |-> c.to]
  /\ confused' = (confused \/ (clean /\ ~Continues(c))) \/ confused' = confused

LEMMA DeviceAnswers ==
  ASSUME TypeInv, Device
  PROVE  /\ inbox # << >> /\ Head(inbox) \in ChunkType
         /\ \E sw \in Sws, n \in Nat : DeviceStep(Head(inbox), sw, n)
<1>1. inbox # << >> /\ Head(inbox) \in ChunkType
  BY HeadTailProperties DEF Device, TypeInv
<1>2. SwOK # SwRestart /\ SwOK # SwError /\ {SwOK, SwRestart, SwError} = Sws
  BY DEF Sws, SwOK, SwRestart, SwError
<1>3. PICK c : /\ c = Head(inbox)
               /\ Accept(c) \/ AcceptEmpty(c) \/ Refuse(c) \/ AskAgain(c)
  BY DEF Device
<1>4. CASE Accept(c)
  <2>1. DeviceStep(c, SwOK, IF c.last THEN c.answer ELSE 2)
    BY <1>4 DEF Accept, Answers, DeviceStep, AnswerTo, MayAnswer
  <2>2. (IF c.last THEN c.answer ELSE 2) \in Nat
    BY <1>1, <1>3 DEF ChunkType
  <2> QED
    BY <1>1, <1>2, <1>3, <2>1, <2>2
<1>5. CASE AcceptEmpty(c)
  <2>1. DeviceStep(c, SwOK, 2)
    BY <1>5 DEF AcceptEmpty, Answers, DeviceStep, AnswerTo, MayAnswer
  <2> QED
    BY <1>1, <1>2, <1>3, <2>1
<1>6. CASE Refuse(c)
  <2>1. DeviceStep(c, SwError, 2)
    BY <1>2, <1>6 DEF Refuse, Answers, DeviceStep, AnswerTo, MayAnswer
  <2> QED
    BY <1>1, <1>2, <1>3, <2>1
<1>7. CASE AskAgain(c)
  <2>1. DeviceStep(c, SwRestart, 2)
    BY <1>2, <1>7 DEF AskAgain, Answers, DeviceStep, AnswerTo, MayAnswer
  <2> QED
    BY <1>1, <1>2, <1>3, <2>1
<1> QED
  BY <1>3, <1>4, <1>5, <1>6, <1>7

LEMMA AnswerTyped ==
  ASSUME NEW c \in ChunkType, NEW sw \in Sws, NEW n, MayAnswer(c, sw, n)
  PROVE  AnswerTo(c, sw) \in AnswerType /\ n \in Nat \ {0, 1}
  BY DEF AnswerTo, MayAnswer, AnswerType, ChunkType

LEMMA TypeDevice ==
  ASSUME TypeInv, Device
  PROVE  TypeInv'
<1>1. PICK sw \in Sws, n \in Nat : DeviceStep(Head(inbox), sw, n)
  BY DeviceAnswers
<1>2. inbox # << >> /\ Head(inbox) \in ChunkType
  BY DeviceAnswers
<1>3. inbox' \in Seq(ChunkType)
  BY <1>1, <1>2, HeadTailProperties DEF DeviceStep, TypeInv
<1>4. outbox' \in Seq(PacketType)
  BY <1>1, <1>2, AnswerTyped, WrapType, ConcatProperties DEF DeviceStep, TypeInv
<1> QED
  BY <1>1, <1>3, <1>4 DEF DeviceStep, TypeInv

LEMMA TypeInvariance == Spec => []TypeInv
<1>1. TypeInv /\ [Next]_vars => TypeInv'
  <2> SUFFICES ASSUME TypeInv, [Next]_vars PROVE TypeInv'
    OBVIOUS
  <2>1. CASE UNCHANGED vars
    BY <2>1 DEF TypeInv, vars
  <2> QED
    BY <2>1, TypeOpen, TypeSend, TypeRead, TypeParse, TypeDevice DEF Next, Library
<1> QED
  BY TypeInit, <1>1, PTL DEF Spec

(***************************************************************************)
(* Every variable has its type, and offset stays inside the data: also     *)
(* after a restart, and after the last chunk when the loop begins again.   *)
(***************************************************************************)
THEOREM LedgerTypes == Spec => []TypeOK
<1>1. TypeInv => TypeOK
  <2> SUFFICES ASSUME TypeInv PROVE TypeOK
    OBVIOUS
  <2>1. DOMAIN buffer = Slots /\ Len(buffer) = 6
    BY SixSlots DEF TypeInv
  <2> QED
    BY <2>1 DEF TypeInv, TypeOK
<1> QED
  BY TypeInvariance, <1>1, PTL

(***************************************************************************)
(* Whatever the device sends and however many reads time out, neither a    *)
(* command nor an answer is written over the end of the buffer of 400      *)
(* bytes: as long as what fits into out would fit into it.                 *)
(***************************************************************************)
THEOREM LedgerBufferFits == Spec => []BufferFits
<1>1. TypeInv => BufferFits
  <2> SUFFICES ASSUME TypeInv PROVE BufferFits
    OBVIOUS
  <2>1. Chunk.from \in Nat /\ Chunk.to \in Nat
        /\ Chunk.to - Chunk.from \in Nat /\ Chunk.to - Chunk.from <= 250
    BY ChunkFacts DEF ChunkType
  <2>2. Header + Chunk.to - Chunk.from \in 0 .. 255
    BY <2>1 DEF Header
  <2>3. Packets(Header + Chunk.to - Chunk.from) \in Slots
    <3>1. PICK length \in 0 .. 255 : length = Header + Chunk.to - Chunk.from
      BY <2>2
    <3>2. length \in Nat /\ length <= 352
      OBVIOUS
    <3>3. Packets(length) \in Nat \ {0} /\ Packets(length) <= 6
      BY <3>2, PacketsBounds
    <3>4. Packets(length) \in Slots
      BY <3>3, SixSlots
    <3> QED
      BY <3>1, <3>4, Zenon
  <2> QED
    BY <2>3, SixSlots DEF TypeInv, BufferFits
<1> QED
  BY TypeInvariance, <1>1, PTL

----------------------------------------------------------------------------
(* Calls in which nothing is late.                                         *)

(***************************************************************************)
(* The strengthening of InOrder and SignedIsSent.  In a call that began    *)
(* with nothing under way, and none of whose reads timed out, at most one  *)
(* message is under way at a time: the chunk, which continues what the     *)
(* device has; or the answer to it, some of whose packets are read and     *)
(* lie at the start of the buffer in their order, and the others wait.     *)
(* After an error the last chunk may be under way still; it continues what *)
(* the device has as well.                                                 *)
(***************************************************************************)
Packet(c, sw, n, k) == [of |-> AnswerTo(c, sw), seq |-> k - 1, length |-> n]

Waiting(c) ==
  /\ pc = "read"
  /\ filled = 0
  /\ inbox = <<c>>
  /\ outbox = << >>
  /\ Continues(c)

Answered(c, sw, n) ==
  /\ MayAnswer(c, sw, n)
  /\ inbox = << >>
  /\ filled + Len(outbox) = Packets(n)
  /\ \A k \in 1 .. filled : buffer[k] = Packet(c, sw, n, k)
  /\ \A k \in 1 .. Len(outbox) : outbox[k] = Packet(c, sw, n, filled + k)
  /\ pc = "read" => outbox # << >>
  /\ sw = SwOK => signing = [txn |-> c.txn, to |-> c.to]

CleanCall ==
  clean =>
    /\ pc = "idle" => inbox = << >> \/ (inbox = <<Head(inbox)>> /\ Continues(Head(inbox)))
    /\ pc = "send" => /\ inbox = << >>
                      /\ outbox = << >>
                      /\ offset # 0 => signing = [txn |-> calls, to |-> offset]
    /\ pc \in {"read", "parse"} =>
         Waiting(Chunk) \/ \E sw \in Sws, n \in Nat : Answered(Chunk, sw, n)

CleanInv == TypeInv /\ CleanCall /\ InOrder /\ SignedIsSent

\* Only the answer to the last chunk is longer than its status.
LEMMA AnswerLengthFacts ==
  ASSUME TypeInv, NEW sw \in Sws, NEW n, MayAnswer(Chunk, sw, n)
  PROVE  n \in 2 .. job.out /\ (n # 2 => Chunk.last)
<1>1. job.answer \in Nat /\ 2 < job.answer /\ job.answer <= job.out /\ job.out \in Nat
  <2>1. job \in Jobs
    BY DEF TypeInv
  <2> QED
    BY <2>1, JobType
<1>2. Chunk.answer = job.answer
  BY ChunkFacts
<1> QED
  BY <1>1, <1>2 DEF MayAnswer

(***************************************************************************)
(* Then the answer is never malformed, and it is complete exactly when its *)
(* last packet was read.                                                   *)
(***************************************************************************)
LEMMA CleanUnwrap ==
  ASSUME TypeInv, pc = "parse", NEW sw \in Sws, NEW length, Answered(Chunk, sw, length)
  PROVE  \/ outbox # << >> /\ Unwrap(filled) = {0}
         \/ outbox = << >> /\ Unwrap(filled) = {length}
<1>1. length \in 2 .. job.out
  BY AnswerLengthFacts DEF Answered
<1>2. PICK c : c = Chunk
  OBVIOUS
<1>3. filled \in 1 .. 6 /\ job.out \in 0 .. 352 /\ length \in Nat
  BY <1>1, JobType DEF TypeInv
<1>4. ASSUME NEW k \in 1 .. filled
      PROVE  InSequence(k) = {TRUE} /\ buffer[k].length = length /\ buffer[k] # Nothing
  <2>1. buffer[k] = [of |-> AnswerTo(c, sw), seq |-> k - 1, length |-> length]
    BY <1>1, <1>2 DEF Answered, Packet
  <2>2. buffer[k].seq = k - 1 /\ buffer[k].length = length
    BY <2>1
  <2>3. buffer[k] # Nothing
    BY <2>1 DEF Nothing
  <2> QED
    BY <2>2, <2>3 DEF InSequence
<1>5. /\ Packets(length) \in Nat \ {0}
      /\ length + 7 <= 64 * Packets(length)
  BY <1>3, PacketsBounds DEF PacketSize
<1>6. outbox \in Seq(PacketType) /\ Len(outbox) \in Nat
      /\ filled + Len(outbox) = Packets(length)
  BY <1>1 DEF TypeInv, Answered
<1>7. ~(buffer[1] = Nothing \/ FALSE \in InSequence(1) \/ length > job.out)
      /\ buffer[1].length = length
  <2>1. 1 \in 1 .. filled
    BY <1>3
  <2>2. ~(length > job.out)
    BY <1>1, <1>3
  <2> QED
    BY <1>4, <2>1, <2>2
<1>8. CASE outbox = << >>
  <2>1. Packets(length) = filled
    BY <1>3, <1>6, <1>8
  <2>2. ~(64 * filled < 7 + length)
    BY <1>3, <1>5, <2>1
  <2>3. Unwrap(filled) = {length}
    <3>1. \A k \in 1 .. filled : ~(FALSE \in InSequence(k)) /\ TRUE \in InSequence(k)
      BY <1>4
    <3>2. Packets(length) <= filled
      BY <1>3, <2>1
    <3> QED
      BY <1>7, <2>1, <2>2, <3>1, <3>2 DEF Unwrap, PacketSize
  <2> QED
    BY <1>1, <1>8, <2>3
<1>9. CASE outbox # << >>
  <2>1. Len(outbox) # 0
    BY <1>6, <1>9, EmptySeq
  <2>2. ~(Packets(length) <= filled)
    BY <1>3, <1>5, <1>6, <2>1
  <2>3. CASE 64 * filled < 7 + length
    BY <1>7, <1>9, <2>3 DEF Unwrap, PacketSize
  <2>4. CASE ~(64 * filled < 7 + length)
    <3>1. Unwrap(filled) = {0}
      BY ZenonT(60), <1>3, <1>4, <1>7, <2>2, <2>4 DEF Unwrap, PacketSize
    <3> QED
      BY <1>9, <3>1
  <2> QED
    BY <2>3, <2>4
<1> QED
  BY <1>8, <1>9

LEMMA CleanDevice ==
  ASSUME CleanInv, Device
  PROVE  CleanInv'
<1>1. PICK sw \in Sws, n \in Nat : DeviceStep(Head(inbox), sw, n)
  BY DeviceAnswers DEF CleanInv
<1>2. TypeInv' /\ inbox # << >>
  BY TypeDevice, DeviceAnswers DEF CleanInv
<1>3. UNCHANGED <<calls, job, pc, offset, buffer, filled, returned, clean>>
  BY <1>1 DEF DeviceStep
<1>4. SignedIsSent'
  BY <1>3 DEF CleanInv, SignedIsSent, Success
<1>c. clean \in BOOLEAN
  BY DEF CleanInv, TypeInv
<1>5. CASE ~clean
  <2>1. InOrder'
    BY <1>1, <1>5 DEF CleanInv, DeviceStep, InOrder
  <2>2. CleanCall'
    BY <1>3, <1>5 DEF CleanCall
  <2> QED
    BY <1>2, <1>4, <2>1, <2>2 DEF CleanInv
<1>6. CASE clean /\ pc = "idle"
  <2>1. inbox = <<Head(inbox)>> /\ Continues(Head(inbox))
    BY <1>2, <1>6 DEF CleanInv, CleanCall
  <2>2. InOrder'
    BY <1>1, <2>1 DEF CleanInv, InOrder, DeviceStep
  <2>3. inbox' = << >>
    <3>1. PICK c : inbox = <<c>>
      BY <2>1
    <3>2. inbox' = Tail(<<c>>)
      BY <1>1, <3>1 DEF DeviceStep
    <3> QED
      BY <3>2
  <2>4. CleanCall'
    BY <1>3, <1>6, <2>3 DEF CleanCall
  <2> QED
    BY <1>2, <1>4, <2>2, <2>4 DEF CleanInv
<1>7. CASE clean /\ pc # "idle"
  <2>1. Waiting(Chunk)
    BY <1>2, <1>7 DEF CleanInv, CleanCall, Answered, TypeInv
  <2>2. PICK c \in ChunkType : c = Chunk
    BY ChunkFacts DEF CleanInv
  <2>3. Chunk' = c
    BY <1>3, <2>2 DEF Chunk
  <2>4. pc = "read" /\ filled = 0 /\ inbox = <<c>> /\ outbox = << >> /\ Continues(c)
        /\ Head(inbox) = c
    BY <2>1, <2>2 DEF Waiting
  <2>5. InOrder'
    BY <1>1, <2>4 DEF CleanInv, InOrder, DeviceStep
  <2>n. MayAnswer(c, sw, n)
    BY <1>1, <2>4 DEF DeviceStep
  <2>6. PICK w \in Seq(PacketType) : w = Wrap(AnswerTo(c, sw), n)
    BY <2>n, AnswerTyped, WrapType
  <2>7. /\ inbox' = << >> /\ outbox' = w
        /\ sw = SwOK => signing' = [txn |-> c.txn, to |-> c.to]
    BY <1>1, <2>4, <2>6 DEF DeviceStep
  <2>8. /\ Len(w) = Packets(n) /\ Len(w) \in Nat \ {0}
        /\ \A k \in 1 .. Len(w) : w[k] = Packet(c, sw, n, k)
    <3>1. AnswerTo(c, sw) \in AnswerType /\ n \in Nat \ {0, 1}
      BY <2>n, AnswerTyped
    <3> QED
      BY ZenonT(25), <2>6, <3>1, WrapType, PacketsBounds DEF Packet
  <2>9. \A k \in 1 .. Len(w) : 0 + k = k
    BY <2>8
  <2>10. Answered(c, sw, n)'
    BY <1>3, <2>n, <2>4, <2>7, <2>8, <2>9 DEF Answered, MayAnswer
  <2>11. CleanCall'
    BY <1>3, <2>3, <2>4, <2>10 DEF CleanCall
  <2> QED
    BY <1>2, <1>4, <2>5, <2>11 DEF CleanInv
<1> QED
  BY <1>c, <1>5, <1>6, <1>7

LEMMA CleanInit == Init => CleanInv
  BY TypeInit DEF Init, CleanInv, CleanCall, InOrder, SignedIsSent, Success, SwOK, SwError

\* A call begins, or it ends without an answer.
LEMMA CleanOpen ==
  ASSUME CleanInv, (\E j \in Jobs : Open(j)) \/ NotOpened
  PROVE  CleanInv'
<1>1. TypeInv'
  BY TypeOpen DEF CleanInv
<1>2. InOrder'
  BY DEF CleanInv, InOrder, Open, NotOpened, device
<1>3. ASSUME NEW j \in Jobs, Open(j)
      PROVE  CleanCall' /\ SignedIsSent'
  <2>1. CleanCall'
    BY <1>3 DEF Open, CleanCall
  <2>2. pc' = "send"
    BY <1>3 DEF Open
  <2> QED
    BY <2>1, <2>2 DEF SignedIsSent
<1>4. CASE NotOpened
  <2>1. returned'.result = -1
    BY <1>4 DEF NotOpened, Return
  <2>2. SignedIsSent'
    BY <2>1 DEF SignedIsSent, Success
  <2>3. CleanCall'
    BY <1>4 DEF CleanInv, CleanCall, NotOpened, Return, device, Continues
  <2> QED
    BY <1>1, <1>2, <2>2, <2>3 DEF CleanInv
<1> QED
  BY <1>1, <1>2, <1>3, <1>4 DEF CleanInv

\* The next chunk continues what the device has.
LEMMA NextContinues ==
  ASSUME CleanInv, clean, pc = "send"
  PROVE  inbox = << >> /\ outbox = << >> /\ Continues(Chunk)
<1>1. /\ inbox = << >> /\ outbox = << >>
      /\ offset # 0 => signing = [txn |-> calls, to |-> offset]
  BY DEF CleanInv, CleanCall
<1>2. PICK c : c = Chunk
  OBVIOUS
<1>3. c.txn = calls /\ c.from = offset /\ c.first = (offset = 0)
  BY <1>2, ChunkFacts DEF CleanInv
<1>4. offset = 0 => c.first
  BY <1>3, Zenon
<1>5. Continues(c)
  BY <1>1, <1>3, <1>4 DEF Continues
<1> QED
  BY <1>1, <1>2, <1>5

\* An error of hidapi: the call fails, and the chunk may be on its way.
LEMMA CleanError ==
  ASSUME CleanInv, Unplugged \/ PluggedIn
  PROVE  CleanInv'
<1>1. TypeInv'
  BY TypeRead DEF CleanInv
<1>2. HidError
  BY DEF Unplugged, PluggedIn
<1>3. InOrder' /\ SignedIsSent' /\ pc' = "idle" /\ clean' = clean
  BY <1>2 DEF CleanInv, InOrder, SignedIsSent, Success, HidError, Return
<1>4. CASE Unplugged
  BY <1>1, <1>3, <1>4 DEF CleanInv, CleanCall, Unplugged
<1>5. CASE PluggedIn
  <2>1. SUFFICES ASSUME clean
                 PROVE  \/ inbox' = << >>
                        \/ inbox' = <<Head(inbox')>> /\ Continues(Head(inbox))'
    BY <1>1, <1>3 DEF CleanInv, CleanCall
  <2>2. signing' = signing /\ pc \in {"send", "read"}
    BY <1>2, <1>5 DEF PluggedIn, HidError
  <2>3. CASE pc = "send"
    <3>1. inbox = << >> /\ Continues(Chunk)
      BY <2>1, <2>3, NextContinues
    <3>2. PICK c : c = Chunk
      OBVIOUS
    <3>3. inbox' = << >> \/ inbox' = <<c>>
      BY <1>5, <2>3, <3>1, <3>2 DEF PluggedIn
    <3>4. Head(<<c>>) = c /\ (signing' = signing => (Continues(c) <=> Continues(c)'))
      BY DEF Continues
    <3> QED
      BY <2>2, <3>1, <3>2, <3>3, <3>4 DEF Continues
  <2>4. CASE pc = "read"
    <3>1. inbox' = inbox
      BY <1>5, <2>4 DEF PluggedIn
    <3>2. inbox = << >> \/ Waiting(Chunk)
      BY <2>1, <2>4 DEF CleanInv, CleanCall, Answered
    <3>3. PICK c : c = Chunk
      OBVIOUS
    <3>4. inbox = << >> \/ (inbox = <<c>> /\ Head(inbox) = c /\ Continues(c))
      BY <3>2, <3>3 DEF Waiting
    <3> QED
      BY <2>2, <3>1, <3>4 DEF Continues
  <2> QED
    BY <2>2, <2>3, <2>4
<1> QED
  BY <1>4, <1>5

LEMMA CleanSend ==
  ASSUME CleanInv, SendChunk
  PROVE  CleanInv'
<1>1. TypeInv'
  BY TypeSend DEF CleanInv
<1>2. InOrder' /\ SignedIsSent'
  BY DEF CleanInv, InOrder, SendChunk, SignedIsSent
<1>3. CleanCall'
  <2>1. SUFFICES ASSUME clean' PROVE Waiting(Chunk)'
    BY DEF CleanCall, SendChunk
  <2>2. inbox = << >> /\ outbox = << >> /\ Continues(Chunk)
    BY <2>1, NextContinues DEF SendChunk
  <2>3. PICK c : c = Chunk
    OBVIOUS
  <2>4. Chunk' = c
    BY <2>3 DEF Chunk, SendChunk
  <2>5. inbox' = <<c>> /\ outbox' = << >> /\ pc' = "read" /\ filled' = 0
    BY <2>2, <2>3 DEF SendChunk
  <2>6. Continues(c)'
    BY <2>2, <2>3 DEF Continues, SendChunk
  <2> QED
    BY <2>4, <2>5, <2>6 DEF Waiting
<1> QED
  BY <1>1, <1>2, <1>3 DEF CleanInv

LEMMA CleanRead ==
  ASSUME CleanInv, Read
  PROVE  CleanInv'
<1>1. TypeInv'
  BY TypeRead DEF CleanInv
<1>2. InOrder' /\ SignedIsSent'
  BY DEF CleanInv, InOrder, Read, SignedIsSent
<1>3. CleanCall'
  <2>1. SUFFICES ASSUME clean' PROVE \E sw \in Sws, n \in Nat : Answered(Chunk, sw, n)'
    BY DEF CleanCall, Read
  <2>2. PICK c : c = Chunk
    OBVIOUS
  <2>3. Chunk' = c
    BY <2>2 DEF Chunk, Read
  <2>4. PICK sw \in Sws, n \in Nat : Answered(c, sw, n)
    BY <2>1, <2>2 DEF Read, CleanInv, CleanCall, Waiting
  <2>5. /\ outbox \in Seq(PacketType) /\ outbox # << >> /\ Len(outbox) \in Nat \ {0}
        /\ filled \in 0 .. 5 /\ filled + 1 \in Slots
        /\ buffer \in [Slots -> PacketType \cup {Nothing}]
    BY EmptySeq, SixSlots DEF CleanInv, TypeInv, Read
  <2>6. /\ Head(outbox) = outbox[1]
        /\ Len(outbox') = Len(outbox) - 1
        /\ \A k \in 1 .. Len(outbox') : outbox'[k] = outbox[k + 1]
    BY <2>5, HeadTailProperties DEF Read
  <2>7. Head(outbox) = Packet(c, sw, n, filled + 1)
    BY <2>4, <2>5, <2>6 DEF Answered
  <2>8. /\ filled' = filled + 1
        /\ buffer'[filled + 1] = Packet(c, sw, n, filled + 1)
        /\ \A k \in 1 .. filled : buffer'[k] = Packet(c, sw, n, k)
    <3>1. \A k \in 1 .. filled : k \in Slots /\ k # filled + 1
      BY <2>5, SixSlots
    <3> QED
      BY <2>4, <2>5, <2>7, <3>1 DEF Answered, Read
  <2>9. \A k \in 1 .. filled' : buffer'[k] = Packet(c, sw, n, k)
    <3>1. \A k \in 1 .. filled' : k \in 1 .. filled \/ k = filled + 1
      BY <2>5, <2>8
    <3> QED
      BY <2>8, <3>1
  <2>10. \A k \in 1 .. Len(outbox') : outbox'[k] = Packet(c, sw, n, filled' + k)
    <3>1. ASSUME NEW k \in 1 .. Len(outbox')
          PROVE  outbox'[k] = Packet(c, sw, n, filled' + k)
      <4>1. k + 1 \in 1 .. Len(outbox) /\ filled + (k + 1) = filled' + k
        BY <2>5, <2>6, <2>8
      <4>2. outbox'[k] = Packet(c, sw, n, filled + (k + 1))
        BY <2>4, <2>6, <4>1 DEF Answered
      <4> QED
        BY <4>1, <4>2
    <3> QED
      BY <3>1
  <2>11. filled' + Len(outbox') = Packets(n)
    BY <2>4, <2>5, <2>6, <2>8 DEF Answered
  <2>12. pc' = "parse" /\ UNCHANGED <<inbox, signing>>
    BY DEF Read
  <2>13. Answered(c, sw, n)'
    BY <2>4, <2>9, <2>10, <2>11, <2>12 DEF Answered
  <2> QED
    BY <2>3, <2>13
<1> QED
  BY <1>1, <1>2, <1>3 DEF CleanInv

LEMMA CleanTimeout ==
  ASSUME CleanInv, ReadTimeout
  PROVE  CleanInv'
<1>1. TypeInv'
  BY TypeRead DEF CleanInv
<1>2. ~clean' /\ confused' = confused
  BY DEF ReadTimeout, device
<1> QED
  BY <1>1, <1>2 DEF CleanInv, CleanCall, InOrder, SignedIsSent

\* While the buffer is parsed, the answer is the one to the chunk just sent.
LEMMA CleanParse ==
  ASSUME CleanInv, clean, pc = "parse"
  PROVE  \E sw \in Sws, n \in Nat : Answered(Chunk, sw, n)
  BY DEF CleanInv, CleanCall, Waiting

LEMMA CleanIncomplete ==
  ASSUME CleanInv, Incomplete \/ Malformed
  PROVE  CleanInv'
<1>1. TypeInv'
  BY TypeParse DEF CleanInv
<1>2. pc = "parse" /\ UNCHANGED <<calls, job, offset, buffer, filled, device, clean>>
  BY DEF Incomplete, Malformed
<1>3. InOrder'
  BY <1>2 DEF CleanInv, InOrder, device
<1>4. CASE ~clean
  BY <1>1, <1>2, <1>3, <1>4 DEF CleanInv, CleanCall, SignedIsSent
<1>5. CASE clean
  <2>1. PICK c \in ChunkType : c = Chunk
    BY ChunkFacts DEF CleanInv
  <2>2. PICK sw \in Sws, n \in Nat : Answered(c, sw, n)
    BY <1>2, <1>5, <2>1, CleanParse
  <2>3. n # -1 /\ n # 0
    BY <2>1, <2>2, AnswerLengthFacts DEF CleanInv, Answered
  <2>4. ~Malformed /\ Incomplete /\ outbox # << >>
    BY <1>2, <2>1, <2>2, <2>3, CleanUnwrap DEF CleanInv, Malformed, Incomplete
  <2>5. pc' = "read" /\ Chunk' = c
    BY <1>2, <2>1, <2>4 DEF Incomplete, Chunk
  <2>6. Answered(c, sw, n)'
    BY <1>2, <2>2, <2>4 DEF Answered, device
  <2>7. CleanCall'
    BY <2>5, <2>6 DEF CleanCall
  <2>8. SignedIsSent'
    BY <2>5 DEF SignedIsSent
  <2> QED
    BY <1>1, <1>3, <2>7, <2>8 DEF CleanInv
<1> QED
  BY <1>4, <1>5 DEF CleanInv, TypeInv

(***************************************************************************)
(* A complete answer.  The loop goes on from where the device is, or the   *)
(* call returns what the device sent for the last chunk.                   *)
(***************************************************************************)
LEMMA CleanComplete ==
  ASSUME CleanInv, Complete
  PROVE  CleanInv'
<1>1. TypeInv'
  BY TypeParse DEF CleanInv
<1>2. pc = "parse" /\ UNCHANGED <<calls, job, buffer, filled, device, clean>>
  BY DEF Complete
<1>3. InOrder'
  BY <1>2 DEF CleanInv, InOrder, device
<1>4. CASE ~clean
  BY <1>1, <1>2, <1>3, <1>4 DEF CleanInv, CleanCall, SignedIsSent
<1>5. CASE clean
  <2>1. PICK c \in ChunkType : c = Chunk
    BY ChunkFacts DEF CleanInv
  <2>2. PICK sw \in Sws, n \in Nat : Answered(c, sw, n)
    BY <1>2, <1>5, <2>1, CleanParse
  <2>3. PICK length \in Nat : length = n /\ length >= 2
    BY <2>1, <2>2, AnswerLengthFacts, JobType DEF CleanInv, TypeInv, Answered
  <2>4. outbox = << >> /\ Unwrap(filled) = {length}
    BY <1>2, <2>1, <2>2, <2>3, CleanUnwrap DEF CleanInv, Complete
  <2>5. Parts(length) = {AnswerTo(c, sw)}
    <3>1. Len(outbox) = 0 /\ filled \in 1 .. 6
      BY <1>2, <2>4 DEF CleanInv, TypeInv
    <3>2. Packets(length) = filled
      BY <2>2, <2>3, <3>1 DEF Answered
    <3>3. ASSUME NEW k \in 1 .. filled
          PROVE  buffer[k].of = AnswerTo(c, sw)
      <4>1. buffer[k] = Packet(c, sw, n, k)
        BY <2>2 DEF Answered
      <4> QED
        BY <4>1 DEF Packet
    <3> QED
      BY <3>1, <3>2, <3>3 DEF Parts
  <2>6. StatusOf(Parts(length)) = {sw}
    <3>1. PICK a : a = AnswerTo(c, sw)
      OBVIOUS
    <3>2. a.kind = "answer" /\ a.sw = sw
      BY <3>1 DEF AnswerTo
    <3> QED
      BY <2>5, <3>1, <3>2 DEF StatusOf
  <2>7. IF Again(length - 2, sw)
        THEN /\ offset' = Resume(sw)
             /\ pc' = "send"
             /\ UNCHANGED returned
        ELSE /\ Return(length - 2, sw, Parts(length))
             /\ UNCHANGED offset
    BY <2>4, <2>6 DEF Complete
  <2>8. /\ length # 2 => c.last
        /\ c.last = (c.to = job.length) /\ c.txn = calls /\ c.to \in Nat
    BY <2>1, <2>2, <2>3, AnswerLengthFacts, ChunkFacts DEF CleanInv, ChunkType, Answered
  <2>9. /\ inbox' = << >> /\ outbox' = << >>
        /\ sw = SwOK => signing' = [txn |-> calls, to |-> c.to]
    BY <1>2, <2>2, <2>4, <2>8 DEF Answered, device
  <2>10. CASE Again(length - 2, sw)
    <3>1. offset' = 0 \/ (sw = SwOK /\ offset' = c.to)
      BY <2>1, <2>3, <2>7, <2>8, <2>10 DEF Again, Resume, NextOffset
    <3>2. pc' = "send" /\ calls' = calls
      BY <1>2, <2>7, <2>10
    <3> QED
      BY <1>1, <1>3, <2>9, <3>1, <3>2 DEF CleanInv, CleanCall, SignedIsSent
  <2>11. CASE ~Again(length - 2, sw)
    <3>1. /\ returned' = [result |-> length - 2, sw |-> sw, parts |-> {AnswerTo(c, sw)}]
          /\ pc' = "idle"
      BY <2>5, <2>7, <2>11 DEF Return
    <3>2. Success' => c.last
      BY <2>3, <2>8, <2>11, <3>1 DEF Success, Again
    <3>3. PICK a : a = AnswerTo(c, sw)
      OBVIOUS
    <3>4. a.kind = "answer" /\ a.txn = c.txn /\ a.to = c.to /\ a.last = c.last
      BY <3>3 DEF AnswerTo
    <3>5. Success' => /\ a \in returned'.parts /\ returned'.parts = {a}
                      /\ a.kind = "answer" /\ a.txn = calls' /\ a.to = job'.length /\ a.last
      BY <1>2, <2>8, <3>1, <3>2, <3>3, <3>4
    <3>6. SignedIsSent'
      BY <3>5 DEF SignedIsSent
    <3> QED
      BY <1>1, <1>3, <2>9, <3>1, <3>6 DEF CleanInv, CleanCall
  <2> QED
    BY <2>10, <2>11
<1> QED
  BY <1>4, <1>5 DEF CleanInv, TypeInv

LEMMA CleanInvariance == Spec => []CleanInv
<1>1. CleanInv /\ [Next]_vars => CleanInv'
  <2> SUFFICES ASSUME CleanInv, [Next]_vars PROVE CleanInv'
    OBVIOUS
  <2>1. CASE UNCHANGED vars
    <3>1. TypeInv' /\ InOrder' /\ SignedIsSent'
      BY <2>1 DEF CleanInv, TypeInv, InOrder, SignedIsSent, Success, vars
    <3>2. CleanCall'
      BY <2>1 DEF CleanInv, CleanCall, Waiting, Answered, MayAnswer, Continues, Chunk, vars
    <3> QED
      BY <3>1, <3>2 DEF CleanInv
  <2> QED
    BY <2>1, CleanOpen, CleanError, CleanSend, CleanRead, CleanTimeout, CleanIncomplete,
       CleanComplete, CleanDevice DEF Next, Library
<1> QED
  BY CleanInit, <1>1, PTL DEF Spec

(***************************************************************************)
(* In a call that began with nothing under way and none of whose reads     *)
(* timed out, the device is never sent a chunk that does not continue what *)
(* it has: not after a restart, a refusal, a call that was given up, or an *)
(* error of hidapi.                                                        *)
(***************************************************************************)
THEOREM LedgerInOrder == Spec => []InOrder
<1>1. CleanInv => InOrder
  BY DEF CleanInv
<1> QED
  BY CleanInvariance, <1>1, PTL

(***************************************************************************)
(* What such a call returns as a success is one answer of the device, to   *)
(* the last chunk of this very transaction, which it has all of.           *)
(***************************************************************************)
THEOREM LedgerSignedIsSent == Spec => []SignedIsSent
<1>1. CleanInv => SignedIsSent
  BY DEF CleanInv
<1> QED
  BY CleanInvariance, <1>1, PTL
=============================================================================
