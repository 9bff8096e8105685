------------------------------- MODULE Ledger -------------------------------
(***************************************************************************)
(* Signing on a hardware wallet: ledger_sign_transaction and               *)
(* ledger_get_account_public_key (ledger.c), the loop of ledger_send_apdu  *)
(* that sends a transaction in chunks of 250 bytes (ledger-api.c), the     *)
(* exchange of one chunk in packets of 64 bytes (sendApduHidapi), and the  *)
(* wrapping of both directions (ledgerLayer.c); next to the device, which  *)
(* waits for its user, takes a chunk, asks for the first one again         *)
(* (0x9001), or refuses; it is part of the environment, and the last       *)
(* chunk is the only one it answers with data.                             *)
(*                                                                         *)
(* Command and answer share one buffer: an answer is read over the command *)
(* in it, packet by packet, and a read that times out leaves the packet of *)
(* the command where the answer should be.                                 *)
(*                                                                         *)
(* Bytes are not modelled.  A packet knows which chunk or answer it is a   *)
(* part of; its sequence number and the length in the first one are what   *)
(* the code reads.                                                         *)
(***************************************************************************)
EXTENDS Integers, Sequences

CONSTANTS
  Jobs,         \* what the application may ask for: the length of the data, the
                \* size of out, the length of the answer with its two byte sw
  MaxCalls,     \* bound: calls of ledger_send_apdu
  MaxTimeouts,  \* bound: reads that time out
  MaxFaults     \* bound: errors of hidapi

\* What fits into out fits into the buffer with its headers: 57 bytes in the
\* first packet, 59 in the other five.  (ledger.c has an out of 120 bytes and one
\* of 43.)
ASSUME LedgerAssumption ==
  /\ Jobs \subseteq [length: Nat \ {0}, out: 0 .. 352, answer: Nat]
  /\ \A j \in Jobs : 2 < j.answer /\ j.answer <= j.out
  /\ {MaxCalls, MaxTimeouts, MaxFaults} \subseteq Nat

\* the headers of the packets are forgotten
ChunkSizeMutant == 355

ChunkSize  == 250
PacketSize == 64    \* MAX_BLOCK and LEDGER_HID_PACKET_SIZE
BufferSize == 400
Header     == 5     \* class, instruction, P1, P2, length of an APDU
Slots      == 1 .. BufferSize \div PacketSize

SwOK == "9000"
SwRestart == "9001"
SwError == "6985"
Sws == {SwOK, SwRestart, SwError}

VARIABLES
  calls,     \* the number of calls so far, which names the transaction
  job,       \* what the current one is for
  pc,        \* idle; at send, read or parse in the loop
  offset,    \* in the data
  buffer,    \* the packets in the buffer of sendApduHidapi
  filled,    \* how many of them were read, or waited for in vain
  inbox,     \* chunks on their way to the device
  signing,   \* the device: which transaction it has, and how far
  confused,  \* whether in a clean call it got a chunk that does not continue it
  outbox,    \* packets on their way from the device
  returned,  \* what the last call came back with
  clean,     \* whether nothing of earlier calls was under way when this one
             \* began, and no read of it timed out
  timeouts, faults   \* how many of these happened

vars == <<calls, job, pc, offset, buffer, filled, inbox, signing, confused,
          outbox, returned, clean, timeouts, faults>>

device == <<inbox, signing, confused, outbox>>
bounds == <<timeouts, faults>>

Nothing == [of |-> "nothing"]

Init ==
  /\ calls = 0
  /\ job \in Jobs
  /\ pc = "idle"
  /\ offset = 0
  /\ buffer = [k \in Slots |-> Nothing]
  /\ filled = 0
  /\ inbox = << >>
  /\ signing = [txn |-> 0, to |-> 0]
  /\ confused = FALSE
  /\ outbox = << >>
  /\ returned = [result |-> 0, sw |-> SwError, parts |-> {}]
  /\ clean = TRUE
  /\ timeouts = 0
  /\ faults = 0

Fault == faults < MaxFaults /\ faults' = faults + 1

----------------------------------------------------------------------------
(* Definitions named ...Mutant are plausible mistakes, as in RequestEngine. *)

(***************************************************************************)
(* wrapCommandAPDU: every packet begins with the channel, a tag and its    *)
(* number, 5 bytes; the first one also with the length of the whole.       *)
(***************************************************************************)
Packets(length) ==
  IF length <= PacketSize - 7 THEN 1
  ELSE 1 + (length - (PacketSize - 7) + PacketSize - 6) \div (PacketSize - 5)

Wrap(body, length) ==
  [k \in 1 .. Packets(length) |-> [of |-> body, seq |-> k - 1, length |-> length]]

(***************************************************************************)
(* unwrapReponseAPDU, of the first n packets in the buffer: how long the   *)
(* answer is, 0 if it is not complete, or -1.  Memory that was never       *)
(* written may by chance hold the number that is expected.                 *)
(***************************************************************************)
InSequence(k) ==
  IF buffer[k] = Nothing THEN BOOLEAN ELSE {buffer[k].seq = k - 1}

Unwrap(n) ==
  LET length == buffer[1].length
      last == Packets(length)
      upto == IF last <= n THEN last ELSE n
  IN IF buffer[1] = Nothing \/ FALSE \in InSequence(1) \/ length > job.out THEN {-1}
     ELSE IF PacketSize * n < 7 + length THEN {0}
     ELSE (IF \E k \in 1 .. upto : FALSE \in InSequence(k) THEN {-1} ELSE {})
          \cup (IF \A k \in 1 .. upto : TRUE \in InSequence(k)
                THEN {IF last <= n THEN length ELSE 0} ELSE {})

\* What an answer of this length was put together from.
Parts(length) == {buffer[k].of : k \in 1 .. Packets(length)}

\* The last two bytes: the status the device sent, or any bytes of a command.
StatusOf(parts) ==
  IF \E a \in parts : parts = {a} /\ a.kind = "answer"
  THEN {a.sw : a \in parts} ELSE Sws

----------------------------------------------------------------------------
\* ledger_send_apdu opens the device.  What the device sent while nobody had it
\* open may be waiting, or may be lost.
Open(j) ==
  /\ pc = "idle"
  /\ calls < MaxCalls
  /\ calls' = calls + 1
  /\ job' = j
  /\ offset' = 0
  /\ pc' = "send"
  /\ outbox' \in {outbox, << >>}
  /\ clean' = (inbox = << >> /\ outbox' = << >>)
  /\ UNCHANGED <<buffer, filled, inbox, signing, confused, returned, bounds>>

Return(result, sw, parts) ==
  /\ returned' = [result |-> result, sw |-> sw, parts |-> parts]
  /\ pc' = "idle"

\* hid_init or hid_open fails.
NotOpened ==
  /\ pc = "idle"
  /\ calls < MaxCalls
  /\ Fault
  /\ calls' = calls + 1
  /\ Return(-1, SwError, {})
  /\ UNCHANGED <<job, offset, buffer, filled, device, clean, timeouts>>

\* P1 and the data of the next chunk.
Chunk ==
  LET to == IF job.length - offset > ChunkSize THEN offset + ChunkSize ELSE job.length
  IN [kind |-> "chunk", txn |-> calls, from |-> offset, to |-> to, first |-> offset = 0,
      last |-> to = job.length, answer |-> job.answer]

\* The chunk is wrapped and all its packets are written.
SendChunk ==
  LET wrapped == Wrap(Chunk, Header + Chunk.to - Chunk.from) IN
  /\ pc = "send"
  /\ buffer' = [k \in Slots |-> IF k \in DOMAIN wrapped THEN wrapped[k] ELSE Nothing]
  /\ inbox' = Append(inbox, Chunk)
  /\ filled' = 0
  /\ pc' = "read"
  /\ UNCHANGED <<calls, job, offset, signing, confused, outbox, returned, clean,
                 bounds>>

\* hid_write or hid_read_timeout returns an error.
HidError ==
  /\ pc \in {"send", "read"}
  /\ Fault
  /\ Return(-1, SwError, {})
  /\ UNCHANGED <<calls, job, offset, buffer, filled, confused, clean, timeouts>>

\* The device was unplugged.
Unplugged ==
  /\ HidError
  /\ inbox' = << >>
  /\ outbox' = << >>
  /\ signing' = [txn |-> 0, to |-> 0]

\* Or it is still there, with the chunk that was to be written or without it (of
\* a chunk that was written in part it drops the part).
PluggedIn ==
  /\ HidError
  /\ inbox' \in {inbox} \cup (IF pc = "send" THEN {Append(inbox, Chunk)} ELSE {})
  /\ UNCHANGED <<signing, outbox>>

Read ==
  /\ pc = "read"
  /\ outbox # << >>
  /\ buffer' = [buffer EXCEPT ![filled + 1] = Head(outbox)]
  /\ outbox' = Tail(outbox)
  /\ filled' = filled + 1
  /\ pc' = "parse"
  /\ UNCHANGED <<calls, job, offset, inbox, signing, confused, returned, clean,
                 bounds>>

\* hid_read_timeout returns 0, which is taken for a packet.
ReadTimeout ==
  /\ pc = "read"
  /\ outbox = << >>
  /\ timeouts < MaxTimeouts
  /\ timeouts' = timeouts + 1
  /\ clean' = FALSE
  /\ filled' = filled + 1
  /\ pc' = "parse"
  /\ UNCHANGED <<calls, job, offset, buffer, device, returned, faults>>

Incomplete ==
  /\ pc = "parse"
  /\ 0 \in Unwrap(filled)
  /\ pc' = "read"
  /\ UNCHANGED <<calls, job, offset, buffer, filled, device, returned, clean, bounds>>

Malformed ==
  /\ pc = "parse"
  /\ -1 \in Unwrap(filled)
  /\ Return(-1, SwError, {})
  /\ UNCHANGED <<calls, job, offset, buffer, filled, device, clean, bounds>>

\* the outer loop does not begin again
NextOffsetMutant == Chunk.to

\* When the last chunk was sent and the result is still 0, all of them are sent
\* again.
NextOffset == IF Chunk.to = job.length THEN 0 ELSE Chunk.to

\* an answer without data ends the loop like one with data
AgainMutant(result, sw) == sw = SwRestart

\* a refused chunk is not told from an accepted one
AgainRefusedMutant(result, sw) == sw = SwRestart \/ result = 0

\* Whether the loops of ledger_send_apdu go on.
Again(result, sw) == sw = SwRestart \/ (sw = SwOK /\ result = 0)

\* on 0x9001 the next chunk is sent, as on 0x9000
ResumeMutant(sw) == NextOffset

Resume(sw) == IF sw = SwRestart THEN 0 ELSE NextOffset

\* A complete answer: the rest of sendApduHidapi and of the loop.
Complete ==
  /\ pc = "parse"
  /\ \E length \in Unwrap(filled) \ {-1, 0} :
       \E sw \in StatusOf(Parts(length)) :
         IF Again(length - 2, sw)
         THEN /\ offset' = Resume(sw)
              /\ pc' = "send"
              /\ UNCHANGED returned
         ELSE /\ Return(length - 2, sw, Parts(length))
              /\ UNCHANGED offset
  /\ UNCHANGED <<calls, job, buffer, filled, device, clean, bounds>>

Library ==
  \/ SendChunk \/ Unplugged \/ PluggedIn \/ Read \/ ReadTimeout
  \/ Incomplete \/ Malformed \/ Complete

----------------------------------------------------------------------------
\* The device takes a chunk and, when its user is done, sends an answer.
Continues(c) ==
  c.first \/ (signing.txn = c.txn /\ signing.to = c.from)

Answers(c, sw, length) ==
  LET a == [kind |-> "answer", txn |-> c.txn, to |-> c.to, last |-> c.last, sw |-> sw]
  IN /\ inbox' = Tail(inbox)
     /\ outbox' = outbox \o Wrap(a, length)
     /\ UNCHANGED <<calls, job, pc, offset, buffer, filled, returned, clean,
                    timeouts, faults>>

Accept(c) ==
  /\ Continues(c)
  /\ signing' = [txn |-> c.txn, to |-> c.to]
  /\ Answers(c, SwOK, IF c.last THEN c.answer ELSE 2)
  /\ UNCHANGED confused

\* The last chunk is taken, but there is nothing in the answer but its status.
AcceptEmpty(c) ==
  /\ Continues(c) /\ c.last
  /\ signing' = [txn |-> c.txn, to |-> c.to]
  /\ Answers(c, SwOK, 2)
  /\ UNCHANGED confused

Refuse(c) ==
  /\ signing' = [txn |-> 0, to |-> 0]
  /\ confused' = (confused \/ (clean /\ ~Continues(c)))
  /\ Answers(c, SwError, 2)

AskAgain(c) ==
  /\ Continues(c)
  /\ signing' = [txn |-> 0, to |-> 0]
  /\ Answers(c, SwRestart, 2)
  /\ UNCHANGED confused

Device ==
  /\ inbox # << >>
  /\ LET c == Head(inbox) IN Accept(c) \/ AcceptEmpty(c) \/ Refuse(c) \/ AskAgain(c)

Next ==
  \/ \E j \in Jobs : Open(j)
  \/ NotOpened
  \/ Library
  \/ Device

Spec == Init /\ [][Next]_vars

\* The library runs on, and the user of the device makes up his mind.
FairSpec == Spec /\ WF_vars(Library) /\ WF_vars(Device)

----------------------------------------------------------------------------
TypeOK ==
  /\ calls \in 0 .. MaxCalls
  /\ job \in Jobs
  /\ pc \in {"idle", "send", "read", "parse"}
  /\ offset \in 0 .. job.length - 1
  /\ DOMAIN buffer = Slots
  /\ filled \in 0 .. Len(buffer)
  /\ confused \in BOOLEAN
  /\ clean \in BOOLEAN
  /\ returned.sw \in Sws
  /\ returned.result >= -1

\* The buffer of 400 bytes holds every command with its headers, and is never
\* read over its end, however many reads time out (dongleCommHidapi.c:166).
BufferFits ==
  /\ pc = "send" => Packets(Header + Chunk.to - Chunk.from) \in Slots
  /\ pc = "read" => filled + 1 \in Slots

Success == returned.result >= 0 /\ returned.sw = SwOK

\* What a call returns as signed comes from the device, and it is for this
\* transaction, all of it: whatever restarts, refusals and errors there were,
\* and although answers to earlier calls that timed out may have been late.
\* (Not so if a read of this very call times out, or an answer is still late.)
SignedIsSent ==
  pc = "idle" /\ Success /\ clean =>
    \E a \in returned.parts :
      /\ returned.parts = {a}
      /\ a.kind = "answer" /\ a.txn = calls /\ a.to = job.length /\ a.last

\* The device gets the chunks of a transaction in order from the first one,
\* after restarts, refusals and calls that were given up.
InOrder == ~confused

\* The answers that make the driver send everything again (ledger-api.c:45, 84);
\* nothing there bounds how often.
StartsOver ==
  inbox # << >> /\ LET c == Head(inbox) IN AcceptEmpty(c) \/ AskAgain(c)

\* If the device answers, a call returns, whatever other answers were late or
\* lost: only a device that makes it start over again and again can hold it.
CallReturns ==
  ((pc # "idle") ~> (pc = "idle")) \/ []<><<StartsOver>>_vars
=============================================================================
