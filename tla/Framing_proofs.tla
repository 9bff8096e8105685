--------------------------- MODULE Framing_proofs ---------------------------
(***************************************************************************)
(* Proofs about Framing, for every stream of messages and every chunking.  *)
(***************************************************************************)
EXTENDS Framing, SequenceTheorems, TLAPS

\* Half of the values of an unsigned int are no int; both are not too few.
LEMMA WordFacts ==
  Base \in Nat /\ Word \in Nat /\ Half \in Nat /\ Word = 2 * Half /\ Half >= 8
<1>1. PICK h \in Nat : Base = 2 * h /\ h >= 1
  BY FramingAssumption
<1>2. PICK k \in Nat : k = h * h * h * h /\ k >= 1
  <2>1. h * h \in Nat /\ h * h >= 1
    BY <1>1
  <2>2. PICK j \in Nat : j = h * h /\ j >= 1
    BY <2>1
  <2>3. j * j \in Nat /\ j * j >= 1 /\ h * h * h * h = j * j
    BY <2>2
  <2> QED
    BY <2>3
<1>3. Word = 16 * k
  BY <1>1, <1>2 DEF Word
<1>4. Half = 8 * k
  BY <1>2, <1>3 DEF Half
<1> QED
  BY <1>1, <1>2, <1>3, <1>4

LEMMA StreamFacts ==
  ASSUME NEW s \in Streams
  PROVE  /\ s \in Seq(Nat)
         /\ \A i \in 1 .. Len(s) : s[i] \in Nat /\ s[i] >= Prefix
         /\ \A i \in 1 .. Len(s) : \A j \in 1 .. i - 1 :
              s[j] \in Nat /\ s[i] >= s[j] + Prefix
         /\ \A i \in 1 .. Len(s) : s[i] < Half + (IF i = 1 THEN 0 ELSE s[i - 1])
<1>1. s \in Seq(Nat)
  BY FramingAssumption
<1>2. \A i \in 1 .. Len(s) :
        /\ s[i] >= Prefix
        /\ \A j \in 1 .. i - 1 : s[i] >= s[j] + Prefix
        /\ s[i] < Half + (IF i = 1 THEN 0 ELSE s[i - 1])
  BY ZenonT(40), FramingAssumption
<1>3. \A i \in 1 .. Len(s) : s[i] \in Nat
  BY <1>1
<1>4. ASSUME NEW i \in 1 .. Len(s), NEW j \in 1 .. i - 1
      PROVE  j \in 1 .. Len(s)
  BY <1>1, LenProperties
<1> QED
  BY <1>1, <1>2, <1>3, <1>4

\* Whatever is read as the size of a message, an unsigned int can hold it.
LEMMA SizeFits ==
  ASSUME NEW s \in SizesRead
  PROVE  MsgSize(s) \in Nat /\ MsgSize(s) < Word
<1>1. s \in 0 .. Word - 1
  BY DEF SizesRead
<1> QED
  BY <1>1, WordFacts DEF MsgSize, Prefix

----------------------------------------------------------------------------
(* The memory of a message.                                                *)

\* The unsigned number that an int was assigned from.
Unsigned(x) == IF x < 0 THEN x + Word ELSE x

\* What a part of a message makes of what is missing: remaining_size counts
\* down without an error, also while it is negative.
LEMMA CountsDown ==
  ASSUME NEW wanted \in Int, -Half <= wanted, wanted < Word, size \in Nat, size < Half
  PROVE  /\ ToProcess(wanted) \in Nat
         /\ ToProcess(wanted) <= size
         /\ ToProcess(wanted) <= Unsigned(wanted)
         /\ AsInt(wanted - ToProcess(wanted)) \in Int32
         /\ Unsigned(AsInt(wanted - ToProcess(wanted))) = Unsigned(wanted) - ToProcess(wanted)
         /\ AsInt(wanted - ToProcess(wanted)) = 0 <=> Unsigned(wanted) = ToProcess(wanted)
         /\ Unsigned(wanted) # ToProcess(wanted) => ToProcess(wanted) = size
<1>1. PICK h \in Nat, z \in Nat : h = Half /\ z = size /\ Word = 2 * h /\ z < h
  BY WordFacts
<1>2. CASE wanted < 0
  <2>1. ToProcess(wanted) = z
    BY <1>1, <1>2 DEF ToProcess
  <2>2. PICK r \in Int : r = wanted - z /\ r < 0 /\ r >= -h - z
    BY <1>1, <1>2
  <2>3. CASE r >= -h
    <3>1. AsInt(r) = r
      BY <1>1, <2>2, <2>3 DEF AsInt
    <3> QED
      BY <1>1, <1>2, <2>1, <2>2, <2>3, <3>1 DEF Unsigned, Int32
  <2>4. CASE r < -h
    <3>1. AsInt(r) = r + 2 * h
      BY <1>1, <2>2, <2>4 DEF AsInt
    <3> QED
      BY <1>1, <1>2, <2>1, <2>2, <2>4, <3>1 DEF Unsigned, Int32
  <2> QED
    BY <1>1, <2>2, <2>3, <2>4
<1>3. CASE wanted >= 0
  <2>1. PICK n \in Nat : n = ToProcess(wanted) /\ n <= z /\ n <= wanted /\ (n # wanted => n = z)
    BY <1>1, <1>3 DEF ToProcess
  <2>2. PICK r \in Nat : r = wanted - n /\ r < 2 * h
    BY <1>1, <1>3, <2>1
  <2>3. CASE r < h
    <3>1. AsInt(r) = r
      BY <1>1, <2>2, <2>3 DEF AsInt
    <3> QED
      BY <1>1, <1>3, <2>1, <2>2, <2>3, <3>1 DEF Unsigned, Int32
  <2>4. CASE r >= h
    <3>1. AsInt(r) = r - 2 * h
      BY <1>1, <2>2, <2>4 DEF AsInt
    <3> QED
      BY <1>1, <1>3, <2>1, <2>2, <2>4, <3>1 DEF Unsigned, Int32
  <2> QED
    BY <1>1, <2>2, <2>3, <2>4
<1> QED
  BY <1>2, <1>3

\* The counters of a message: as long as there are less than Half bytes.
LEMMA CountsUp ==
  ASSUME NEW k \in Nat, k < Word
  PROVE  /\ AsInt(k) \in Int32
         /\ AsInt(k) >= 0 <=> k < Half
         /\ AsInt(k) >= 0 => AsInt(k) = k
<1>1. PICK h \in Nat : h = Half /\ Word = 2 * h
  BY WordFacts
<1>2. CASE k < h
  <2>1. AsInt(k) = k
    BY <1>1, <1>2 DEF AsInt
  <2> QED
    BY <1>1, <1>2, <2>1 DEF Int32
<1>3. CASE k >= h
  <2>1. AsInt(k) = k - 2 * h
    BY <1>1, <1>3 DEF AsInt
  <2> QED
    BY <1>1, <1>3, <2>1 DEF Int32
<1> QED
  BY <1>1, <1>2, <1>3

\* The inductive invariant: the memory, while a chunk and an allocation are
\* below Half and Word.
Inv == TypeOK /\ CopyFits /\ size < Half /\ allocated < Word

\* The bytes of the message after the next part was copied.
Filled(n) == response \o [k \in 1 .. n |-> ptr + k]

LEMMA FilledFacts ==
  ASSUME response \in Seq(Nat), ptr \in Nat, NEW n \in Nat
  PROVE  Filled(n) \in Seq(Nat) /\ Len(Filled(n)) = Len(response) + n
<1>1. [k \in 1 .. n |-> ptr + k] \in Seq(Nat)
  OBVIOUS
<1>2. Len([k \in 1 .. n |-> ptr + k]) = n
  OBVIOUS
<1> QED
  BY <1>1, <1>2, ConcatProperties DEF Filled

(***************************************************************************)
(* What Copy does in these terms, for a message of which less than Half    *)
(* bytes were copied: the message is handed over, or goes on, or its       *)
(* counters say that it has a negative length.                             *)
(***************************************************************************)
LEMMA CopySteps ==
  ASSUME Inv, NEW total \in Nat, NEW wanted \in Int,
         total < Word, -Half <= wanted, wanted < Word,
         Len(response) + Unsigned(wanted) = total,
         received = Len(response), response_size = Len(response),
         Copy(total, wanted)
  PROVE  LET n == ToProcess(wanted)
         IN  /\ n \in Nat /\ n <= size /\ size' = size - n
             /\ Len(response) \in Nat /\ Len(response) + n <= total
             /\ Filled(n) \in Seq(Nat) /\ Len(Filled(n)) = Len(response) + n
             /\ remaining_size' \in Int32 /\ remaining_size' = AsInt(wanted - n)
             /\ Missing' = total - (Len(response) + n)
             /\ stream' = stream /\ arrived' = arrived /\ failed' = failed
             /\ intact' = IF cut' THEN intact ELSE handed'
             /\ \/ /\ Len(response) + n = total /\ total < Half
                   /\ handed' = Append(handed, SubSeq(Filled(n), 1, total))
                   /\ allocated' = NULL /\ response' = << >>
                   /\ response_size' = 0 /\ received' = 0
                   /\ ptr' = ptr + n /\ pc' = Again(size - n)
                \/ /\ Len(response) + n < total /\ n = size
                   /\ pc' = "idle"
                   /\ allocated' = total /\ response' = Filled(n)
                   /\ response_size' = AsInt(Len(response) + n)
                   /\ received' = response_size'
                   /\ UNCHANGED <<handed, ptr>>
                \/ /\ Len(response) + n = total /\ total >= Half
                   /\ pc' = "undefined"
                   /\ allocated' = total /\ response' = Filled(n)
                   /\ response_size' = AsInt(Len(response) + n)
                   /\ received' = response_size'
                   /\ UNCHANGED <<handed, ptr>>
<1> DEFINE n == ToProcess(wanted)
           count == AsInt(received + n)
<1>1. size \in Nat /\ size < Half /\ response \in Seq(Nat) /\ ptr \in Nat
  BY DEF Inv, TypeOK
<1>2. PICK l \in Nat : l = Len(response)
  BY <1>1, LenProperties
<1>3. /\ n \in Nat /\ n <= size /\ n <= Unsigned(wanted)
      /\ AsInt(wanted - n) \in Int32
      /\ Unsigned(AsInt(wanted - n)) = Unsigned(wanted) - n
      /\ AsInt(wanted - n) = 0 <=> Unsigned(wanted) = n
      /\ Unsigned(wanted) # n => n = size
  BY <1>1, CountsDown
<1>4. Filled(n) \in Seq(Nat) /\ Len(Filled(n)) = Len(response) + n
  BY <1>1, <1>3, FilledFacts
<1>5. /\ remaining_size' = AsInt(wanted - n) /\ size' = size - n
      /\ stream' = stream /\ arrived' = arrived /\ failed' = failed
      /\ intact' = IF cut' THEN intact ELSE handed'
  BY DEF Copy
<1>6. IF AsInt(wanted - n) = 0 /\ count >= 0
      THEN /\ handed' = Append(handed, SubSeq(Filled(n), 1, count))
           /\ allocated' = NULL /\ response' = << >>
           /\ response_size' = 0 /\ received' = 0
           /\ ptr' = ptr + n /\ pc' = Again(size - n)
      ELSE /\ allocated' = total /\ response' = Filled(n)
           /\ response_size' = AsInt(response_size + n) /\ received' = count
           /\ pc' = IF AsInt(wanted - n) = 0 THEN "undefined" ELSE "idle"
           /\ UNCHANGED <<handed, ptr>>
  BY <1>5 DEF Copy, Filled, Released
<1> HIDE DEF n
<1>7. PICK u \in Nat : u = Unsigned(wanted) /\ l + u = total
  <2>1. Unsigned(wanted) \in Nat
    BY WordFacts DEF Unsigned
  <2> QED
    BY <1>2, <2>1
<1>8. /\ l + n <= total /\ (AsInt(wanted - n) = 0 <=> l + n = total)
      /\ l + n # total => n = size
      /\ Unsigned(AsInt(wanted - n)) = total - (l + n)
  BY <1>3, <1>7
<1>9. Missing' = Unsigned(AsInt(wanted - n))
  BY <1>5 DEF Missing, Unsigned
<1>10. l + n \in Nat /\ l + n < Word
  BY <1>3, <1>8, WordFacts
<1>11. /\ count = AsInt(l + n) /\ response_size + n = l + n
       /\ count >= 0 <=> l + n < Half
       /\ count >= 0 => count = l + n
  BY <1>2, <1>10, CountsUp
<1> HIDE DEF count
<1>12. CASE l + n = total /\ total < Half
  <2>1. AsInt(wanted - n) = 0 /\ count >= 0 /\ count = total
    BY <1>8, <1>11, <1>12
  <2> QED
    BY <1>2, <1>3, <1>4, <1>5, <1>6, <1>8, <1>9, <1>12, <2>1 DEF n
<1>13. CASE l + n = total /\ ~(total < Half)
  <2>1. AsInt(wanted - n) = 0 /\ ~(count >= 0) /\ total >= Half
    BY <1>8, <1>11, <1>13, WordFacts
  <2> QED
    BY <1>2, <1>3, <1>4, <1>5, <1>6, <1>8, <1>9, <1>11, <1>13, <2>1 DEF n
<1>14. CASE l + n # total
  <2>1. AsInt(wanted - n) # 0 /\ l + n < total /\ n = size
    BY <1>3, <1>8, <1>14
  <2> QED
    BY <1>2, <1>3, <1>4, <1>5, <1>6, <1>8, <1>9, <1>11, <2>1 DEF n
<1> QED
  BY <1>12, <1>13, <1>14

\* A part of a message is copied within its allocation.
LEMMA CopyKeeps ==
  ASSUME Inv, NEW total \in Nat, NEW wanted \in Int,
         total < Word, -Half <= wanted, wanted < Word,
         Len(response) + Unsigned(wanted) = total, total > 0,
         received = Len(response), response_size = Len(response),
         cut' \in BOOLEAN,
         Copy(total, wanted)
  PROVE  Inv'
<1>1. PICK n \in Nat, l \in Nat :
         /\ n = ToProcess(wanted) /\ l = Len(response)
         /\ n <= size /\ size' = size - n
         /\ l + n <= total
         /\ Filled(n) \in Seq(Nat) /\ Len(Filled(n)) = l + n
         /\ remaining_size' \in Int32
         /\ Missing' = total - (l + n)
         /\ stream' = stream /\ arrived' = arrived /\ failed' = failed
         /\ intact' = IF cut' THEN intact ELSE handed'
         /\ \/ /\ l + n = total /\ total < Half
               /\ handed' = Append(handed, SubSeq(Filled(n), 1, total))
               /\ allocated' = NULL /\ response' = << >>
               /\ response_size' = 0 /\ received' = 0
               /\ ptr' = ptr + n /\ pc' = Again(size - n)
            \/ /\ l + n < total
               /\ pc' = "idle"
               /\ allocated' = total /\ response' = Filled(n)
               /\ response_size' = AsInt(l + n)
               /\ received' = response_size'
               /\ UNCHANGED <<handed, ptr>>
            \/ /\ l + n = total /\ total >= Half
               /\ pc' = "undefined"
               /\ allocated' = total /\ response' = Filled(n)
               /\ response_size' = AsInt(l + n)
               /\ received' = response_size'
               /\ UNCHANGED <<handed, ptr>>
  <2> DEFINE m == ToProcess(wanted)
  <2>1. m \in Nat /\ Len(response) \in Nat
    BY CopySteps
  <2>2. /\ m <= size /\ size' = size - m
        /\ Len(response) + m <= total
        /\ Filled(m) \in Seq(Nat) /\ Len(Filled(m)) = Len(response) + m
        /\ remaining_size' \in Int32
        /\ Missing' = total - (Len(response) + m)
        /\ stream' = stream /\ arrived' = arrived /\ failed' = failed
        /\ intact' = IF cut' THEN intact ELSE handed'
    BY CopySteps
  <2>3. \/ /\ Len(response) + m = total /\ total < Half
           /\ handed' = Append(handed, SubSeq(Filled(m), 1, total))
           /\ allocated' = NULL /\ response' = << >>
           /\ response_size' = 0 /\ received' = 0
           /\ ptr' = ptr + m /\ pc' = Again(size - m)
        \/ /\ Len(response) + m < total
           /\ pc' = "idle"
           /\ allocated' = total /\ response' = Filled(m)
           /\ response_size' = AsInt(Len(response) + m)
           /\ received' = response_size'
           /\ UNCHANGED <<handed, ptr>>
        \/ /\ Len(response) + m = total /\ total >= Half
           /\ pc' = "undefined"
           /\ allocated' = total /\ response' = Filled(m)
           /\ response_size' = AsInt(Len(response) + m)
           /\ received' = response_size'
           /\ UNCHANGED <<handed, ptr>>
    BY CopySteps
  <2> HIDE DEF m
  <2> QED
    BY <2>1, <2>2, <2>3 DEF m
<1>2. /\ size \in Nat /\ size < Half /\ ptr \in Nat /\ Half \in Nat /\ stream \in Streams
      /\ arrived \in Nat /\ failed \in BOOLEAN /\ handed \in Seq(Seq(Nat))
      /\ intact \in Seq(Seq(Nat))
  BY WordFacts DEF Inv, TypeOK
<1>3. size' \in Nat /\ size' < Half
  <2>1. PICK z \in Nat, h \in Nat : z = size /\ h = Half /\ z < h
    BY <1>2
  <2>2. n <= z /\ size' = z - n
    BY <1>1, <2>1
  <2> QED
    BY <2>1, <2>2
<1>4. l + n \in Nat /\ l + n < Word /\ AsInt(l + n) \in Int32 /\ 0 \in Int32
  <2>1. l + n \in Nat /\ l + n < Word
    BY <1>1, WordFacts
  <2>2. 0 \in Int32
    BY WordFacts DEF Int32
  <2> QED
    BY <2>1, <2>2, CountsUp
<1>5. CASE /\ l + n = total
           /\ handed' = Append(handed, SubSeq(Filled(n), 1, total))
           /\ allocated' = NULL
           /\ response' = << >> /\ response_size' = 0 /\ received' = 0
           /\ ptr' = ptr + n /\ pc' = Again(size - n)
  <2>1. /\ l + n = total
        /\ handed' = Append(handed, SubSeq(Filled(n), 1, total))
        /\ response' = << >> /\ response_size' = 0 /\ received' = 0
        /\ ptr' = ptr + n
    BY <1>5
  <2>2. SubSeq(Filled(n), 1, total) \in Seq(Nat)
    <3>1. PICK f \in Seq(Nat) : f = Filled(n) /\ Len(f) = total
      BY <1>1, <2>1
    <3>2. SubSeq(f, 1, Len(f)) \in Seq(Nat)
      BY <3>1, SubSeqFull
    <3> QED
      BY <3>1, <3>2
  <2>3. handed' \in Seq(Seq(Nat)) /\ intact' \in Seq(Seq(Nat))
    BY <1>1, <1>2, <2>1, <2>2, AppendProperties
  <2>4. pc' \in {"idle", "again", "closed", "endless", "undefined"} /\ pc' # "undefined"
    BY <1>5 DEF Again
  <2>5. << >> \in Seq(Nat) /\ ptr' \in Nat /\ 0 < Word
    BY <1>2, <2>1, WordFacts
  <2>6. TypeOK'
    BY <1>1, <1>2, <1>3, <1>4, <1>5, <2>1, <2>3, <2>4, <2>5 DEF TypeOK, NULL, Int32
  <2>7. CopyFits'
    BY <1>5, <2>1, <2>4 DEF CopyFits
  <2> QED
    BY <1>3, <1>5, <2>5, <2>6, <2>7 DEF Inv, NULL
<1>6. CASE /\ allocated' = total /\ response' = Filled(n)
           /\ response_size' = AsInt(l + n) /\ received' = response_size'
           /\ UNCHANGED <<handed, ptr>>
           /\ \/ pc' = "idle" /\ l + n < total
              \/ pc' = "undefined" /\ total >= Half
  <2>1. TypeOK'
    <3>1. /\ stream' \in Streams /\ arrived' \in Nat /\ failed' \in BOOLEAN
          /\ size' \in Nat /\ ptr' \in Nat /\ handed' \in Seq(Seq(Nat))
          /\ intact' \in Seq(Seq(Nat)) /\ remaining_size' \in Int32
      BY <1>1, <1>2, <1>3, <1>6
    <3>2. /\ response_size' \in Int32 /\ received' \in Int32
          /\ allocated' \in Nat /\ response' \in Seq(Nat)
          /\ pc' \in {"idle", "again", "closed", "endless", "undefined"}
      BY <1>1, <1>4, <1>6
    <3>3. Int32' = Int32
      BY DEF Int32
    <3> QED
      BY <3>1, <3>2, <3>3 DEF TypeOK
  <2>2. Len(response') = l + n /\ Len(response') + Missing' = total
    <3>1. Len(response') = l + n /\ Missing' = total - (l + n)
      BY <1>1, <1>6
    <3> QED
      BY <3>1
  <2>3. pc' # "undefined" => Missing' > 0
    <3>1. pc' # "undefined" => l + n < total
      BY <1>6
    <3>2. Missing' = total - (l + n)
      BY <1>1
    <3> QED
      BY <3>1, <3>2
  <2>4. CopyFits'
    BY <1>6, <2>2, <2>3 DEF CopyFits, NULL, AsInt
  <2> QED
    BY <1>3, <1>6, <2>1, <2>4 DEF Inv
<1> QED
  BY <1>1, <1>5, <1>6

LEMMA InvInit == Init => Inv
<1> SUFFICES ASSUME Init
             PROVE  Inv
  OBVIOUS
<1>1. << >> \in Seq(Nat) /\ << >> \in Seq(Seq(Nat)) /\ 0 \in Int32 /\ 0 < Half /\ 0 < Word
  BY WordFacts DEF Int32
<1> QED
  BY <1>1 DEF Init, Inv, TypeOK, CopyFits, NULL

\* A new message misses all of its size, ...
LEMMA NewKeeps ==
  ASSUME Inv, NewMessage
  PROVE  Inv'
<1>1. PICK s \in SizesRead : MsgSize(s) > 0 /\ Copy(MsgSize(s), MsgSize(s))
  BY DEF NewMessage
<1>2. PICK m \in Nat : m = MsgSize(s) /\ m < Word /\ m > 0
  BY <1>1, SizeFits
<1>3. Len(response) = 0 /\ received = 0 /\ response_size = 0
  BY DEF NewMessage, Inv, CopyFits
<1>4. m \in Int /\ -Half <= m /\ Unsigned(m) = m /\ Len(response) + Unsigned(m) = m
  BY <1>2, <1>3, WordFacts DEF Unsigned
<1>5. cut' \in BOOLEAN
  BY DEF NewMessage, CutHere
<1> QED
  BY <1>1, <1>2, <1>3, <1>4, <1>5, CopyKeeps

\* ... and a message that is not new what remaining_size says.
LEMMA MoreFacts ==
  ASSUME Inv, MoreOfMessage
  PROVE  /\ allocated \in Nat /\ allocated < Word /\ allocated > 0
         /\ remaining_size \in Int /\ -Half <= remaining_size /\ remaining_size < Word
         /\ Len(response) + Unsigned(remaining_size) = allocated
         /\ received = Len(response) /\ response_size = Len(response)
         /\ Copy(allocated, remaining_size)
<1>1. /\ allocated # NULL /\ response_size >= 0 /\ Copy(allocated, remaining_size)
  BY DEF MoreOfMessage
<1>2. /\ allocated \in Nat /\ allocated < Word /\ remaining_size \in Int32
      /\ response \in Seq(Nat)
  BY DEF Inv, TypeOK
<1>3. /\ Len(response) + Missing = allocated /\ response_size = AsInt(Len(response))
      /\ received = response_size
  BY <1>1 DEF Inv, CopyFits
<1>4. /\ remaining_size \in Int /\ -Half <= remaining_size /\ remaining_size < Half
  BY <1>2, WordFacts DEF Int32
<1>5. Unsigned(remaining_size) = Missing /\ Missing \in Nat
  BY <1>4, WordFacts DEF Unsigned, Missing
<1>6. PICK l \in Nat : l = Len(response) /\ l < Word
  <2>1. PICK l \in Nat, x \in Nat, a \in Nat :
          l = Len(response) /\ x = Missing /\ a = allocated /\ l + x = a /\ a < Word
    BY <1>2, <1>3, <1>5, LenProperties
  <2> QED
    BY <2>1, WordFacts
<1>7. response_size = l
  BY <1>1, <1>3, <1>6, CountsUp
<1>8. allocated > 0 /\ remaining_size < Word
  BY <1>1, <1>2, <1>4, WordFacts DEF NULL
<1> QED
  BY <1>1, <1>2, <1>3, <1>4, <1>5, <1>6, <1>7, <1>8

LEMMA InvNext == Inv /\ [Next]_vars => Inv'
<1> SUFFICES ASSUME Inv, [Next]_vars
             PROVE  Inv'
  OBVIOUS
<1>1. ASSUME NEW n \in 1 .. MaxChunk, Callback(n)
      PROVE  Inv'
  <2>1. n \in Nat /\ n < Half
    BY WordFacts, FramingAssumption
  <2>2. Missing' = Missing
    BY <1>1 DEF Callback, ints, Missing
  <2>3. TypeOK' /\ size' < Half /\ allocated' < Word
    BY <1>1, <2>1 DEF Callback, ints, history, Inv, TypeOK
  <2>4. pc # "undefined" /\ pc' = "again"
    BY <1>1 DEF Callback
  <2>5. CopyFits'
    BY <1>1, <2>2, <2>4 DEF Callback, ints, Inv, CopyFits, AsInt
  <2> QED
    BY <2>3, <2>5 DEF Inv
<1>2. CASE NewMessage
  BY <1>2, NewKeeps
<1>3. CASE MoreOfMessage
  <2>1. cut' \in BOOLEAN
    BY <1>3 DEF MoreOfMessage, Inv, TypeOK
  <2> QED
    BY <1>3, <2>1, MoreFacts, CopyKeeps
<1>4. CASE OutOfMemory
  <2>1. PICK s \in SizesRead :
          /\ remaining_size' = AsInt(MsgSize(s) - ToProcess(MsgSize(s)))
          /\ size' = size - ToProcess(MsgSize(s))
    BY <1>4 DEF OutOfMemory
  <2>2. PICK m \in Nat : m = MsgSize(s) /\ m < Word
    BY SizeFits
  <2>3. m \in Int /\ -Half <= m /\ size \in Nat /\ size < Half
    BY <2>2, WordFacts DEF Inv, TypeOK
  <2>4. ToProcess(m) \in Nat /\ ToProcess(m) <= size /\ AsInt(m - ToProcess(m)) \in Int32
    BY <2>2, <2>3, CountsDown
  <2>5. size' \in Nat /\ size' < Half /\ remaining_size' \in Int32
    BY <2>1, <2>2, <2>3, <2>4, WordFacts
  <2>6. pc' = "closed" /\ failed' = TRUE /\ allocated = NULL
        /\ UNCHANGED <<stream, arrived, ptr, allocated, response, response_size,
                       received, handed, cut, intact>>
    BY <1>4 DEF OutOfMemory, history
  <2>7. TypeOK'
    BY <2>5, <2>6 DEF Inv, TypeOK, Int32
  <2> QED
    BY <2>5, <2>6, <2>7 DEF Inv, CopyFits
<1>5. CASE /\ pc' \in {"closed", "endless"} /\ pc # "undefined"
           /\ failed' \in BOOLEAN /\ cut' \in BOOLEAN
           /\ UNCHANGED <<stream, arrived, ptr, size, allocated, response, ints, handed,
                          intact>>
  <2>1. Missing' = Missing
    BY <1>5 DEF ints, Missing
  <2>2. TypeOK'
    BY <1>5 DEF ints, Inv, TypeOK, Int32
  <2>3. CopyFits'
    BY <1>5, <2>1 DEF ints, Inv, CopyFits, AsInt
  <2> QED
    BY <1>5, <2>2, <2>3 DEF Inv
<1>6. CASE ErrorTrailer \/ Close \/ NoSize
  <2>1. /\ pc' \in {"closed", "endless"} /\ pc # "undefined"
        /\ failed' \in BOOLEAN /\ cut' \in BOOLEAN
        /\ UNCHANGED <<stream, arrived, ptr, size, allocated, response, ints, handed,
                       intact>>
    BY <1>6 DEF ErrorTrailer, Close, NoSize, CutHere, history, Inv, TypeOK
  <2> QED
    BY <1>5, <2>1
<1>7. CASE Astray
  <2>1. /\ pc' = "undefined" /\ pc = "again" /\ allocated # NULL /\ response_size < 0
        /\ UNCHANGED <<stream, arrived, ptr, size, allocated, response, response_size,
                       received, remaining_size, handed, failed, cut, intact>>
    BY <1>7 DEF Astray, ints, history
  <2>2. Missing' = Missing
    BY <2>1 DEF Missing
  <2>3. TypeOK'
    BY <2>1 DEF Inv, TypeOK, Int32
  <2>4. allocated >= Half
    <3>1. /\ Len(response) + Missing = allocated /\ response_size = AsInt(Len(response))
      BY <2>1 DEF Inv, CopyFits
    <3>2. Missing \in Nat
      BY WordFacts DEF Missing, Inv, TypeOK, Int32
    <3>3. PICK l \in Nat, x \in Nat, a \in Nat :
            l = Len(response) /\ x = Missing /\ a = allocated /\ l + x = a /\ a < Word
      BY <3>1, <3>2, LenProperties DEF Inv, TypeOK
    <3>4. l < Word
      BY <3>3, WordFacts
    <3>5. AsInt(l) < 0 /\ AsInt(l) \in Int
      BY <2>1, <3>1, <3>3, WordFacts DEF Inv, TypeOK, Int32
    <3>6. ~(l < Half)
      BY <3>4, <3>5, CountsUp
    <3> QED
      BY <3>3, <3>6, WordFacts
  <2>5. CopyFits'
    BY <2>1, <2>2, <2>4 DEF Inv, CopyFits, AsInt
  <2> QED
    BY <2>1, <2>3, <2>5 DEF Inv
<1>8. CASE UNCHANGED vars
  <2>1. UNCHANGED <<stream, arrived, pc, ptr, size, allocated, response, response_size,
                    received, remaining_size, handed, failed, cut, intact>>
    BY <1>8 DEF vars, ints, history
  <2> QED
    BY <2>1 DEF Inv, TypeOK, CopyFits, Missing, AsInt, Int32
<1> QED
  BY <1>1, <1>2, <1>3, <1>4, <1>6, <1>7, <1>8 DEF Next, Closed

\* Whatever chunks curl delivers, also if they cut a prefix so that any number
\* is read as the size: nothing is copied outside of the memory allocated for a
\* message of less than 2^31 bytes, and the handler is told how long it is; and
\* the counters agree for all others, until they turn negative (socket.c:227).
THEOREM CopyStaysInside == Spec => []CopyFits
<1>1. Inv => CopyFits
  BY DEF Inv
<1> QED
  BY InvInit, InvNext, <1>1, PTL DEF Spec

\* The variables keep their types; the three counters are ints, thus negative
\* for some sizes (socket.c:204, 222, 228).
THEOREM FramingTypes == Spec => []TypeOK
<1>1. Inv => TypeOK
  BY DEF Inv
<1> QED
  BY InvInit, InvNext, <1>1, PTL DEF Spec

----------------------------------------------------------------------------
(***************************************************************************)
(* The refinement.  Until a prefix is cut, the bytes that arrived are      *)
(* those of the messages handed over and those copied for the next one;    *)
(* what the current chunk has left begins where they end.                  *)
(***************************************************************************)
Done == Len(intact)
EndOf(k) == IF k = 0 THEN 0 ELSE stream[k]
MessageSize == stream[Done + 1] - EndOf(Done)
Bytes(k) == [j \in 1 .. k |-> EndOf(Done) + j]

HandedInOrder ==
  /\ Done <= Len(stream)
  /\ \A i \in 1 .. Done : intact[i] = Whole!Message(i)

FailedIsClosed == failed => pc = "closed"

Collecting ==
  allocated # NULL =>
    /\ Done < Len(stream)
    /\ allocated = MessageSize
    /\ received = Len(response)
    /\ response = Bytes(received)

ChunkLeft ==
  /\ pc = "idle" => arrived = EndOf(Done) + received
  /\ pc = "again" =>
       /\ ptr = EndOf(Done) + received
       /\ size > 0
       /\ arrived = ptr + size
       /\ arrived <= Length

Uncut == handed = intact /\ Collecting /\ ChunkLeft

WholeInv == Inv /\ HandedInOrder /\ FailedIsClosed /\ (~cut => Uncut)

\* Messages end one after the other.
LEMMA Ends ==
  ASSUME Inv, HandedInOrder
  PROVE  /\ Done \in Nat /\ Len(stream) \in Nat /\ Length \in Nat
         /\ EndOf(Done) \in Nat
         /\ Done = Len(stream) => EndOf(Done) = Length
         /\ Done < Len(stream) =>
              /\ Done + 1 \in 1 .. Len(stream)
              /\ Whole!Start(Done + 1) = EndOf(Done)
              /\ stream[Done + 1] \in Nat
              /\ MessageSize \in Nat
              /\ Prefix <= MessageSize /\ MessageSize < Half
              /\ \A i \in 1 .. Len(stream) :
                   Whole!Start(i) = EndOf(Done) => i = Done + 1
<1>1. Done \in Nat /\ stream \in Seq(Nat) /\ stream \in Streams
  BY StreamFacts DEF Inv, TypeOK, Done
<1>2. Len(stream) \in Nat /\ Done <= Len(stream)
  BY <1>1 DEF HandedInOrder
<1>3. \A i \in 1 .. Len(stream) : stream[i] \in Nat /\ stream[i] >= Prefix
  BY <1>1, StreamFacts
<1>4. \A i \in 1 .. Len(stream) : \A j \in 1 .. i - 1 : stream[i] >= stream[j] + Prefix
  BY <1>1, StreamFacts
<1>5. Length \in Nat /\ (Done = Len(stream) => EndOf(Done) = Length)
  <2>1. CASE stream = << >>
    BY <1>1, <1>2, <2>1 DEF Length, EndOf
  <2>2. CASE stream # << >>
    <3>1. Len(stream) # 0
      BY <1>1, <2>2, EmptySeq
    <3> QED
      BY <1>2, <1>3, <2>2, <3>1 DEF Length, EndOf
  <2> QED
    BY <2>1, <2>2
<1>6. EndOf(Done) \in Nat
  BY <1>1, <1>2, <1>3 DEF EndOf
<1>7. ASSUME Done < Len(stream)
      PROVE  /\ Done + 1 \in 1 .. Len(stream)
             /\ Whole!Start(Done + 1) = EndOf(Done)
             /\ stream[Done + 1] \in Nat
             /\ MessageSize \in Nat
             /\ Prefix <= MessageSize /\ MessageSize < Half
             /\ \A i \in 1 .. Len(stream) :
                  Whole!Start(i) = EndOf(Done) => i = Done + 1
  <2>1. Done + 1 \in 1 .. Len(stream) /\ stream[Done + 1] \in Nat
    BY <1>1, <1>2, <1>3, <1>7
  <2>2. Whole!Start(Done + 1) = EndOf(Done)
    BY <1>1 DEF Whole!Start, EndOf
  <2>3. Prefix <= MessageSize
    BY <1>1, <1>3, <1>4, <1>6, <2>1 DEF MessageSize, EndOf, Prefix
  <2>4. stream[Done + 1] < Half + (IF Done + 1 = 1 THEN 0 ELSE stream[(Done + 1) - 1])
    BY <1>1, <2>1, StreamFacts
  <2>5. MessageSize \in Nat /\ MessageSize < Half
    <3>1. stream[Done + 1] < Half + EndOf(Done)
      BY <1>1, <2>4 DEF EndOf
    <3> QED
      BY SMTT(20), <1>6, <2>1, <2>3, <3>1, WordFacts DEF MessageSize, Prefix
  <2>6. ASSUME NEW i \in 1 .. Len(stream), Whole!Start(i) = EndOf(Done)
        PROVE  i = Done + 1
    <3>1. Whole!Start(i) = EndOf(i - 1)
      BY DEF Whole!Start, EndOf
    <3>2. ASSUME NEW j \in 0 .. Len(stream), NEW k \in 0 .. Len(stream), j < k
          PROVE  EndOf(j) # EndOf(k)
      BY <1>2, <1>3, <1>4, <3>2 DEF EndOf, Prefix
    <3>3. i - 1 \in 0 .. Len(stream) /\ Done \in 0 .. Len(stream)
      BY <1>1, <1>2
    <3>4. ~(i - 1 < Done)
      BY <2>6, <3>1, <3>2, <3>3
    <3>5. ~(Done < i - 1)
      BY <2>6, <3>1, <3>2, <3>3
    <3> QED
      BY <1>1, <1>2, <3>4, <3>5
  <2> QED
    BY <2>1, <2>2, <2>3, <2>5, <2>6
<1> QED
  BY <1>1, <1>2, <1>5, <1>6, <1>7

\* What is copied continues what was copied before.
LEMMA BytesGrow ==
  ASSUME Inv, HandedInOrder, NEW n \in Nat, received \in Nat,
         ptr = EndOf(Done) + received,
         response = Bytes(received)
  PROVE  Filled(n) = Bytes(received + n)
<1>1. EndOf(Done) \in Nat /\ received \in Nat /\ ptr \in Nat
  BY Ends DEF Inv, TypeOK
<1>2. Len(Bytes(received)) = received /\ Bytes(received) \in Seq(Nat)
  BY <1>1 DEF Bytes
<1> DEFINE more == [k \in 1 .. n |-> ptr + k]
<1>3. Len(more) = n /\ more \in Seq(Nat)
  BY <1>1
<1>4. Len(Bytes(received) \o more) = received + n
  BY <1>2, <1>3, ConcatProperties
<1>5. Bytes(received + n) \in Seq(Nat) /\ Len(Bytes(received + n)) = received + n
  BY <1>1 DEF Bytes
<1>6. ASSUME NEW j \in 1 .. received + n
      PROVE  (Bytes(received) \o more)[j] = Bytes(received + n)[j]
  <2>1. Bytes(received + n)[j] = EndOf(Done) + j
    BY DEF Bytes
  <2>2. CASE j <= received
    <3>1. (Bytes(received) \o more)[j] = Bytes(received)[j]
      BY <1>1, <1>2, <1>3, <2>2, ConcatProperties
    <3> QED
      BY <1>1, <2>1, <2>2, <3>1 DEF Bytes
  <2>3. CASE j > received
    <3>1. (Bytes(received) \o more)[j] = more[j - received]
      BY SMTT(20), <1>1, <1>2, <1>3, <2>3, ConcatProperties
    <3>2. more[j - received] = ptr + (j - received)
      BY <1>1, <2>3
    <3>3. ptr + (j - received) = EndOf(Done) + j
      BY <1>1
    <3> HIDE DEF more
    <3> QED
      BY <2>1, <3>1, <3>2, <3>3
  <2>4. j <= received \/ j > received
    BY <1>1
  <2> HIDE DEF more
  <2> QED
    BY <2>2, <2>3, <2>4
<1>7. Bytes(received) \o more \in Seq(Nat)
  BY <1>2, <1>3, ConcatProperties
<1> QED
  BY <1>4, <1>5, <1>6, <1>7, SeqEqual DEF Filled

(***************************************************************************)
(* A part of the next message: the message is handed over once it is all   *)
(* there, which is a step of MessageStream, or its beginning is kept.      *)
(***************************************************************************)
LEMMA CopyImplements ==
  ASSUME WholeInv, ~cut, cut' = FALSE, pc = "again", Done < Len(stream),
         received = Len(response), response_size = Len(response),
         response = Bytes(received), received <= MessageSize,
         Copy(MessageSize, MessageSize - received), Inv'
  PROVE  WholeInv' /\ [Whole!Next]_(Whole!vars)
<1> DEFINE wanted == MessageSize - received
           n == ToProcess(wanted)
<1>1. /\ Done \in Nat /\ Len(stream) \in Nat /\ EndOf(Done) \in Nat
      /\ MessageSize \in Nat /\ Done + 1 \in 1 .. Len(stream)
      /\ MessageSize < Half
      /\ Whole!Start(Done + 1) = EndOf(Done) /\ stream[Done + 1] \in Nat
  BY Ends DEF WholeInv
<1>2. received \in Nat /\ size \in Nat /\ wanted \in Nat
  <2>1. received \in Nat
    BY LenProperties DEF WholeInv, Inv, TypeOK
  <2> QED
    BY <1>1, <2>1 DEF WholeInv, Inv, TypeOK
<1>3. /\ MessageSize < Word /\ wanted \in Int /\ -Half <= wanted /\ wanted < Word
      /\ Len(response) + Unsigned(wanted) = MessageSize
  BY <1>1, <1>2, WordFacts DEF Unsigned
<1>4. /\ n \in Nat /\ n <= size /\ size' = size - n
      /\ received + n <= MessageSize
      /\ stream' = stream /\ arrived' = arrived /\ failed' = failed
      /\ intact' = handed'
  <2>1. Inv
    BY DEF WholeInv
  <2> HIDE DEF wanted
  <2>2. Copy(MessageSize, wanted)
    BY DEF wanted
  <2>3. /\ n \in Nat /\ n <= size /\ size' = size - n
        /\ Len(response) + n <= MessageSize
        /\ stream' = stream /\ arrived' = arrived /\ failed' = failed
        /\ intact' = IF cut' THEN intact ELSE handed'
    BY <1>1, <1>3, <2>1, <2>2, CopySteps
  <2> QED
    BY <2>3
<1>5. \/ /\ received + n = MessageSize
         /\ handed' = Append(handed, SubSeq(Filled(n), 1, MessageSize))
         /\ allocated' = NULL /\ received' = 0
         /\ ptr' = ptr + n /\ pc' = Again(size - n)
      \/ /\ received + n < MessageSize /\ n = size
         /\ pc' = "idle"
         /\ allocated' = MessageSize /\ response' = Filled(n)
         /\ received' = AsInt(received + n)
         /\ UNCHANGED <<handed, ptr>>
  <2>1. ~(MessageSize >= Half)
    BY <1>1, WordFacts
  <2>2. Inv
    BY DEF WholeInv
  <2> HIDE DEF wanted
  <2>3. Copy(MessageSize, wanted)
    BY DEF wanted
  <2>4. \/ /\ Len(response) + n = MessageSize /\ MessageSize < Half
           /\ handed' = Append(handed, SubSeq(Filled(n), 1, MessageSize))
           /\ allocated' = NULL /\ response' = << >>
           /\ response_size' = 0 /\ received' = 0
           /\ ptr' = ptr + n /\ pc' = Again(size - n)
        \/ /\ Len(response) + n < MessageSize /\ n = size
           /\ pc' = "idle"
           /\ allocated' = MessageSize /\ response' = Filled(n)
           /\ response_size' = AsInt(Len(response) + n)
           /\ received' = response_size'
           /\ UNCHANGED <<handed, ptr>>
        \/ /\ Len(response) + n = MessageSize /\ MessageSize >= Half
           /\ pc' = "undefined"
           /\ allocated' = MessageSize /\ response' = Filled(n)
           /\ response_size' = AsInt(Len(response) + n)
           /\ received' = response_size'
           /\ UNCHANGED <<handed, ptr>>
    BY SMTT(60), <1>1, <1>3, <2>2, <2>3, CopySteps
  <2> HIDE DEF n
  <2> QED
    BY <2>1, <2>4
<1> HIDE DEF n, wanted
<1>6. /\ ptr = EndOf(Done) + received /\ size > 0 /\ arrived = ptr + size
      /\ arrived <= Length /\ handed = intact
  BY DEF WholeInv, Uncut, ChunkLeft
<1>7. Filled(n) = Bytes(received + n) /\ Len(Filled(n)) = received + n
  <2>1. Filled(n) = Bytes(received + n)
    BY <1>2, <1>4, <1>6, BytesGrow DEF WholeInv
  <2> QED
    BY <1>4, <2>1, FilledFacts DEF WholeInv, Inv, TypeOK
<1>8. /\ failed = FALSE /\ intact \in Seq(Seq(Nat)) /\ failed \in BOOLEAN /\ cut = FALSE
      /\ cut \in BOOLEAN
  BY DEF WholeInv, FailedIsClosed, Inv, TypeOK
<1>9. Length' = Length
  BY <1>4 DEF Length
<1>10. CASE /\ received + n = MessageSize
            /\ handed' = Append(handed, SubSeq(Filled(n), 1, MessageSize))
            /\ allocated' = NULL /\ received' = 0
            /\ ptr' = ptr + n /\ pc' = Again(size - n)
  <2>1. intact' = Append(intact, SubSeq(Filled(n), 1, received + n))
    BY <1>4, <1>6, <1>10
  <2>2. received + n = MessageSize /\ MessageSize = stream[Done + 1] - EndOf(Done)
    BY <1>10 DEF MessageSize
  <2>3. SubSeq(Filled(n), 1, received + n) = Whole!Message(Done + 1)
    <3>1. Bytes(MessageSize) \in Seq(Nat) /\ Len(Bytes(MessageSize)) = MessageSize
      BY <1>1 DEF Bytes
    <3>2. SubSeq(Bytes(MessageSize), 1, MessageSize) = Bytes(MessageSize)
      BY <1>1, <3>1, SubSeqFull
    <3>3. Bytes(MessageSize) = Whole!Message(Done + 1)
      BY <1>1 DEF Bytes, MessageSize, Whole!Message
    <3> QED
      BY <1>7, <2>2, <3>2, <3>3
  <2>10. Whole!Message(Done + 1) \in Seq(Nat)
    <3>1. Bytes(MessageSize) \in Seq(Nat)
      BY <1>1 DEF Bytes
    <3>2. Bytes(MessageSize) = Whole!Message(Done + 1)
      BY <1>1 DEF Bytes, MessageSize, Whole!Message
    <3> QED
      BY <3>1, <3>2
  <2>4. Whole!Hand
    BY <1>4, <1>8, <2>1, <2>3 DEF Whole!Hand, Done
  <2>5. Done' = Done + 1
    BY <1>8, <2>1, <2>3, <2>10, AppendProperties DEF Done
  <2>6. EndOf(Done)' = stream[Done + 1] /\ EndOf(Done)' = ptr'
    <3>1. EndOf(Done)' = stream[Done + 1]
      BY <1>1, <1>4, <2>5 DEF EndOf
    <3>2. ptr' = EndOf(Done) + received + n
      BY <1>6, <1>10
    <3> QED
      <4>1. stream[Done + 1] = EndOf(Done) + MessageSize
        BY <1>1 DEF MessageSize
      <4>2. EndOf(Done) + received + n = EndOf(Done) + (received + n)
        BY <1>1, <1>2, <1>4
      <4> QED
        BY <2>2, <3>1, <3>2, <4>1, <4>2
  <2>7. HandedInOrder'
    <3>1. ASSUME NEW i \in 1 .. Done + 1
          PROVE  intact'[i] = Whole!Message(i)'
      <4>1. Whole!Message(i)' = Whole!Message(i)
        BY <1>4 DEF Whole!Message, Whole!Start
      <4>2. CASE i = Done + 1
        <5>1. intact' = Append(intact, Whole!Message(Done + 1))
          BY <2>1, <2>3
        <5>2. intact'[Done + 1] = Whole!Message(Done + 1)
          BY <1>8, <2>10, <5>1, AppendProperties DEF Done
        <5> QED
          BY <4>1, <4>2, <5>2
      <4>3. CASE i # Done + 1
        <5>1. i \in 1 .. Done
          BY <1>1, <4>3
        <5>2. intact'[i] = intact[i]
          BY <1>8, <2>1, <2>3, <2>10, <5>1, AppendProperties DEF Done
        <5> QED
          BY <4>1, <5>1, <5>2 DEF WholeInv, HandedInOrder
      <4> QED
        BY <4>2, <4>3
    <3> QED
      BY <1>1, <1>4, <2>5, <3>1 DEF HandedInOrder
  <2>8. FailedIsClosed' /\ Collecting'
    BY <1>4, <1>8, <1>10 DEF FailedIsClosed, Collecting
  <2>9. ChunkLeft'
    <3>1. arrived' = ptr' + size' /\ ptr' \in Nat /\ size' \in Nat
      <4>1. /\ ptr \in Nat /\ arrived = ptr + size /\ arrived' = arrived
            /\ ptr' = ptr + n /\ size' = size - n
        <5>1. ptr \in Nat
          BY DEF WholeInv, Inv, TypeOK
        <5> QED
          BY <1>4, <1>6, <1>10, <5>1
      <4> QED
        BY <1>2, <1>4, <4>1
    <3>2. CASE size - n > 0
      <4>1. pc' = "again" /\ size' > 0
        BY <1>4, <1>10, <3>2 DEF Again
      <4> QED
        <5>1. ptr' = EndOf(Done)' + received'
          BY <1>10, <2>6, <3>1
        <5>2. arrived' <= Length'
          BY <1>4, <1>6, <1>9
        <5> QED
          BY <3>1, <4>1, <5>1, <5>2 DEF ChunkLeft
    <3>3. CASE ~(size - n > 0)
      <4>1. pc' = "idle" /\ size' = 0
        BY <1>2, <1>4, <1>10, <3>3 DEF Again
      <4> QED
        BY <1>10, <2>6, <3>1, <4>1 DEF ChunkLeft
    <3> QED
      BY <3>2, <3>3
  <2> QED
    BY <1>4, <2>4, <2>7, <2>8, <2>9 DEF WholeInv, Uncut, Whole!Next
<1>11. CASE /\ received + n < MessageSize /\ n = size
            /\ pc' = "idle"
            /\ allocated' = MessageSize /\ response' = Filled(n)
            /\ received' = AsInt(received + n)
            /\ UNCHANGED <<handed, ptr>>
  <2>1. received' = received + n
    <3>1. received + n \in Nat /\ received + n < Half /\ received + n < Word
      BY <1>1, <1>2, <1>4, <1>11, WordFacts
    <3> QED
      BY <1>11, <3>1, CountsUp
  <2>2. /\ intact' = intact
        /\ Done' = Done /\ EndOf(Done)' = EndOf(Done)
        /\ MessageSize' = MessageSize
    BY <1>4, <1>6, <1>11 DEF Done, EndOf, MessageSize
  <2>3. response' = Bytes(received)' /\ received' = Len(response')
    BY <1>4, <1>7, <1>11, <2>1, <2>2 DEF Bytes, EndOf, Done
  <2>4. HandedInOrder'
    BY <1>4, <2>2 DEF WholeInv, HandedInOrder, Whole!Message, Whole!Start
  <2>5. FailedIsClosed' /\ Collecting'
    BY <1>4, <1>8, <1>11, <2>2, <2>3 DEF FailedIsClosed, Collecting
  <2>6. ChunkLeft'
    <3>1. arrived' = EndOf(Done) + received + size /\ received' = received + size
      BY <1>4, <1>6, <1>11, <2>1
    <3>2. pc' = "idle" /\ EndOf(Done)' = EndOf(Done)
      BY <1>11, <2>2
    <3>3. EndOf(Done) + received + size = EndOf(Done) + (received + size)
      BY <1>1, <1>2
    <3> QED
      BY <3>1, <3>2, <3>3 DEF ChunkLeft
  <2> QED
    BY <1>4, <1>8, <2>2, <2>4, <2>5, <2>6 DEF WholeInv, Uncut, Whole!vars
<1> QED
  BY <1>5, <1>10, <1>11

\* The first chunk of a message has its size, if the prefix is not cut.
LEMMA SizeIsRead ==
  ASSUME WholeInv, ~cut, size >= Prefix, pc = "again", allocated = NULL,
         NEW s \in SizesRead
  PROVE  Done < Len(stream) /\ MsgSize(s) = MessageSize
<1>1. /\ received = 0 /\ ptr = EndOf(Done) /\ ptr \in Nat
      /\ size \in Nat /\ size > 0
      /\ arrived = ptr + size /\ arrived <= Length
  <2>1. received = 0
    BY DEF WholeInv, Inv, CopyFits
  <2>2. EndOf(Done) \in Nat
    BY Ends DEF WholeInv
  <2> QED
    BY <2>1, <2>2 DEF WholeInv, Uncut, ChunkLeft, Inv, TypeOK
<1>2. /\ Done \in Nat /\ Len(stream) \in Nat /\ Length \in Nat
      /\ Done <= Len(stream)
      /\ Done = Len(stream) => EndOf(Done) = Length
  BY Ends DEF WholeInv, HandedInOrder
<1>3. Done < Len(stream)
  BY <1>1, <1>2
<1>4. /\ Done + 1 \in 1 .. Len(stream)
      /\ Whole!Start(Done + 1) = ptr
      /\ stream[Done + 1] \in Nat /\ MessageSize \in Nat
      /\ Prefix <= MessageSize /\ MessageSize < Half
  BY <1>1, <1>3, Ends DEF WholeInv
<1>5. Unread = 1
  BY <1>1 DEF Unread, Prefix
<1>6. s \div Unread = (stream[Done + 1] - ptr - Prefix) \div Unread
  BY <1>4 DEF SizesRead
<1>7. s = stream[Done + 1] - ptr - Prefix
  <2>1. s \in Int /\ stream[Done + 1] - ptr - Prefix \in Int
    BY <1>1, <1>4, WordFacts DEF SizesRead, Prefix
  <2>2. \A x \in Int : x \div 1 = x
    OBVIOUS
  <2> QED
    BY <1>5, <1>6, <2>1, <2>2
<1>8. s + Prefix = MessageSize
  BY <1>1, <1>4, <1>7 DEF MessageSize, Prefix
<1> QED
  BY <1>3, <1>4, <1>8, WordFacts DEF MsgSize

\* Once a prefix is cut, which is a failure of MessageStream, nothing counts.
LEMMA CutFails ==
  ASSUME WholeInv, Inv', FailedIsClosed', cut' = TRUE, UNCHANGED <<stream, intact>>
  PROVE  WholeInv' /\ [Whole!Next]_(Whole!vars)
<1>1. HandedInOrder'
  BY DEF WholeInv, HandedInOrder, Done, Whole!Message, Whole!Start
<1>2. cut \in BOOLEAN /\ failed \in BOOLEAN /\ failed' \in BOOLEAN
  BY DEF WholeInv, Inv, TypeOK
<1>3. CASE failed \/ cut
  BY <1>1, <1>2, <1>3 DEF WholeInv, Whole!vars
<1>4. CASE ~(failed \/ cut)
  BY <1>1, <1>2, <1>4 DEF WholeInv, Whole!Fail, Whole!Next
<1> QED
  BY <1>3, <1>4

\* A step that hands over and copies nothing, but may end the transfer.
LEMMA NothingHanded ==
  ASSUME WholeInv, Inv', cut' = cut, pc # "closed", pc' = "closed",
         UNCHANGED <<stream, allocated, response, received, handed, intact>>
  PROVE  WholeInv' /\ [Whole!Next]_(Whole!vars)
<1>1. cut \in BOOLEAN /\ failed = FALSE /\ failed' \in BOOLEAN
  BY DEF WholeInv, FailedIsClosed, Inv, TypeOK
<1>2. /\ Done' = Done /\ MessageSize' = MessageSize
      /\ Bytes(received)' = Bytes(received)
  BY DEF Done, EndOf, MessageSize, Bytes
<1>3. HandedInOrder'
  BY <1>2 DEF WholeInv, HandedInOrder, Whole!Message, Whole!Start
<1>4. FailedIsClosed' /\ (~cut => Uncut')
  BY <1>2 DEF WholeInv, FailedIsClosed, Uncut, Collecting, ChunkLeft
<1>5. CASE failed' /\ ~cut
  BY <1>1, <1>3, <1>4, <1>5 DEF WholeInv, Whole!Fail, Whole!Next
<1>6. CASE ~failed' \/ cut
  BY <1>1, <1>3, <1>4, <1>6 DEF WholeInv, Whole!vars
<1> QED
  BY <1>5, <1>6

LEMMA WholeInit == Init => WholeInv /\ Whole!Init
<1> SUFFICES ASSUME Init
             PROVE  WholeInv /\ Whole!Init
  OBVIOUS
<1>1. Inv
  BY InvInit
<1>2. Done = 0 /\ stream \in Seq(Nat)
  BY <1>1, StreamFacts DEF Init, Done, Inv, TypeOK
<1>3. HandedInOrder
  BY <1>2 DEF HandedInOrder
<1>4. FailedIsClosed /\ Uncut
  BY <1>2 DEF Init, FailedIsClosed, Uncut, Collecting, ChunkLeft, EndOf, NULL
<1> QED
  BY <1>1, <1>3, <1>4 DEF WholeInv, Init, Whole!Init

LEMMA WholeNext ==
  ASSUME WholeInv, [Next]_vars
  PROVE  WholeInv' /\ [Whole!Next]_(Whole!vars)
<1>1. Inv' /\ cut \in BOOLEAN /\ cut' \in BOOLEAN
  BY InvNext DEF WholeInv, Inv, TypeOK
<1>2. pc # "closed" => failed = FALSE
  BY DEF WholeInv, FailedIsClosed, Inv, TypeOK
<1>3. ASSUME NEW n \in 1 .. MaxChunk, Callback(n)
      PROVE  WholeInv' /\ UNCHANGED Whole!vars
  <2>1. /\ pc = "idle" /\ pc' = "again" /\ ptr' = arrived /\ size' = n
        /\ arrived' = arrived + n /\ arrived + n <= Length
        /\ UNCHANGED <<stream, allocated, response, remaining_size, received,
                       handed, failed, cut, intact>>
    BY <1>3 DEF Callback, ints, history
  <2>2. /\ Done' = Done /\ EndOf(Done)' = EndOf(Done) /\ Length' = Length
        /\ MessageSize' = MessageSize /\ Bytes(received)' = Bytes(received)
    BY <2>1 DEF Done, EndOf, Length, MessageSize, Bytes
  <2>3. HandedInOrder'
    BY <2>1, <2>2 DEF WholeInv, HandedInOrder, Whole!Message, Whole!Start
  <2>4. FailedIsClosed'
    BY <2>1 DEF WholeInv, FailedIsClosed
  <2>5. n > 0
    BY FramingAssumption
  <2>6. ~cut => Uncut'
    BY <2>1, <2>2, <2>5 DEF WholeInv, Uncut, Collecting, ChunkLeft
  <2> QED
    BY <1>1, <2>1, <2>3, <2>4, <2>6 DEF WholeInv, Whole!vars
<1>4. CASE NewMessage
  <2>1. PICK s \in SizesRead : Copy(MsgSize(s), MsgSize(s))
    BY <1>4 DEF NewMessage
  <2>2. /\ pc = "again" /\ allocated = NULL
        /\ cut' = (cut \/ size < Prefix)
    BY <1>4 DEF NewMessage, CutHere
  <2>3. /\ stream' = stream /\ failed' = failed
        /\ intact' = IF cut' THEN intact ELSE handed'
    BY <2>1 DEF Copy
  <2>4. CASE cut'
    BY <1>1, <1>2, <2>2, <2>3, <2>4, CutFails DEF FailedIsClosed
  <2>5. CASE ~cut'
    <3>1. ~cut /\ cut' = FALSE /\ size >= Prefix
      <4>1. size \in Nat
        BY DEF WholeInv, Inv, TypeOK
      <4>2. ~cut /\ ~(size < Prefix)
        BY <2>2, <2>5
      <4> QED
        BY <1>1, <2>5, <4>1, <4>2 DEF Prefix
    <3>2. Done < Len(stream) /\ MsgSize(s) = MessageSize
      BY <2>2, <3>1, SizeIsRead
    <3>3. received = 0 /\ response_size = 0 /\ response = << >> /\ MessageSize \in Nat
      BY <2>2, <3>2, Ends DEF WholeInv, Inv, CopyFits
    <3>4. /\ response = Bytes(received) /\ received <= MessageSize
          /\ received = Len(response) /\ MessageSize - received = MessageSize
      BY <3>3 DEF Bytes
    <3> QED
      BY <1>1, <2>1, <2>2, <3>1, <3>2, <3>3, <3>4, CopyImplements
  <2> QED
    BY <2>4, <2>5
<1>5. CASE NoSize
  <2>1. PICK s \in SizesRead : MsgSize(s) = 0
    BY <1>5 DEF NoSize
  <2>2. /\ pc = "again" /\ allocated = NULL
        /\ cut' = (cut \/ size < Prefix)
        /\ UNCHANGED <<stream, intact, failed>>
    BY <1>5 DEF NoSize, CutHere
  <2>3. cut' = TRUE
    <3>1. SUFFICES ASSUME ~cut, size >= Prefix
                   PROVE  FALSE
      <4>1. size \in Nat
        BY DEF WholeInv, Inv, TypeOK
      <4>2. size >= Prefix \/ size < Prefix
        BY <4>1 DEF Prefix
      <4> QED
        BY <1>1, <2>2, <4>2
    <3>2. Done < Len(stream) /\ MessageSize = 0
      BY <2>1, <2>2, <3>1, SizeIsRead
    <3> QED
      BY <3>2, Ends DEF WholeInv, Prefix
  <2> QED
    BY <1>1, <1>2, <2>2, <2>3, CutFails DEF FailedIsClosed
<1>6. CASE MoreOfMessage
  <2>1. /\ pc = "again" /\ allocated # NULL /\ cut' = cut
        /\ Copy(allocated, remaining_size)
    BY <1>6 DEF MoreOfMessage
  <2>2. /\ stream' = stream /\ failed' = failed
        /\ intact' = IF cut' THEN intact ELSE handed'
    BY <2>1 DEF Copy
  <2>3. CASE cut
    BY <1>1, <1>2, <2>1, <2>2, <2>3, CutFails DEF FailedIsClosed
  <2>4. CASE ~cut
    <3>1. /\ Done < Len(stream) /\ allocated = MessageSize
          /\ received = Len(response) /\ response = Bytes(received)
      BY <2>1, <2>4 DEF WholeInv, Uncut, Collecting
    <3>2. /\ Len(response) + Unsigned(remaining_size) = allocated
          /\ response_size = Len(response) /\ remaining_size \in Int
          /\ -Half <= remaining_size /\ remaining_size < Half
      <4>1. Inv /\ remaining_size \in Int32
        BY DEF WholeInv, Inv, TypeOK
      <4>2. remaining_size < Half
        BY <4>1, WordFacts DEF Int32
      <4> QED
        BY <1>6, <4>1, <4>2, MoreFacts
    <3>3. Len(response) \in Nat /\ MessageSize \in Nat /\ MessageSize < Half
      BY <3>1, Ends, LenProperties DEF WholeInv, Inv, TypeOK
    <3>4. remaining_size >= 0
      BY <3>1, <3>2, <3>3, WordFacts DEF Unsigned
    <3>5. MessageSize - received = remaining_size /\ received <= MessageSize
      BY <3>1, <3>2, <3>3, <3>4 DEF Unsigned
    <3> QED
      BY <1>1, <2>1, <2>4, <3>1, <3>2, <3>5, CopyImplements
  <2> QED
    BY <2>3, <2>4
<1>7. CASE Astray
  <2>1. /\ pc = "again" /\ pc' = "undefined" /\ allocated # NULL /\ response_size < 0
        /\ UNCHANGED <<stream, intact, failed, cut>>
    BY <1>7 DEF Astray, history
  <2>2. cut
    <3>1. SUFFICES ASSUME ~cut
                   PROVE  FALSE
      OBVIOUS
    <3>2. received = Len(response)
      BY <2>1, <3>1 DEF WholeInv, Uncut, Collecting
    <3>3. response_size = received /\ Len(response) \in Nat
      BY <2>1, LenProperties DEF WholeInv, Inv, CopyFits, TypeOK
    <3> QED
      BY <2>1, <3>2, <3>3
  <2> QED
    BY <1>1, <1>2, <2>1, <2>2, CutFails DEF FailedIsClosed
<1>8. CASE OutOfMemory \/ ErrorTrailer \/ Close
  <2>1. /\ pc' = "closed" /\ pc # "closed" /\ cut' = cut
        /\ UNCHANGED <<stream, allocated, response, received, handed, intact>>
    BY <1>8 DEF OutOfMemory, ErrorTrailer, Close, history, ints
  <2> QED
    BY <1>1, <2>1, NothingHanded
<1>9. CASE UNCHANGED vars
  <2>1. UNCHANGED <<stream, arrived, pc, ptr, size, allocated, response, received,
                    handed, failed, cut, intact>>
    BY <1>9 DEF vars, ints, history
  <2>2. /\ Done' = Done /\ EndOf(Done)' = EndOf(Done) /\ Length' = Length
        /\ MessageSize' = MessageSize /\ Bytes(received)' = Bytes(received)
    BY <2>1 DEF Done, EndOf, Length, MessageSize, Bytes
  <2>3. HandedInOrder'
    BY <2>1, <2>2 DEF WholeInv, HandedInOrder, Whole!Message, Whole!Start
  <2>4. FailedIsClosed' /\ (~cut => Uncut')
    BY <2>1, <2>2 DEF WholeInv, FailedIsClosed, Uncut, Collecting, ChunkLeft
  <2> QED
    BY <1>1, <2>1, <2>3, <2>4 DEF WholeInv, Whole!vars
<1> QED
  BY <1>3, <1>4, <1>5, <1>6, <1>7, <1>8, <1>9 DEF Next, Closed

\* The callback implements MessageStream, for every stream of messages below
\* 2 GiB and every way to cut it: until a chunk ends within a prefix, which
\* counts as a failure there, the handler gets the messages the node sent, each
\* whole, in order, and none after an error (socket.c:179).
THEOREM ImplementsStream == Spec => Implements
<1>1. Init => WholeInv /\ Whole!Init
  BY WholeInit
<1>2. WholeInv /\ [Next]_vars => WholeInv' /\ [Whole!Next]_(Whole!vars)
  BY WholeNext
<1> QED
  BY <1>1, <1>2, PTL DEF Spec, Implements, Whole!Spec

\* As long as no prefix was cut, between two callbacks no message that arrived
\* as a whole waits for another chunk (socket.c:248).
THEOREM NothingWaits == Spec => []IdleMeansHanded
<1>1. ASSUME WholeInv
      PROVE  IdleMeansHanded
  <2>1. SUFFICES ASSUME pc = "idle", ~cut, NEW i \in 1 .. Len(stream), stream[i] <= arrived
                 PROVE  Len(handed) >= i
    BY DEF IdleMeansHanded
  <2>2. SUFFICES ASSUME i > Done
                 PROVE  FALSE
    BY <1>1, <2>1, Ends DEF WholeInv, Uncut, Done
  <2>3. received \in Nat
    BY <1>1, <2>1, LenProperties DEF WholeInv, Uncut, Collecting, Inv, CopyFits, TypeOK
  <2>4. /\ Done \in Nat /\ Len(stream) \in Nat /\ EndOf(Done) \in Nat
        /\ arrived = EndOf(Done) + received
    BY <1>1, <2>1, Ends DEF WholeInv, Uncut, ChunkLeft
  <2>5. Done < Len(stream)
    BY <2>2, <2>4
  <2>6. /\ Done + 1 \in 1 .. Len(stream) /\ stream[Done + 1] \in Nat
        /\ MessageSize \in Nat /\ Prefix <= MessageSize
    BY <1>1, <2>5, Ends DEF WholeInv
  <2>7. received < MessageSize
    <3>1. CASE allocated = NULL
      BY <1>1, <2>3, <2>6, <3>1 DEF WholeInv, Inv, CopyFits, Prefix
    <3>2. CASE allocated # NULL
      <4>1. received + Missing = MessageSize /\ Missing > 0
        BY <1>1, <2>1, <3>2 DEF WholeInv, Uncut, Collecting, Inv, CopyFits
      <4>2. Missing \in Nat
        BY <1>1, WordFacts DEF WholeInv, Inv, TypeOK, Missing, Int32
      <4> QED
        BY <2>3, <2>6, <4>1, <4>2
    <3> QED
      BY <3>1, <3>2
  <2>8. arrived < stream[Done + 1]
    BY <2>3, <2>4, <2>6, <2>7 DEF MessageSize
  <2>9. stream[i] \in Nat /\ (i # Done + 1 => stream[i] >= stream[Done + 1] + Prefix)
    <3>1. stream \in Streams
      BY <1>1 DEF WholeInv, Inv, TypeOK
    <3>2. i # Done + 1 => Done + 1 \in 1 .. i - 1
      BY <2>2, <2>4
    <3> QED
      BY <3>1, <3>2, StreamFacts
  <2>10. stream[i] >= stream[Done + 1]
    BY <2>6, <2>9 DEF Prefix
  <2> QED
    BY <1>1, <2>1, <2>3, <2>4, <2>6, <2>8, <2>9, <2>10
<1>2. Init => WholeInv
  BY WholeInit
<1>3. WholeInv /\ [Next]_vars => WholeInv'
  BY WholeNext
<1> QED
  BY <1>1, <1>2, <1>3, PTL DEF Spec
=============================================================================
