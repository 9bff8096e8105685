-------------------- MODULE ConversionsArguments_proofs --------------------
(***************************************************************************)
(* Proofs about the arguments of a call in Conversions, for every buffer,  *)
(* every number of arguments and every length.                             *)
(***************************************************************************)
EXTENDS Conversions, SequenceTheorems, FiniteSetTheorems, WellFoundedInduction, TLAPS

\* Every set of naturals has a least element.
LEMMA Least ==
  ASSUME NEW T \in SUBSET Nat, T # {}
  PROVE  \E x \in T : \A y \in T : x <= y
<1>1. PICK x \in T : \A y \in T : ~ (<<y, x>> \in OpToRel(<, Nat))
  BY NatLessThanWellFounded, WFMin
<1>2. \A y \in T : ~ (y < x)
  BY <1>1 DEF OpToRel
<1> QED
  BY <1>2

\* Induction, for a set of naturals.
LEMMA Inductive ==
  ASSUME NEW T \in SUBSET Nat, 0 \in T, \A n \in T : n + 1 \in T
  PROVE  T = Nat
<1>1. SUFFICES ASSUME Nat \ T # {} PROVE FALSE
  OBVIOUS
<1>2. PICK n \in Nat \ T : \A m \in Nat \ T : n <= m
  BY <1>1, Least
<1>3. n # 0 /\ n \in Nat
  OBVIOUS
<1>4. n - 1 \in Nat /\ n - 1 < n
  BY <1>3
<1>5. n - 1 \in T
  BY <1>2, <1>4
<1>6. (n - 1) + 1 = n
  BY <1>3
<1> QED
  BY <1>5, <1>6

----------------------------------------------------------------------------
(* The JSON text.                                                          *)

JsonChar == (0 .. MaxArgs) \X Nat

\* The recursion that defines the text has the function it asks for.
LEMMA JsonUpToParts ==
  ASSUME NEW a, NEW n \in Nat, n = Len(a)
  PROVE  /\ JsonUpTo(a)[0] = <<Open>>
         /\ \A k \in 1 .. n : JsonUpTo(a)[k] = JsonUpTo(a)[k - 1] \o Item(a, k)
<1> DEFINE Defines(f, m) ==
      f = [k \in 0 .. m |-> IF k = 0 THEN <<Open>> ELSE f[k - 1] \o Item(a, k)]
           T == {m \in Nat : \E f : Defines(f, m)}
<1>1. 0 \in T
  <2> DEFINE f == [k \in 0 .. 0 |-> <<Open>>]
  <2>1. Defines(f, 0)
    OBVIOUS
  <2> QED
    BY <2>1
<1>2. ASSUME NEW m \in T PROVE m + 1 \in T
  <2>1. PICK f : Defines(f, m)
    OBVIOUS
  <2>0. m \in Nat /\ m + 1 \in Nat
    OBVIOUS
  <2> DEFINE g == [k \in 0 .. m + 1 |-> IF k = m + 1 THEN f[m] \o Item(a, m + 1) ELSE f[k]]
             h == [k \in 0 .. m + 1 |-> IF k = 0 THEN <<Open>> ELSE g[k - 1] \o Item(a, k)]
  <2>2. ASSUME NEW k \in 0 .. m + 1 PROVE g[k] = h[k]
    <3>1. CASE k = m + 1
      <4>1. k # 0 /\ k - 1 = m /\ m \in 0 .. m + 1 /\ m # m + 1
        BY <3>1, <2>0
      <4>2. g[k] = f[m] \o Item(a, m + 1)
        BY <3>1
      <4>3. g[k - 1] = f[m]
        BY <4>1
      <4>4. h[k] = g[k - 1] \o Item(a, k)
        BY <4>1
      <4> QED
        BY <3>1, <4>2, <4>3, <4>4
    <3>2. CASE k # m + 1
      <4>1. k \in 0 .. m /\ g[k] = f[k]
        BY <3>2, <2>0
      <4>2. CASE k = 0
        BY <2>1, <4>1, <4>2
      <4>3. CASE k # 0
        <5>1. k - 1 \in 0 .. m + 1 /\ k - 1 # m + 1
          BY <2>0, <3>2, <4>3
        <5>2. g[k - 1] = f[k - 1]
          BY <5>1
        <5> HIDE DEF g
        <5>3. f[k] = f[k - 1] \o Item(a, k)
          BY <2>1, <4>1, <4>3
        <5> QED
          BY <4>1, <4>3, <5>2, <5>3
      <4> QED
        BY <4>2, <4>3
    <3> QED
      BY <3>1, <3>2
  <2>3. g = h
    <3>1. g = [k \in 0 .. m + 1 |-> g[k]] /\ h = [k \in 0 .. m + 1 |-> h[k]]
      OBVIOUS
    <3> HIDE DEF g, h
    <3> QED
      BY <2>2, <3>1
  <2>4. Defines(g, m + 1)
    BY <2>3
  <2> HIDE DEF Defines, g, h
  <2> QED
    BY <2>0, <2>4
<1>3. n \in T
  <2> HIDE DEF T
  <2>1. T \subseteq Nat
    BY DEF T
  <2> QED
    BY <1>1, <1>2, <2>1, Inductive
<1>4. JsonUpTo(a) = CHOOSE f : Defines(f, Len(a))
  BY DEF JsonUpTo
<1>5. Defines(JsonUpTo(a), n)
  <2>1. \E f : Defines(f, n)
    BY <1>3
  <2> HIDE DEF Defines
  <2> QED
    BY <1>4, <2>1
<1>6. JsonUpTo(a) = [k \in 0 .. n |-> IF k = 0 THEN <<Open>> ELSE JsonUpTo(a)[k - 1] \o Item(a, k)]
  BY <1>5
<1>7. ASSUME NEW k \in 0 .. n
      PROVE  JsonUpTo(a)[k] = IF k = 0 THEN <<Open>> ELSE JsonUpTo(a)[k - 1] \o Item(a, k)
  BY <1>6
<1>8. 0 \in 0 .. n /\ \A k \in 1 .. n : k \in 0 .. n /\ k # 0
  OBVIOUS
<1> QED
  BY <1>7, <1>8

\* What the text is made of.
LEMMA JsonChars ==
  /\ Open \in JsonChar /\ Close \in JsonChar /\ Comma \in JsonChar /\ Quote \in JsonChar
  /\ <<Open>> \in Seq(JsonChar) /\ <<Close>> \in Seq(JsonChar)
  /\ <<Comma>> \in Seq(JsonChar) /\ <<Quote>> \in Seq(JsonChar)
  /\ << >> \in Seq(JsonChar)
  /\ \A k \in 1 .. MaxArgs, n \in Nat :
       [c \in 1 .. n |-> <<k, c>>] \in Seq(JsonChar) /\ Len([c \in 1 .. n |-> <<k, c>>]) = n
<1>1. Open \in JsonChar /\ Close \in JsonChar /\ Comma \in JsonChar /\ Quote \in JsonChar
  BY ConversionsAssumption DEF JsonChar, Open, Close, Comma, Quote
<1>2. ASSUME NEW k \in 1 .. MaxArgs, NEW n \in Nat
      PROVE  [c \in 1 .. n |-> <<k, c>>] \in Seq(JsonChar)
             /\ Len([c \in 1 .. n |-> <<k, c>>]) = n
  <2>1. \A c \in 1 .. n : <<k, c>> \in JsonChar
    BY ConversionsAssumption DEF JsonChar
  <2> QED
    BY <2>1
<1>3. <<Open>> \in Seq(JsonChar) /\ <<Close>> \in Seq(JsonChar)
      /\ <<Comma>> \in Seq(JsonChar) /\ <<Quote>> \in Seq(JsonChar)
  BY <1>1
<1> QED
  BY <1>1, <1>2, <1>3

\* What the k-th argument of a adds to the text, and how long it is, per type.
Separators(k) == IF k > 1 THEN <<Comma>> ELSE << >>

Chars(k, n) == [c \in 1 .. n |-> <<k, c>>]

ItemLength(a, k) ==
  Len(Separators(k)) + (CASE a[k].type = "s" -> a[k].length + 2
                          [] a[k].type = "b" -> 2 * a[k].length + 2
                          [] OTHER           -> a[k].length)

\* An argument in the text, part after part.
LEMMA ItemParts ==
  ASSUME NEW a \in Seq(Arguments), Len(a) <= MaxArgs, NEW k \in 1 .. Len(a)
  PROVE  /\ a[k] \in Arguments /\ a[k].length \in Nat
         /\ a[k].type \in {"s", "i", "l", "d", "b", "?"}
         /\ k \in 1 .. MaxArgs
         /\ Separators(k) \in Seq(JsonChar) /\ Len(Separators(k)) = IF k > 1 THEN 1 ELSE 0
         /\ \A n \in Nat : Chars(k, n) \in Seq(JsonChar) /\ Len(Chars(k, n)) = n
         /\ a[k].type = "s" =>
              Item(a, k) = Separators(k)
                \o ((<<Quote>> \o Chars(k, a[k].length)) \o <<Quote>>)
         /\ a[k].type = "b" =>
              Item(a, k) = Separators(k)
                \o ((<<Quote>> \o Chars(k, 2 * a[k].length)) \o <<Quote>>)
         /\ a[k].type \in {"i", "l", "d", "?"} =>
              Item(a, k) = Separators(k) \o Chars(k, a[k].length)
<1>1. a[k] \in Arguments
  OBVIOUS
<1>2. a[k].length \in Nat /\ a[k].type \in {"s", "i", "l", "d", "b", "?"}
  BY <1>1, ConversionsAssumption
<1>3. k \in 1 .. MaxArgs
  BY ConversionsAssumption
<1>4. Separators(k) \in Seq(JsonChar) /\ Len(Separators(k)) = IF k > 1 THEN 1 ELSE 0
  <2>1. Len(<<Comma>>) = 1 /\ Len(<< >>) = 0
    OBVIOUS
  <2> QED
    BY <2>1, JsonChars DEF Separators
<1>5. \A n \in Nat : Chars(k, n) \in Seq(JsonChar) /\ Len(Chars(k, n)) = n
  BY <1>3, JsonChars DEF Chars
<1>6. a[k].type = "s" =>
        Item(a, k) = Separators(k) \o ((<<Quote>> \o Chars(k, a[k].length)) \o <<Quote>>)
  BY DEF Item, Separators, Chars
<1>7. a[k].type = "b" =>
        Item(a, k) = Separators(k) \o ((<<Quote>> \o Chars(k, 2 * a[k].length)) \o <<Quote>>)
  BY DEF Item, Separators, Chars
<1>8. a[k].type \in {"i", "l", "d", "?"} =>
        Item(a, k) = Separators(k) \o Chars(k, a[k].length)
  BY DEF Item, Separators, Chars
<1> QED
  BY <1>1, <1>2, <1>3, <1>4, <1>5, <1>6, <1>7, <1>8

\* It has the length its type makes it have.
LEMMA ItemType ==
  ASSUME NEW a \in Seq(Arguments), Len(a) <= MaxArgs, NEW k \in 1 .. Len(a)
  PROVE  /\ Item(a, k) \in Seq(JsonChar)
         /\ Len(Item(a, k)) = ItemLength(a, k)
         /\ ItemLength(a, k) \in Nat
<1>1. /\ a[k].length \in Nat /\ Separators(k) \in Seq(JsonChar)
      /\ Len(Separators(k)) \in Nat
      /\ a[k].type \in {"s", "i", "l", "d", "b", "?"}
  BY ItemParts
<1>q. <<Quote>> \in Seq(JsonChar) /\ Len(<<Quote>>) = 1
  BY JsonChars
<1>2. ASSUME NEW n \in Nat
      PROVE  /\ Chars(k, n) \in Seq(JsonChar) /\ Len(Chars(k, n)) = n
             /\ (<<Quote>> \o Chars(k, n)) \o <<Quote>> \in Seq(JsonChar)
             /\ Len((<<Quote>> \o Chars(k, n)) \o <<Quote>>) = n + 2
  <2>1. Chars(k, n) \in Seq(JsonChar) /\ Len(Chars(k, n)) = n
    BY ItemParts
  <2>2. <<Quote>> \o Chars(k, n) \in Seq(JsonChar) /\ Len(<<Quote>> \o Chars(k, n)) = 1 + n
    BY <1>q, <2>1, ConcatProperties
  <2>3. /\ (<<Quote>> \o Chars(k, n)) \o <<Quote>> \in Seq(JsonChar)
        /\ Len((<<Quote>> \o Chars(k, n)) \o <<Quote>>) = (1 + n) + 1
    BY <1>q, <2>2, ConcatProperties
  <2> QED
    BY <2>1, <2>3
<1>3. CASE a[k].type = "s"
  <2>1. PICK body \in Seq(JsonChar) :
          body = (<<Quote>> \o Chars(k, a[k].length)) \o <<Quote>> /\ Len(body) = a[k].length + 2
    BY <1>1, <1>2
  <2>2. Item(a, k) = Separators(k) \o body
    BY <1>3, <2>1, ItemParts
  <2>3. ItemLength(a, k) = Len(Separators(k)) + (a[k].length + 2)
    BY <1>3 DEF ItemLength
  <2> QED
    BY <1>1, <2>1, <2>2, <2>3, ConcatProperties
<1>4. CASE a[k].type = "b"
  <2>0. 2 * a[k].length \in Nat
    BY <1>1
  <2>1. PICK body \in Seq(JsonChar) :
          /\ body = (<<Quote>> \o Chars(k, 2 * a[k].length)) \o <<Quote>>
          /\ Len(body) = 2 * a[k].length + 2
    BY <1>2, <2>0
  <2>2. Item(a, k) = Separators(k) \o body
    BY <1>4, <2>1, ItemParts
  <2>3. ItemLength(a, k) = Len(Separators(k)) + (2 * a[k].length + 2)
    BY <1>4 DEF ItemLength
  <2> QED
    BY <1>1, <2>1, <2>2, <2>3, ConcatProperties
<1>5. CASE a[k].type \in {"i", "l", "d", "?"}
  <2>1. PICK body \in Seq(JsonChar) :
          body = Chars(k, a[k].length) /\ Len(body) = a[k].length
    BY <1>1, <1>2
  <2>2. Item(a, k) = Separators(k) \o body
    BY <1>5, <2>1, ItemParts
  <2>3. ItemLength(a, k) = Len(Separators(k)) + a[k].length
    BY <1>5 DEF ItemLength
  <2> QED
    BY <1>1, <2>1, <2>2, <2>3, ConcatProperties
<1> QED
  BY <1>1, <1>3, <1>4, <1>5

\* The text up to an argument is a text, and no longer than up to a later one.
LEMMA JsonUpToType ==
  ASSUME NEW a \in Seq(Arguments), NEW n \in Nat, n = Len(a), n <= MaxArgs
  PROVE  /\ \A k \in 0 .. n : /\ JsonUpTo(a)[k] \in Seq(JsonChar)
                              /\ Len(JsonUpTo(a)[k]) \in Nat \ {0}
                              /\ Len(JsonUpTo(a)[k]) <= Len(JsonUpTo(a)[n])
         /\ Len(JsonUpTo(a)[0]) = 1
         /\ \A k \in 1 .. n : Len(JsonUpTo(a)[k]) = Len(JsonUpTo(a)[k - 1]) + ItemLength(a, k)
<1> DEFINE F(k) == JsonUpTo(a)[k]
           typed == {k \in Nat : k <= n => F(k) \in Seq(JsonChar) /\ Len(F(k)) >= 1}
<1>0. F(0) = <<Open>> /\ \A k \in 1 .. n : F(k) = F(k - 1) \o Item(a, k)
  BY JsonUpToParts
<1>1. typed = Nat
  <2>1. 0 \in typed
    <3>1. Len(<<Open>>) = 1
      OBVIOUS
    <3>2. F(0) \in Seq(JsonChar) /\ Len(F(0)) >= 1
      BY <1>0, <3>1, JsonChars
    <3> HIDE DEF F
    <3> QED
      BY <3>2
  <2>2. ASSUME NEW k \in typed PROVE k + 1 \in typed
    <3>1. SUFFICES ASSUME k + 1 <= n
                   PROVE  F(k + 1) \in Seq(JsonChar) /\ Len(F(k + 1)) >= 1
      OBVIOUS
    <3>2. k <= n /\ k + 1 \in 1 .. n /\ (k + 1) - 1 = k
      BY <3>1
    <3>3. PICK s \in Seq(JsonChar) : s = F(k) /\ Len(s) >= 1
      BY <3>2
    <3>4. PICK t \in Seq(JsonChar) : t = Item(a, k + 1)
      BY <3>2, ItemType
    <3>5. F(k + 1) = s \o t
      BY <1>0, <3>2, <3>3, <3>4
    <3>6. s \o t \in Seq(JsonChar) /\ Len(s \o t) >= 1
      BY <3>3, ConcatProperties, LenProperties
    <3> QED
      BY <3>5, <3>6
  <2> HIDE DEF typed
  <2>3. typed \in SUBSET Nat
    BY DEF typed
  <2> QED
    BY <2>1, <2>2, <2>3, Inductive
<1>2. \A k \in 0 .. n : F(k) \in Seq(JsonChar) /\ Len(F(k)) \in Nat \ {0}
  <2>1. \A k \in 0 .. n : F(k) \in Seq(JsonChar) /\ Len(F(k)) >= 1
    BY <1>1
  <2> QED
    BY <2>1, LenProperties
<1>3. ASSUME NEW k \in 1 .. n
      PROVE  Len(F(k)) = Len(F(k - 1)) + ItemLength(a, k) /\ ItemLength(a, k) \in Nat
  <2>1. F(k) = F(k - 1) \o Item(a, k) /\ k - 1 \in 0 .. n
    BY <1>0
  <2>2. PICK s \in Seq(JsonChar) : s = F(k - 1)
    BY <1>2, <2>1
  <2>3. PICK t \in Seq(JsonChar) : t = Item(a, k) /\ Len(t) = ItemLength(a, k)
    BY ItemType
  <2>4. Len(s \o t) = Len(s) + Len(t)
    BY ConcatProperties
  <2> HIDE DEF F
  <2> QED
    BY <2>1, <2>2, <2>3, <2>4, ItemType
<1>4. Len(F(0)) = 1
  BY <1>0
<1> DEFINE L == [k \in 0 .. n |-> Len(F(k))]
           below == {d \in Nat : d <= n => L[n - d] <= L[n]}
<1>5. below = Nat
  <2>0. \A k \in 0 .. n : L[k] \in Nat
    BY <1>2
  <2>t. \A k \in 1 .. n : L[k - 1] <= L[k]
    <3>1. ASSUME NEW k \in 1 .. n PROVE L[k - 1] <= L[k]
      <4>1. k \in 0 .. n /\ k - 1 \in 0 .. n
        OBVIOUS
      <4>2. L[k] = L[k - 1] + ItemLength(a, k) /\ ItemLength(a, k) \in Nat
        BY <1>3, <4>1
      <4> HIDE DEF L
      <4> QED
        BY <2>0, <4>1, <4>2
    <3> QED
      BY <3>1
  <2> HIDE DEF L
  <2>1. 0 \in below
    BY <2>0
  <2>2. ASSUME NEW d \in below PROVE d + 1 \in below
    <3>1. SUFFICES ASSUME d + 1 <= n PROVE L[n - (d + 1)] <= L[n]
      OBVIOUS
    <3>2. d \in Nat /\ d <= n /\ L[n - d] <= L[n]
      BY <3>1
    <3>3. n - d \in 1 .. n /\ n - (d + 1) = (n - d) - 1 /\ n - (d + 1) \in 0 .. n
      BY <3>1, <3>2
    <3>4. L[n - (d + 1)] <= L[n - d]
      BY <2>t, <3>3
    <3> QED
      BY <2>0, <3>2, <3>3, <3>4
  <2> HIDE DEF below
  <2>3. below \in SUBSET Nat
    BY DEF below
  <2> QED
    BY <2>1, <2>2, <2>3, Inductive
<1>6. ASSUME NEW k \in 0 .. n PROVE Len(F(k)) <= Len(F(n))
  <2>1. n - k \in below /\ n - k <= n /\ n - (n - k) = k
    <3>1. n - k \in Nat /\ n - k <= n /\ n - (n - k) = k
      OBVIOUS
    <3> HIDE DEF below
    <3> QED
      BY <1>5, <3>1
  <2>2. L[k] <= L[n]
    <3> HIDE DEF L
    <3> QED
      BY <2>1
  <2> QED
    BY <2>2
<1> QED
  BY <1>2, <1>3, <1>4, <1>6

\* The text and its NUL fit.
Fits == Len(Json) + 1 <= BufSize

JsonType ==
  /\ args \in Seq(Arguments) /\ Len(args) <= MaxArgs
  /\ i \in 0 .. Len(args)
  /\ buf \in Seq(JsonChar)
  /\ dsize \in Int
  /\ top \in Nat

(***************************************************************************)
(* The space is counted from what was written, and not at all before the   *)
(* first argument; what was written is the text up to the next argument,   *)
(* as long as the whole text fits.                                         *)
(***************************************************************************)
JsonInv ==
  /\ JsonType
  /\ pc \in {"idle", "sent", "printed"} => args = << >>
  /\ pc = "writing" => dsize = IF i = 0 THEN BufSize - 2 ELSE Room(buf)
  /\ Fits => /\ top <= BufSize
             /\ pc = "writing" => buf = JsonUpTo(args)[i]
             /\ pc = "accepted" => buf = Json
  /\ SmallAccepted

\* The whole text has one character more than the arguments.
LEMMA JsonLength ==
  ASSUME JsonType
  PROVE  /\ Len(args) \in Nat
         /\ Len(Json) = Len(JsonUpTo(args)[Len(args)]) + 1
         /\ Len(Json) \in Nat
<1>1. Len(args) \in Nat
  BY DEF JsonType
<1>2. PICK s \in Seq(JsonChar) : s = JsonUpTo(args)[Len(args)]
  BY <1>1, JsonUpToType DEF JsonType
<1>3. Len(Append(s, Close)) = Len(s) + 1 /\ Len(s) \in Nat
  BY JsonChars, AppendProperties
<1> QED
  BY <1>1, <1>2, <1>3 DEF Json

(***************************************************************************)
(* Where an argument is written: what the code writes is named as in the   *)
(* text, and if the text fits, it is there up to this argument, and what   *)
(* follows has room for the bracket and the NUL.                           *)
(***************************************************************************)
LEMMA WritingFacts ==
  ASSUME JsonInv, pc = "writing", i < Len(args)
  PROVE  /\ i + 1 \in 1 .. Len(args) /\ i + 1 \in 1 .. MaxArgs /\ (i + 1) - 1 = i
         /\ buf \in Seq(JsonChar) /\ Len(buf) \in Nat
         /\ Separator = Separators(i + 1)
         /\ \A n : Characters(n) = Chars(i + 1, n)
         /\ dsize \in Int /\ dsize = IF i = 0 THEN BufSize - 2 ELSE Room(buf)
         /\ Fits => /\ buf = JsonUpTo(args)[i]
                    /\ Len(buf) >= 1
                    /\ i = 0 => Len(buf) = 1
                    /\ Len(buf) + ItemLength(args, i + 1) + 1 <= Len(Json)
                    /\ Len(Json) <= BufSize - 1
<1>1. /\ args \in Seq(Arguments) /\ Len(args) \in Nat /\ Len(args) <= MaxArgs
      /\ i \in 0 .. Len(args) /\ MaxArgs \in Nat /\ BufSize \in Nat
  BY ConversionsAssumption DEF JsonInv, JsonType
<1>2. i + 1 \in 1 .. Len(args) /\ i + 1 \in 1 .. MaxArgs /\ (i + 1) - 1 = i
  BY <1>1
<1>3. buf \in Seq(JsonChar) /\ Len(buf) \in Nat
  BY DEF JsonInv, JsonType
<1>4. Separator = Separators(i + 1)
  BY <1>1 DEF Separator, Separators
<1>5. \A n : Characters(n) = Chars(i + 1, n)
  BY DEF Characters, Chars
<1>6. dsize \in Int /\ dsize = IF i = 0 THEN BufSize - 2 ELSE Room(buf)
  BY DEF JsonInv, JsonType
<1>7. ASSUME Fits
      PROVE  /\ buf = JsonUpTo(args)[i]
             /\ Len(buf) >= 1
             /\ i = 0 => Len(buf) = 1
             /\ Len(buf) + ItemLength(args, i + 1) + 1 <= Len(Json)
             /\ Len(Json) <= BufSize - 1
  <2> DEFINE L == [k \in 0 .. Len(args) |-> Len(JsonUpTo(args)[k])]
             size == ItemLength(args, i + 1)
  <2>1. buf = JsonUpTo(args)[i] /\ Len(buf) = L[i]
    BY <1>1, <1>7 DEF JsonInv
  <2>2. \A k \in 0 .. Len(args) : L[k] \in Nat \ {0} /\ L[k] <= L[Len(args)]
    <3>1. \A k \in 0 .. Len(args) : /\ Len(JsonUpTo(args)[k]) \in Nat \ {0}
                                   /\ Len(JsonUpTo(args)[k]) <= Len(JsonUpTo(args)[Len(args)])
      BY <1>1, JsonUpToType
    <3>2. Len(args) \in 0 .. Len(args)
      BY <1>1
    <3> QED
      BY <3>1, <3>2
  <2>3. L[0] = 1 /\ L[i + 1] = L[i] + size
    <3>1. /\ Len(JsonUpTo(args)[0]) = 1
          /\ Len(JsonUpTo(args)[i + 1]) = Len(JsonUpTo(args)[(i + 1) - 1]) + size
      BY <1>1, <1>2, JsonUpToType
    <3>2. 0 \in 0 .. Len(args) /\ i \in 0 .. Len(args) /\ i + 1 \in 0 .. Len(args)
      BY <1>1, <1>2
    <3> QED
      BY <1>2, <3>1, <3>2
  <2>4. Len(Json) = L[Len(args)] + 1
    BY <1>1, JsonLength DEF JsonInv
  <2>5. size \in Nat
    BY <1>1, <1>2, ItemType
  <2>6. Len(Json) + 1 <= BufSize
    BY <1>7 DEF Fits
  <2>8. PICK j \in Nat : j = Len(Json)
    BY <1>1, JsonLength DEF JsonInv
  <2>9. Len(args) \in 0 .. Len(args) /\ i + 1 \in 0 .. Len(args)
    BY <1>1, <1>2
  <2> HIDE DEF L, size
  <2> QED
    <3>1. L[i] \in Nat \ {0} /\ L[i + 1] \in Nat /\ L[i + 1] <= L[Len(args)]
      BY <1>1, <2>2, <2>9
    <3>2. L[Len(args)] \in Nat /\ j = L[Len(args)] + 1 /\ j + 1 <= BufSize
      BY <2>2, <2>4, <2>6, <2>8, <2>9
    <3>3. L[i] + size + 1 <= j /\ j <= BufSize - 1
      <4>1. PICK x, y, z \in Nat : x = L[i] /\ y = L[i + 1] /\ z = L[Len(args)]
        BY <3>1, <3>2
      <4>2. y = x + size /\ y <= z /\ j = z + 1 /\ j + 1 <= BufSize
        BY <2>3, <3>1, <3>2, <4>1
      <4>3. BufSize \in Nat
        BY <1>1
      <4>4. x + size + 1 <= j /\ j <= BufSize - 1
        BY <2>5, <4>2, <4>3
      <4> QED
        BY <4>1, <4>4
    <3> QED
      BY <1>1, <2>1, <2>3, <2>8, <3>1, <3>3 DEF size
<1> QED
  BY <1>2, <1>3, <1>4, <1>5, <1>6, <1>7

\* Amounts leave the arguments alone, of which there are none then.
LEMMA AmountsLeaveJson ==
  ASSUME JsonInv, Transfer \/ TransferInt \/ PrintBalance
  PROVE  JsonInv'
<1>1. pc \in {"idle", "sent"} /\ pc' \in {"sent", "refused", "printed"} /\ UNCHANGED json
  BY DEF Transfer, TransferInt, PrintBalance, TransferStr
<1>2. args = << >> /\ args' = << >>
  BY <1>1 DEF JsonInv, json
<1>3. JsonType' /\ Json' = Json /\ Fits' = Fits
  BY <1>1 DEF JsonInv, JsonType, Fits, Json, JsonUpTo, json
<1>4. SmallAccepted'
  BY <1>2 DEF SmallAccepted
<1> QED
  BY <1>1, <1>2, <1>3, <1>4 DEF JsonInv, json

\* The bracket is the text up to no argument.
LEMMA JsonBegin ==
  ASSUME JsonInv, BeginJson
  PROVE  JsonInv'
<1>0. PICK n \in 0 .. MaxArgs : args' \in [1 .. n -> Arguments]
  BY DEF BeginJson
<1>1. PICK a \in [1 .. n -> Arguments] : args' = a
  BY <1>0
<1>2. n \in Nat /\ n <= MaxArgs /\ BufSize \in Nat /\ BufSize >= 28
  BY ConversionsAssumption
<1>3. a \in Seq(Arguments) /\ Len(a) = n
  BY <1>2
<1>4. /\ pc' = "writing" /\ i' = 0 /\ buf' = <<Open>> /\ dsize' = BufSize - 2 /\ top' = 1
  BY DEF BeginJson
<1>5. JsonType'
  BY <1>1, <1>2, <1>3, <1>4, JsonChars DEF JsonType
<1>6. buf' = (JsonUpTo(args)[i])'
  BY <1>1, <1>2, <1>3, <1>4, JsonUpToParts
<1>7. SmallAccepted'
  BY <1>4 DEF SmallAccepted
<1> QED
  BY <1>2, <1>4, <1>5, <1>6, <1>7 DEF JsonInv

\* An argument that is written as the text has it, and no byte after it.
LEMMA JsonWritten ==
  ASSUME JsonInv, pc = "writing", i < Len(args), NEW b \in Seq(JsonChar), NEW w \in Nat,
         Written(b, w), Fits => b = buf \o Item(args, i + 1) /\ w <= Len(b) + 1
  PROVE  JsonInv'
<1>1. /\ i' = i + 1 /\ buf' = b /\ dsize' = Room(b) /\ UNCHANGED <<pc, args>>
      /\ top' = IF top < w THEN w ELSE top
  BY DEF Written, Reach
<1>2. /\ JsonType /\ i + 1 \in 1 .. Len(args) /\ (i + 1) - 1 = i /\ Len(args) \in Nat
      /\ i \in Nat /\ top \in Nat /\ BufSize \in Nat
      /\ args \in Seq(Arguments) /\ Len(args) <= MaxArgs /\ buf \in Seq(JsonChar)
  BY WritingFacts, JsonLength, ConversionsAssumption DEF JsonInv, JsonType
<1>3. Room(b) \in Int /\ Len(b) \in Nat
  BY <1>2, LenProperties DEF Room
<1>4. JsonType'
  BY <1>1, <1>2, <1>3 DEF JsonType
<1>5. Json' = Json /\ Fits' = Fits
  BY <1>1 DEF Json, JsonUpTo, Fits
<1>6. ASSUME Fits
      PROVE  top' <= BufSize /\ buf' = (JsonUpTo(args)[i])'
  <2>1. /\ buf = JsonUpTo(args)[i]
        /\ Len(buf) + ItemLength(args, i + 1) + 1 <= Len(Json)
        /\ Len(Json) <= BufSize - 1
    BY <1>6, WritingFacts
  <2>2. JsonUpTo(args)[i + 1] = JsonUpTo(args)[(i + 1) - 1] \o Item(args, i + 1)
    BY <1>2, JsonUpToParts
  <2>3. b = JsonUpTo(args)[i + 1]
    BY <1>2, <1>6, <2>1, <2>2
  <2>4. PICK t \in Seq(JsonChar) : t = Item(args, i + 1) /\ Len(t) = ItemLength(args, i + 1)
    BY <1>2, ItemType
  <2>5. b = buf \o t /\ Len(buf \o t) = Len(buf) + Len(t)
    BY <1>2, <1>6, <2>4, ConcatProperties
  <2>6. PICK j \in Nat : j = Len(Json)
    BY <1>2, JsonLength
  <2>7. Len(b) + 1 <= j /\ j <= BufSize - 1
    BY <2>1, <2>4, <2>5, <2>6
  <2>8. w <= BufSize /\ top <= BufSize
    BY <1>2, <1>3, <1>6, <2>7 DEF JsonInv
  <2> QED
    BY <1>1, <2>3, <2>8
<1>7. SmallAccepted'
  BY <1>1 DEF SmallAccepted
<1>8. i' # 0
  BY <1>1, <1>2
<1>9. (pc = "writing" => dsize = IF i = 0 THEN BufSize - 2 ELSE Room(buf))'
  BY <1>1, <1>8 DEF Room
<1> QED
  BY <1>1, <1>4, <1>5, <1>6, <1>7, <1>9 DEF JsonInv

\* An argument is refused rightly if the text leaves less than 15 bytes over;
\* some of it may have been written.
LEMMA JsonRefused ==
  ASSUME JsonInv, pc = "writing", i < Len(args),
         pc' = "refused", UNCHANGED <<args, i, buf, dsize>>,
         top' \in Nat, Fits => top' <= BufSize,
         \/ args[i + 1].type = "?"
         \/ Fits => Len(Json) + 16 > BufSize
  PROVE  JsonInv'
<1>1. pc' = "refused" /\ UNCHANGED <<args, i, buf, dsize>> /\ top' \in Nat
  OBVIOUS
<1>2. Json' = Json /\ Fits' = Fits /\ JsonType'
  BY <1>1 DEF Json, JsonUpTo, Fits, JsonInv, JsonType
<1>3. SmallAccepted'
  <2>1. Len(Json) \in Nat /\ BufSize \in Nat /\ i + 1 \in 1 .. Len(args)
    BY JsonLength, WritingFacts, ConversionsAssumption DEF JsonInv
  <2>2. CASE args[i + 1].type = "?"
    BY <1>1, <2>1, <2>2 DEF SmallAccepted
  <2>3. CASE Fits => Len(Json) + 16 > BufSize
    <3>1. Len(Json) + 1 + 15 > BufSize
      BY <2>1, <2>3 DEF Fits
    <3> QED
      BY <1>1, <1>2, <3>1 DEF SmallAccepted
  <2> QED
    BY <2>2, <2>3
<1> QED
  BY <1>1, <1>2, <1>3 DEF JsonInv

\* Most arguments are refused before anything of them is written.
LEMMA JsonInvalid ==
  ASSUME JsonInv, pc = "writing", i < Len(args), Invalid,
         \/ args[i + 1].type = "?"
         \/ Fits => Len(Json) + 16 > BufSize
  PROVE  JsonInv'
<1>1. pc' = "refused" /\ UNCHANGED <<args, i, buf, dsize>> /\ top' = top
  BY DEF Invalid, json
<1>2. top' \in Nat /\ (Fits => top' <= BufSize)
  BY <1>1 DEF JsonInv, JsonType
<1> QED
  BY <1>1, <1>2, JsonRefused

\* The last bracket makes it the whole text.
LEMMA JsonEnd ==
  ASSUME JsonInv, EndJson
  PROVE  JsonInv'
<1>1. /\ pc' = "accepted" /\ buf' = Append(buf, Close) /\ UNCHANGED <<args, i, dsize>>
      /\ top' = IF top < Len(buf) + 2 THEN Len(buf) + 2 ELSE top
      /\ pc = "writing" /\ i = Len(args)
  BY DEF EndJson, Reach
<1>2. buf \in Seq(JsonChar) /\ Len(buf) \in Nat /\ top \in Nat /\ BufSize \in Nat
  BY LenProperties, ConversionsAssumption DEF JsonInv, JsonType
<1>3. buf' \in Seq(JsonChar) /\ top' \in Nat
  BY <1>1, <1>2, JsonChars, AppendProperties
<1>4. JsonType'
  BY <1>1, <1>3 DEF JsonInv, JsonType
<1>5. Json' = Json /\ Fits' = Fits
  BY <1>1 DEF Json, JsonUpTo, Fits
<1>6. ASSUME Fits PROVE top' <= BufSize /\ buf' = Json
  <2>1. buf = JsonUpTo(args)[Len(args)] /\ top <= BufSize
    BY <1>1, <1>6 DEF JsonInv
  <2>2. Len(Json) = Len(buf) + 1 /\ Len(Json) + 1 <= BufSize
    BY <1>6, <2>1, JsonLength DEF JsonInv, Fits
  <2> QED
    BY <1>1, <1>2, <2>1, <2>2 DEF Json
<1>7. SmallAccepted'
  BY <1>1 DEF SmallAccepted
<1> QED
  BY <1>1, <1>4, <1>5, <1>6, <1>7 DEF JsonInv

\* Texts put together, in either order.
LEMMA Associative ==
  ASSUME NEW x \in Seq(JsonChar), NEW y \in Seq(JsonChar), NEW z \in Seq(JsonChar)
  PROVE  (x \o y) \o z = x \o (y \o z)
BY SMTT(30), ConcatAssociative

\* Texts put together are a text.
LEMMA Concat ==
  ASSUME NEW x \in Seq(JsonChar), NEW y \in Seq(JsonChar)
  PROVE  x \o y \in Seq(JsonChar) /\ Len(x \o y) = Len(x) + Len(y)
BY ConcatProperties

\* What the code writes part after part, seen as an item of the text.
LEMMA Quoted ==
  ASSUME NEW b \in Seq(JsonChar), NEW s \in Seq(JsonChar), NEW c \in Seq(JsonChar)
  PROVE  LET t == b \o s \o <<Quote>> \o c
         IN  /\ t \in Seq(JsonChar) /\ Len(t) = Len(b) + Len(s) + 1 + Len(c)
             /\ Append(t, Quote) = b \o (s \o ((<<Quote>> \o c) \o <<Quote>>))
             /\ t \o <<Quote>> = b \o (s \o ((<<Quote>> \o c) \o <<Quote>>))
             /\ Append(t, Quote) \in Seq(JsonChar)
<1> DEFINE q == <<Quote>>
           bs == b \o s
           bsq == bs \o q
           t == bsq \o c
           qc == q \o c
           qcq == qc \o q
<1>1. q \in Seq(JsonChar) /\ Len(q) = 1 /\ Quote \in JsonChar
  BY JsonChars
<1> HIDE DEF q
<1>2. bs \in Seq(JsonChar) /\ Len(bs) = Len(b) + Len(s)
  BY Concat
<1>3. bs \o (qcq) = b \o (s \o qcq)
  <2>1. qc \in Seq(JsonChar)
    BY <1>1, Concat
  <2> HIDE DEF qc
  <2>2. qcq \in Seq(JsonChar)
    BY <1>1, <2>1, Concat
  <2> HIDE DEF qcq
  <2> QED
    BY <2>2, Associative
<1> HIDE DEF bs
<1>4. bsq \in Seq(JsonChar) /\ Len(bsq) = Len(bs) + 1
  BY <1>1, <1>2, Concat
<1>5. t = bs \o qc
  BY <1>1, <1>2, Associative
<1> HIDE DEF bsq
<1>6. t \in Seq(JsonChar) /\ Len(t) = Len(bsq) + Len(c)
  BY <1>4, Concat
<1>7. qc \in Seq(JsonChar)
  BY <1>1, Concat
<1> HIDE DEF t, qc
<1>8. t \o q = bs \o qcq
  <2>1. (bs \o qc) \o q = bs \o (qc \o q)
    BY ZenonT(40), <1>1, <1>2, <1>7, Associative
  <2> QED
    BY <1>5, <2>1
<1>9. Append(t, Quote) = t \o q /\ Append(t, Quote) \in Seq(JsonChar)
  BY <1>1, <1>6, AppendIsConcat, AppendProperties DEF q
<1>10. Len(t) = Len(b) + Len(s) + 1 + Len(c)
  BY <1>2, <1>4, <1>6, LenProperties
<1>11. t \o q = b \o (s \o qcq)
  BY <1>3, <1>8
<1> QED
  BY <1>6, <1>9, <1>10, <1>11 DEF q, bs, bsq, t, qc

\* A string: if the text fits, then so does every character, with the limit.
LEMMA JsonString ==
  ASSUME JsonInv, StringArgument
  PROVE  JsonInv'
<1> DEFINE n == args[i + 1].length
           s == Separators(i + 1)
           c == Chars(i + 1, n)
           b == buf \o s \o <<Quote>> \o c \o <<Quote>>
           start == Len(buf) + Len(s) + 1
<1>1. pc = "writing" /\ i < Len(args) /\ args[i + 1].type = "s"
  BY DEF StringArgument, Writing
<1>2. /\ i + 1 \in 1 .. Len(args) /\ args \in Seq(Arguments) /\ Len(args) <= MaxArgs
      /\ buf \in Seq(JsonChar) /\ Len(buf) \in Nat /\ BufSize \in Nat
  BY <1>1, WritingFacts, ConversionsAssumption DEF JsonInv, JsonType
<1>3. /\ n \in Nat /\ s \in Seq(JsonChar) /\ Len(s) \in Nat
      /\ c \in Seq(JsonChar) /\ Len(c) = n
      /\ Item(args, i + 1) = s \o ((<<Quote>> \o c) \o <<Quote>>)
      /\ ItemLength(args, i + 1) = Len(s) + (n + 2)
  <2>1. n \in Nat /\ s \in Seq(JsonChar) /\ Len(s) = IF i + 1 > 1 THEN 1 ELSE 0
    BY <1>2, ItemParts
  <2>2. c \in Seq(JsonChar) /\ Len(c) = n
    BY <1>2, <2>1, ItemParts
  <2>3. Item(args, i + 1) = s \o ((<<Quote>> \o c) \o <<Quote>>)
    BY <1>1, <1>2, ItemParts
  <2>4. ItemLength(args, i + 1) = Len(s) + (n + 2)
    BY <1>1 DEF ItemLength
  <2> QED
    BY <2>1, <2>2, <2>3, <2>4
<1>4. /\ b \in Seq(JsonChar) /\ Len(b) = Len(buf) + Len(s) + 1 + n + 1
      /\ b = buf \o Item(args, i + 1)
  <2> HIDE DEF n, s, c
  <2>1. /\ buf \o s \o <<Quote>> \o c \in Seq(JsonChar)
        /\ Len(buf \o s \o <<Quote>> \o c) = Len(buf) + Len(s) + 1 + Len(c)
        /\ b = buf \o (s \o ((<<Quote>> \o c) \o <<Quote>>))
    BY <1>2, <1>3, Quoted
  <2>2. <<Quote>> \in Seq(JsonChar) /\ Len(<<Quote>>) = 1
    BY JsonChars
  <2>3. b \in Seq(JsonChar) /\ Len(b) = Len(buf) + Len(s) + 1 + Len(c) + 1
    BY <2>1, <2>2, Concat
  <2> HIDE DEF b
  <2> QED
    BY <1>3, <2>1, <2>3
<1>w. start \in Nat /\ start + n + 1 = Len(b)
  <2> HIDE DEF n, s, c, b
  <2> QED
    BY <1>2, <1>3, <1>4
<1>5. IF n > 0 /\ start + n > BufSize - 4
      THEN /\ pc' = "refused" /\ UNCHANGED <<args, i, buf, dsize>>
           /\ top' = Reach(IF start < BufSize - 4 THEN BufSize - 4 + 1 ELSE start + 1)
      ELSE Written(b, start + n + 1)
  BY SMTT(20), <1>1, WritingFacts DEF StringArgument
<1>6. Fits => /\ Len(buf) + (Len(s) + (n + 2)) + 1 <= Len(Json)
              /\ Len(Json) <= BufSize - 1
  BY <1>1, <1>3, WritingFacts
<1> HIDE DEF n, s, c, b
<1>7. CASE n > 0 /\ start + n > BufSize - 4
  <2>1. PICK j \in Nat : j = Len(Json)
    BY JsonLength DEF JsonInv
  <2>2. Fits => Len(Json) + 16 > BufSize
    BY <1>2, <1>3, <1>6, <1>7, <2>1
  <2>n. (IF start < BufSize - 4 THEN BufSize - 4 + 1 ELSE start + 1) \in Nat
    BY <1>2, <1>w
  <2>3. PICK w \in Nat : w = IF start < BufSize - 4 THEN BufSize - 4 + 1 ELSE start + 1
    BY <2>n
  <2>4. Fits => w <= BufSize
    BY <1>2, <1>3, <1>6, <1>7, <2>1, <2>3
  <2>5. pc' = "refused" /\ UNCHANGED <<args, i, buf, dsize>> /\ top' = Reach(w)
    BY <1>5, <1>7, <2>3
  <2>6. top \in Nat /\ (Fits => top <= BufSize)
    BY DEF JsonInv, JsonType
  <2>7. top' \in Nat /\ (Fits => top' <= BufSize)
    BY <2>4, <2>5, <2>6 DEF Reach
  <2> QED
    BY <1>1, <2>2, <2>5, <2>7, JsonRefused
<1>8. CASE ~(n > 0 /\ start + n > BufSize - 4)
  <2>1. Written(b, Len(b))
    BY <1>5, <1>8, <1>w
  <2>2. Len(b) \in Nat /\ Len(b) <= Len(b) + 1
    BY <1>4, LenProperties
  <2> QED
    BY <1>1, <1>4, <2>1, <2>2, JsonWritten
<1> QED
  BY <1>7, <1>8

\* A blob needs what is asked for: two quotes, two digits a byte, one more.
LEMMA JsonBlob ==
  ASSUME JsonInv, BlobArgument
  PROVE  JsonInv'
<1> DEFINE n == 2 * args[i + 1].length
           s == Separators(i + 1)
           c == Chars(i + 1, n)
           b == buf \o s \o <<Quote>> \o c \o <<Quote>>
<1>1. pc = "writing" /\ i < Len(args) /\ args[i + 1].type = "b"
  BY DEF BlobArgument, Writing
<1>2. /\ i + 1 \in 1 .. Len(args) /\ args \in Seq(Arguments) /\ Len(args) <= MaxArgs
      /\ buf \in Seq(JsonChar) /\ Len(buf) \in Nat /\ BufSize \in Nat /\ i \in Nat
      /\ dsize = IF i = 0 THEN BufSize - 2 ELSE Room(buf)
  BY <1>1, WritingFacts, ConversionsAssumption DEF JsonInv, JsonType
<1>n. args[i + 1].length \in Nat /\ n \in Nat
  <2>1. args[i + 1].length \in Nat
    BY <1>2, ItemParts
  <2> QED
    BY <2>1
<1>3. /\ s \in Seq(JsonChar) /\ Len(s) = IF i + 1 > 1 THEN 1 ELSE 0
      /\ c \in Seq(JsonChar) /\ Len(c) = n
      /\ Item(args, i + 1) = s \o ((<<Quote>> \o c) \o <<Quote>>)
      /\ ItemLength(args, i + 1) = Len(s) + (n + 2)
  BY <1>1, <1>2, <1>n, ItemParts DEF ItemLength
<1>4. b \in Seq(JsonChar) /\ Len(b) \in Nat /\ b = buf \o Item(args, i + 1)
  <2> HIDE DEF n, s, c
  <2>1. buf \o s \o <<Quote>> \o c \in Seq(JsonChar)
        /\ b = buf \o (s \o ((<<Quote>> \o c) \o <<Quote>>))
    BY <1>2, <1>3, Quoted
  <2>2. <<Quote>> \in Seq(JsonChar)
    BY JsonChars
  <2>3. b \in Seq(JsonChar)
    BY <2>1, <2>2, Concat
  <2> HIDE DEF b
  <2> QED
    BY <1>3, <2>1, <2>3, LenProperties
<1>5. IF dsize < n + 3 THEN Invalid ELSE Written(b, Len(b))
  BY <1>1, WritingFacts DEF BlobArgument, Needs
<1>6. Fits => /\ Len(buf) + (Len(s) + (n + 2)) + 1 <= Len(Json)
              /\ Len(Json) <= BufSize - 1
              /\ i = 0 => Len(buf) = 1
  BY <1>1, <1>3, WritingFacts
<1> HIDE DEF n, s, c, b
<1>7. CASE dsize < n + 3
  <2>1. Len(Json) \in Nat
    BY JsonLength DEF JsonInv
  <2>2. Fits => Len(Json) + 16 > BufSize
    BY SMTT(20), <1>2, <1>n, <1>3, <1>6, <1>7, <2>1 DEF Room
  <2> QED
    BY <1>1, <1>5, <1>7, <2>2, JsonInvalid
<1>8. CASE ~(dsize < n + 3)
  <2>1. Written(b, Len(b))
    BY <1>5, <1>8
  <2>2. Len(b) <= Len(b) + 1
    BY <1>4
  <2> QED
    BY <1>1, <1>4, <2>1, <2>2, JsonWritten
<1> QED
  BY <1>7, <1>8

\* If the text fits, then snprintf has room for the whole number.
LEMMA JsonNumber ==
  ASSUME JsonInv, NumberArgument
  PROVE  JsonInv'
<1> DEFINE a == args[i + 1]
           n == a.length
           s == Separators(i + 1)
           m == IF n < dsize THEN n ELSE dsize - 1
           c == Chars(i + 1, m)
           b == buf \o s \o c
<1>1. pc = "writing" /\ i < Len(args) /\ a.type \in {"i", "l", "d"}
  BY DEF NumberArgument, Writing
<1>2. /\ i + 1 \in 1 .. Len(args) /\ args \in Seq(Arguments) /\ Len(args) <= MaxArgs
      /\ buf \in Seq(JsonChar) /\ Len(buf) \in Nat /\ BufSize \in Nat /\ BufSize >= 28
      /\ i \in Nat /\ dsize \in Int /\ dsize = IF i = 0 THEN BufSize - 2 ELSE Room(buf)
  BY <1>1, WritingFacts, ConversionsAssumption DEF JsonInv, JsonType
<1>3. /\ n \in Nat /\ s \in Seq(JsonChar) /\ Len(s) = IF i + 1 > 1 THEN 1 ELSE 0
      /\ Item(args, i + 1) = s \o Chars(i + 1, n)
      /\ ItemLength(args, i + 1) = Len(s) + n
      /\ a \in Arguments
  BY <1>1, <1>2, ItemParts DEF ItemLength
<1>4. Needs(a) = IF a.type = "d" THEN 26 ELSE 12
  BY <1>1 DEF Needs
<1>5. IF dsize < Needs(a) THEN Invalid ELSE Written(b, Len(b) + 1)
  BY <1>1, WritingFacts DEF NumberArgument
<1>6. Fits => /\ Len(buf) + (Len(s) + n) + 1 <= Len(Json)
              /\ Len(Json) <= BufSize - 1
              /\ i = 0 => Len(buf) = 1
              /\ Len(buf) >= 1
  BY <1>1, <1>3, WritingFacts
<1>7. CASE dsize < Needs(a)
  <2>1. Len(Json) \in Nat
    BY JsonLength DEF JsonInv
  <2>2. a.type = "d" => n >= 8
    BY <1>3, ConversionsAssumption
  <2> HIDE DEF a, n, s, m, c, b
  <2>3. i # 0 /\ BufSize < Len(buf) + Needs(a)
    BY <1>2, <1>4, <1>7 DEF Room
  <2>4. Fits => Len(Json) + 16 > BufSize
    BY <1>2, <1>3, <1>4, <1>6, <2>1, <2>2, <2>3
  <2> QED
    BY <1>1, <1>5, <1>7, <2>4, JsonInvalid
<1>8. CASE ~(dsize < Needs(a))
  <2>1. Written(b, Len(b) + 1)
    BY <1>5, <1>8
  <2>2. dsize >= 12
    BY <1>2, <1>4, <1>8
  <2>3. m \in Nat
    BY <1>2, <1>3, <2>2
  <2>4. c \in Seq(JsonChar)
    BY <1>2, <2>3, ItemParts
  <2>5. b \in Seq(JsonChar)
    <3> HIDE DEF a, n, s, m, c
    <3>1. buf \o s \in Seq(JsonChar)
      BY <1>2, <1>3, Concat
    <3> QED
      BY <2>4, <3>1, Concat
  <2>6. ASSUME Fits PROVE b = buf \o Item(args, i + 1)
    <3>1. n < dsize
      <4>1. PICK j \in Nat : j = Len(Json)
        BY JsonLength DEF JsonInv
      <4> HIDE DEF a, n, s, m, c, b
      <4>2. Len(buf) + (Len(s) + n) + 1 <= j /\ j <= BufSize - 1
            /\ (i = 0 => Len(buf) = 1) /\ Len(buf) >= 1
        BY <1>6, <2>6, <4>1
      <4>3. CASE i = 0
        BY <1>2, <1>3, <4>2, <4>3
      <4>4. CASE i # 0
        BY <1>2, <1>3, <4>2, <4>4 DEF Room
      <4> QED
        BY <4>3, <4>4
    <3>2. c = Chars(i + 1, n)
      BY <3>1
    <3> HIDE DEF a, n, s, m, c
    <3>3. (buf \o s) \o c = buf \o (s \o c)
      BY <1>2, <1>3, <2>4, Associative
    <3> QED
      BY <1>3, <3>2, <3>3
  <2>7. Len(b) + 1 \in Nat /\ Len(b) + 1 <= Len(b) + 1
    <3> HIDE DEF b
    <3> QED
      BY <2>5, LenProperties
  <2> HIDE DEF b
  <2> QED
    BY <1>1, <2>1, <2>5, <2>6, <2>7, JsonWritten
<1> QED
  BY <1>7, <1>8

\* The invariant is kept by each step.
LEMMA JsonNext == ASSUME JsonInv, [Next]_vars PROVE JsonInv'
<1>1. CASE Transfer \/ TransferInt \/ PrintBalance
  BY <1>1, AmountsLeaveJson
<1>2. CASE BeginJson \/ EndJson
  BY <1>2, JsonBegin, JsonEnd
<1>3. CASE StringArgument \/ NumberArgument \/ BlobArgument
  BY <1>3, JsonString, JsonNumber, JsonBlob
<1>4. CASE UnknownArgument
  <2>1. pc = "writing" /\ i < Len(args) /\ args[i + 1].type = "?" /\ Invalid
    BY <1>4 DEF UnknownArgument, Writing
  <2> QED
    BY <2>1, JsonInvalid
<1>5. CASE UNCHANGED vars
  <2>1. UNCHANGED <<pc, args, i, buf, dsize, top>>
    BY <1>5 DEF vars
  <2>2. Json' = Json /\ JsonUpTo(args)' = JsonUpTo(args)
    BY <2>1 DEF Json, JsonUpTo
  <2>3. JsonType' /\ Room(buf)' = Room(buf) /\ SmallAccepted'
    BY <2>1, <2>2 DEF JsonInv, JsonType, SmallAccepted, Room
  <2> QED
    BY <2>1, <2>2, <2>3 DEF JsonInv, Fits
<1> QED
  BY <1>1, <1>2, <1>3, <1>4, <1>5 DEF Next

\* It holds in the initial state,
LEMMA JsonInit == Init => JsonInv
<1> SUFFICES ASSUME Init PROVE JsonInv
  OBVIOUS
<1>1. args = << >> /\ i = 0 /\ buf = << >> /\ dsize = 0 /\ top = 0 /\ pc = "idle"
  BY DEF Init
<1>2. Len(args) = 0 /\ args \in Seq(Arguments) /\ MaxArgs \in Nat /\ BufSize \in Nat
      /\ buf \in Seq(JsonChar)
  BY <1>1, ConversionsAssumption
<1>3. JsonType
  BY <1>1, <1>2 DEF JsonType
<1>4. SmallAccepted
  BY <1>1 DEF SmallAccepted
<1> QED
  BY <1>1, <1>2, <1>3, <1>4 DEF JsonInv

\* and thus always.
LEMMA JsonInvariance == Spec => []JsonInv
BY JsonInit, JsonNext, PTL DEF Spec

(***************************************************************************)
(* A call whose arguments fit the buffer as text, with the NUL, is sent    *)
(* with exactly that text, and nothing is ever written past the buffer:    *)
(* for every size of it from 28 bytes on (arguments_to_json).              *)
(***************************************************************************)
THEOREM ArgumentsFit == Spec => []ArgumentsExact
<1>1. JsonInv => ArgumentsExact
  BY DEF JsonInv, ArgumentsExact, Fits
<1> QED
  BY JsonInvariance, <1>1, PTL

\* And it is refused only for an unknown type or if less than 15 bytes would be
\* left over (arguments_to_json, its checks of dsize).
THEOREM ReservesAreSmall == Spec => []SmallAccepted
<1>1. JsonInv => SmallAccepted
  BY DEF JsonInv
<1> QED
  BY JsonInvariance, <1>1, PTL

(***************************************************************************)
(* How far past the end of the buffer the code may write.                  *)
(***************************************************************************)
EmptyUpTo(a, k) == {j \in 1 .. k : a[j].type = "s" /\ a[j].length = 0}

\* The empty strings up to an argument are finitely many, no more than all of
\* them, and one more with each.
LEMMA EmptyStringsCounted ==
  ASSUME NEW a \in Seq(Arguments), NEW k \in Nat, k < Len(a)
  PROVE  LET E == EmptyUpTo(a, k)
             F == EmptyUpTo(a, k + 1)
             A == EmptyUpTo(a, Len(a))
         IN  /\ Cardinality(E) \in Nat /\ Cardinality(F) \in Nat /\ Cardinality(A) \in Nat
             /\ Cardinality(E) <= Cardinality(F) /\ Cardinality(F) <= Cardinality(A)
             /\ a[k + 1].type = "s" /\ a[k + 1].length = 0
                  => Cardinality(F) = Cardinality(E) + 1
<1> DEFINE E == EmptyUpTo(a, k)
           F == EmptyUpTo(a, k + 1)
           A == EmptyUpTo(a, Len(a))
<1>1. IsFiniteSet(1 .. Len(a)) /\ Len(a) \in Nat
  BY FS_Interval
<1>2. E \subseteq F /\ F \subseteq A /\ A \subseteq 1 .. Len(a)
  BY <1>1 DEF EmptyUpTo
<1>3. IsFiniteSet(A)
  BY <1>1, <1>2, FS_Subset
<1>4. IsFiniteSet(F)
  BY <1>2, <1>3, FS_Subset
<1>5. IsFiniteSet(E)
  BY <1>2, <1>4, FS_Subset
<1>6. Cardinality(E) \in Nat /\ Cardinality(F) \in Nat /\ Cardinality(A) \in Nat
  BY <1>3, <1>4, <1>5, FS_CardinalityType
<1>7. Cardinality(E) <= Cardinality(F) /\ Cardinality(F) <= Cardinality(A)
  BY <1>2, <1>3, <1>4, FS_Subset
<1>8. ASSUME a[k + 1].type = "s" /\ a[k + 1].length = 0
      PROVE  Cardinality(F) = Cardinality(E) + 1
  <2>1. F = E \cup {k + 1} /\ ~ (k + 1 \in E)
    BY <1>8 DEF EmptyUpTo
  <2> HIDE DEF E, F
  <2> QED
    BY <1>5, <2>1, FS_AddElement
<1> QED
  BY <1>6, <1>7, <1>8

(***************************************************************************)
(* The text goes past the end by 3 bytes for every empty string in it, and *)
(* what follows it by 3 more.                                              *)
(***************************************************************************)
OverrunInv ==
  /\ JsonInv
  /\ pc = "writing" => /\ i = 0 => Len(buf) = 1
                       /\ Len(buf) <= BufSize + 3 * Cardinality(EmptyUpTo(args, i))
  /\ OverrunBounded

\* An argument keeps it if the text stays within the buffer, or grows by 3 with
\* an empty string.
LEMMA OverrunWritten ==
  ASSUME OverrunInv, pc = "writing", i < Len(args), NEW b \in Seq(JsonChar), NEW w \in Nat,
         Written(b, w), JsonInv', w <= Len(b) + 1,
         \/ Len(b) <= BufSize
         \/ /\ args[i + 1].type = "s" /\ args[i + 1].length = 0
            /\ Len(b) <= Len(buf) + 3
  PROVE  OverrunInv'
<1>1. /\ i' = i + 1 /\ buf' = b /\ args' = args /\ pc' = pc
      /\ top' = IF top < w THEN w ELSE top
  BY DEF Written, Reach
<1>2. /\ args \in Seq(Arguments) /\ i \in Nat /\ top \in Nat /\ BufSize \in Nat
      /\ Len(buf) \in Nat /\ Len(b) \in Nat
  BY ConversionsAssumption, LenProperties DEF OverrunInv, JsonInv, JsonType
<1>3. PICK e \in Nat, f \in Nat, g \in Nat :
        /\ e = Cardinality(EmptyUpTo(args, i)) /\ f = Cardinality(EmptyUpTo(args, i + 1))
        /\ g = Cardinality(EmptyUpTo(args, Len(args)))
        /\ e <= f /\ f <= g
        /\ args[i + 1].type = "s" /\ args[i + 1].length = 0 => f = e + 1
  BY <1>2, EmptyStringsCounted
<1>4. Len(buf) <= BufSize + 3 * e /\ top <= BufSize + 3 + 3 * g
  BY <1>3 DEF OverrunInv, OverrunBounded, EmptyStrings, EmptyUpTo
<1>n. PICK lb \in Nat, l \in Nat : lb = Len(b) /\ l = Len(buf)
  BY <1>2
<1>m. lb <= BufSize \/ (f = e + 1 /\ lb <= l + 3)
  BY <1>3, <1>n
<1>5. Len(b) <= BufSize + 3 * f
  <2>1. CASE lb <= BufSize
    BY <1>2, <1>n, <2>1
  <2>2. CASE f = e + 1 /\ lb <= l + 3
    BY <1>2, <1>n, <1>4, <2>2
  <2> QED
    BY <1>m, <2>1, <2>2
<1>6. top' <= BufSize + 3 + 3 * g
  <2>1. lb <= BufSize + 3 * g /\ w <= lb + 1
    BY SMTT(30), <1>2, <1>3, <1>5, <1>n
  <2>2. w <= BufSize + 3 + 3 * g
    BY SMTT(30), <1>2, <2>1
  <2> QED
    BY <1>1, <1>4, <2>2
<1>7. OverrunBounded'
  BY <1>1, <1>3, <1>6 DEF OverrunBounded, EmptyStrings, EmptyUpTo
<1>8. i' # 0
  BY <1>1, <1>2
<1> QED
  BY <1>1, <1>3, <1>5, <1>7, <1>8 DEF OverrunInv

\* So does every other step: what it writes past the text is 3 bytes at most.
LEMMA OverrunStopped ==
  ASSUME OverrunInv, pc = "writing", JsonInv', pc' # "writing", args' = args,
         NEW w \in Nat, w <= Len(buf) + 3 \/ w <= BufSize, top' = Reach(w)
  PROVE  OverrunInv'
<1>1. /\ args \in Seq(Arguments) /\ i \in 0 .. Len(args) /\ top \in Nat /\ BufSize \in Nat
      /\ Len(buf) \in Nat /\ Len(args) \in Nat
  BY ConversionsAssumption, LenProperties DEF OverrunInv, JsonInv, JsonType
<1>2. PICK e \in Nat, g \in Nat :
        /\ e = Cardinality(EmptyUpTo(args, i))
        /\ g = Cardinality(EmptyUpTo(args, Len(args)))
        /\ e <= g
  <2>1. CASE i = Len(args)
    <3>1. EmptyUpTo(args, Len(args)) \subseteq 1 .. Len(args) /\ IsFiniteSet(1 .. Len(args))
      BY <1>1, FS_Interval DEF EmptyUpTo
    <3>2. Cardinality(EmptyUpTo(args, Len(args))) \in Nat
      BY <3>1, FS_Subset, FS_CardinalityType
    <3> QED
      BY <2>1, <3>2
  <2>2. CASE i < Len(args)
    <3>1. i \in Nat
      BY <1>1
    <3>2. PICK e \in Nat, f \in Nat, g \in Nat :
            /\ e = Cardinality(EmptyUpTo(args, i))
            /\ f = Cardinality(EmptyUpTo(args, i + 1))
            /\ g = Cardinality(EmptyUpTo(args, Len(args)))
            /\ e <= f /\ f <= g
      BY <1>1, <2>2, <3>1, EmptyStringsCounted
    <3> QED
      BY <3>2
  <2> QED
    BY <1>1, <2>1, <2>2
<1>3. Len(buf) <= BufSize + 3 * e /\ top <= BufSize + 3 + 3 * g
  BY <1>2 DEF OverrunInv, OverrunBounded, EmptyStrings, EmptyUpTo
<1>4. top' <= BufSize + 3 + 3 * g
  <2>1. PICK l \in Nat : l = Len(buf)
    BY <1>1
  <2>2. w <= BufSize + 3 + 3 * g
    BY SMTT(30), <1>1, <1>2, <1>3, <2>1
  <2>3. top' = IF top < w THEN w ELSE top
    BY DEF Reach
  <2> QED
    BY <1>3, <2>2, <2>3
<1>5. OverrunBounded'
  BY <1>2, <1>4 DEF OverrunBounded, EmptyStrings, EmptyUpTo
<1> QED
  BY <1>5 DEF OverrunInv

\* An argument that is invalid leaves what was written as it is.
LEMMA OverrunInvalid ==
  ASSUME OverrunInv, pc = "writing", JsonInv', Invalid
  PROVE  OverrunInv'
<1>1. pc' # "writing" /\ args' = args /\ top' = top /\ top = Reach(0)
  BY DEF Invalid, json, OverrunInv, JsonInv, JsonType, Reach
<1>2. Len(buf) \in Nat
  BY LenProperties DEF OverrunInv, JsonInv, JsonType
<1>3. top' = Reach(0) /\ 0 \in Nat /\ 0 <= Len(buf) + 3
  BY <1>1, <1>2
<1> QED
  BY <1>1, <1>3, OverrunStopped

\* A string ends before limit, unless it is empty.
LEMMA OverrunString ==
  ASSUME OverrunInv, StringArgument, JsonInv'
  PROVE  OverrunInv'
<1> DEFINE n == args[i + 1].length
           s == Separators(i + 1)
           c == Chars(i + 1, n)
           b == buf \o s \o <<Quote>> \o c \o <<Quote>>
           start == Len(buf) + Len(s) + 1
           w == IF start < BufSize - 4 THEN BufSize - 4 + 1 ELSE start + 1
<1>1. pc = "writing" /\ i < Len(args) /\ args[i + 1].type = "s"
  BY DEF StringArgument, Writing
<1>2. /\ i + 1 \in 1 .. Len(args) /\ args \in Seq(Arguments) /\ Len(args) <= MaxArgs
      /\ buf \in Seq(JsonChar) /\ Len(buf) \in Nat /\ BufSize \in Nat
  BY <1>1, WritingFacts, ConversionsAssumption DEF OverrunInv, JsonInv, JsonType
<1>3. /\ n \in Nat /\ s \in Seq(JsonChar) /\ Len(s) = IF i + 1 > 1 THEN 1 ELSE 0
  BY <1>2, ItemParts
<1>4. c \in Seq(JsonChar) /\ Len(c) = n
  BY <1>2, <1>3, ItemParts
<1>5. /\ b \in Seq(JsonChar) /\ Len(b) = Len(buf) + Len(s) + 1 + n + 1
  <2> HIDE DEF n, s, c
  <2>1. /\ buf \o s \o <<Quote>> \o c \in Seq(JsonChar)
        /\ Len(buf \o s \o <<Quote>> \o c) = Len(buf) + Len(s) + 1 + Len(c)
    BY <1>2, <1>3, <1>4, Quoted
  <2>2. <<Quote>> \in Seq(JsonChar) /\ Len(<<Quote>>) = 1
    BY JsonChars
  <2>3. b \in Seq(JsonChar) /\ Len(b) = Len(buf) + Len(s) + 1 + Len(c) + 1
    BY <2>1, <2>2, Concat
  <2> HIDE DEF b
  <2> QED
    BY <1>4, <2>3
<1>6. IF n > 0 /\ start + n > BufSize - 4
      THEN pc' = "refused" /\ args' = args /\ top' = Reach(w)
      ELSE Written(b, start + n + 1)
  BY SMTT(20), <1>1, WritingFacts DEF StringArgument, OverrunInv
<1>7. Len(s) \in 0 .. 1
  <2> HIDE DEF s
  <2> QED
    BY <1>2, <1>3
<1> HIDE DEF n, s, c, b
<1>8. start \in Nat /\ start <= Len(buf) + 2 /\ start + n + 1 = Len(b)
  BY <1>2, <1>3, <1>5, <1>7
<1>9. CASE n > 0 /\ start + n > BufSize - 4
  <2>1. w \in Nat /\ (w <= Len(buf) + 3 \/ w <= BufSize)
    BY <1>2, <1>8
  <2>2. pc' = "refused" /\ args' = args /\ top' = Reach(w)
    BY <1>6, <1>9
  <2> HIDE DEF w
  <2> QED
    BY <1>1, <2>1, <2>2, OverrunStopped
<1>10. CASE ~ (n > 0 /\ start + n > BufSize - 4)
  <2>1. Written(b, Len(b)) /\ Len(b) \in Nat /\ Len(b) <= Len(b) + 1
    BY <1>6, <1>8, <1>10, <1>5, LenProperties
  <2>2. \/ Len(b) <= BufSize
        \/ n = 0 /\ Len(b) <= Len(buf) + 3
    BY <1>2, <1>3, <1>8, <1>10
  <2>3. n = args[i + 1].length
    BY DEF n
  <2> QED
    BY <1>1, <1>5, <2>1, <2>2, <2>3, OverrunWritten
<1> QED
  BY <1>9, <1>10

\* A blob takes no more than was left.
LEMMA OverrunBlob ==
  ASSUME OverrunInv, BlobArgument, JsonInv'
  PROVE  OverrunInv'
<1> DEFINE n == 2 * args[i + 1].length
           s == Separators(i + 1)
           c == Chars(i + 1, n)
           b == buf \o s \o <<Quote>> \o c \o <<Quote>>
<1>1. pc = "writing" /\ i < Len(args) /\ args[i + 1].type = "b"
  BY DEF BlobArgument, Writing
<1>2. /\ i + 1 \in 1 .. Len(args) /\ args \in Seq(Arguments) /\ Len(args) <= MaxArgs
      /\ buf \in Seq(JsonChar) /\ Len(buf) \in Nat /\ BufSize \in Nat /\ i \in Nat
      /\ dsize \in Int /\ dsize = IF i = 0 THEN BufSize - 2 ELSE BufSize - Len(buf)
      /\ i = 0 => Len(buf) = 1
  BY <1>1, WritingFacts, ConversionsAssumption DEF OverrunInv, JsonInv, JsonType, Room
<1>3. args[i + 1].length \in Nat /\ s \in Seq(JsonChar) /\ Len(s) = IF i + 1 > 1 THEN 1 ELSE 0
  BY <1>2, ItemParts
<1>4. n \in Nat
  BY <1>3
<1>5. c \in Seq(JsonChar) /\ Len(c) = n
  BY <1>2, <1>4, ItemParts
<1>6. /\ b \in Seq(JsonChar) /\ Len(b) = Len(buf) + Len(s) + 1 + n + 1
  <2> HIDE DEF n, s, c
  <2>1. /\ buf \o s \o <<Quote>> \o c \in Seq(JsonChar)
        /\ Len(buf \o s \o <<Quote>> \o c) = Len(buf) + Len(s) + 1 + Len(c)
    BY <1>2, <1>3, <1>5, Quoted
  <2>2. <<Quote>> \in Seq(JsonChar) /\ Len(<<Quote>>) = 1
    BY JsonChars
  <2>3. b \in Seq(JsonChar) /\ Len(b) = Len(buf) + Len(s) + 1 + Len(c) + 1
    BY <2>1, <2>2, Concat
  <2> HIDE DEF b
  <2> QED
    BY <1>5, <2>3
<1>7. IF dsize < n + 3 THEN Invalid ELSE Written(b, Len(b))
  BY <1>1, WritingFacts DEF BlobArgument, Needs, OverrunInv
<1> HIDE DEF n, s, c, b
<1>8. CASE dsize < n + 3
  BY <1>1, <1>7, <1>8, OverrunInvalid
<1>9. CASE ~ (dsize < n + 3)
  <2>1. Written(b, Len(b)) /\ Len(b) \in Nat /\ Len(b) <= Len(b) + 1
    BY <1>6, <1>7, <1>9, LenProperties
  <2>2. Len(b) <= BufSize
    <3>1. CASE i = 0
      <4>1. Len(s) = 0 /\ dsize = BufSize - 2 /\ Len(buf) = 1
        BY <1>2, <1>3, <3>1
      <4> QED
        BY <1>2, <1>4, <1>6, <1>9, <4>1
    <3>2. CASE i # 0
      <4>1. Len(s) = 1 /\ dsize = BufSize - Len(buf)
        BY <1>2, <1>3, <3>2
      <4> QED
        BY <1>2, <1>4, <1>6, <1>9, <4>1
    <3> QED
      BY <3>1, <3>2
  <2> QED
    BY <1>1, <1>6, <2>1, <2>2, OverrunWritten
<1> QED
  BY <1>8, <1>9

\* A number is cut at the end of the buffer, which its comma may move by one.
LEMMA OverrunNumber ==
  ASSUME OverrunInv, NumberArgument, JsonInv'
  PROVE  OverrunInv'
<1> DEFINE a == args[i + 1]
           n == a.length
           s == Separators(i + 1)
           m == IF n < dsize THEN n ELSE dsize - 1
           c == Chars(i + 1, m)
           b == buf \o s \o c
<1>1. pc = "writing" /\ i < Len(args) /\ a.type \in {"i", "l", "d"}
  BY DEF NumberArgument, Writing
<1>2. /\ i + 1 \in 1 .. Len(args) /\ args \in Seq(Arguments) /\ Len(args) <= MaxArgs
      /\ buf \in Seq(JsonChar) /\ Len(buf) \in Nat /\ BufSize \in Nat /\ i \in Nat
      /\ dsize \in Int /\ dsize = IF i = 0 THEN BufSize - 2 ELSE BufSize - Len(buf)
      /\ i = 0 => Len(buf) = 1
  BY <1>1, WritingFacts, ConversionsAssumption DEF OverrunInv, JsonInv, JsonType, Room
<1>3. n \in Nat /\ s \in Seq(JsonChar) /\ Len(s) = IF i + 1 > 1 THEN 1 ELSE 0
  BY <1>2, ItemParts
<1>4. Needs(a) = IF a.type = "d" THEN 26 ELSE 12
  BY <1>1 DEF Needs
<1>5. IF dsize < Needs(a) THEN Invalid ELSE Written(b, Len(b) + 1)
  BY <1>1, WritingFacts DEF NumberArgument, OverrunInv
<1>6. CASE dsize < Needs(a)
  BY <1>1, <1>5, <1>6, OverrunInvalid
<1>7. CASE ~ (dsize < Needs(a))
  <2>1. dsize >= 12
    BY <1>2, <1>4, <1>7
  <2>2. m \in Nat /\ m <= dsize - 1
    BY <1>2, <1>3, <2>1
  <2>3. c \in Seq(JsonChar) /\ Len(c) = m
    BY <1>2, <2>2, ItemParts
  <2>4. b \in Seq(JsonChar) /\ Len(b) = Len(buf) + Len(s) + m
    <3> HIDE DEF a, n, s, m, c
    <3>1. buf \o s \in Seq(JsonChar) /\ Len(buf \o s) = Len(buf) + Len(s)
      BY <1>2, <1>3, Concat
    <3>2. (buf \o s) \o c \in Seq(JsonChar)
          /\ Len((buf \o s) \o c) = Len(buf \o s) + Len(c)
      BY <2>3, <3>1, Concat
    <3> QED
      BY <2>3, <3>1, <3>2
  <2>5. Written(b, Len(b) + 1)
    BY <1>5, <1>7
  <2> HIDE DEF a, n, s, m, c, b
  <2>6. Len(b) <= BufSize
    <3>1. CASE i = 0
      <4>1. Len(s) = 0 /\ dsize = BufSize - 2 /\ Len(buf) = 1
        BY <1>2, <1>3, <3>1
      <4> QED
        BY <1>2, <2>2, <2>4, <4>1
    <3>2. CASE i # 0
      <4>1. Len(s) = 1 /\ dsize = BufSize - Len(buf)
        BY <1>2, <1>3, <3>2
      <4> QED
        BY <1>2, <2>2, <2>4, <4>1
    <3> QED
      BY <3>1, <3>2
  <2>7. Len(b) + 1 \in Nat /\ Len(b) + 1 <= Len(b) + 1
    BY <2>4, LenProperties
  <2> QED
    BY <1>1, <2>4, <2>5, <2>6, <2>7, OverrunWritten
<1> QED
  BY <1>6, <1>7

\* Every step keeps it.
LEMMA OverrunNext == ASSUME OverrunInv, [Next]_vars PROVE OverrunInv'
<1>0. JsonInv'
  BY JsonNext DEF OverrunInv
<1>1. CASE Transfer \/ TransferInt \/ PrintBalance \/ UNCHANGED vars
  <2>1. UNCHANGED <<args, top, i, buf>> /\ (pc' = pc \/ pc' # "writing")
    BY <1>1 DEF Transfer, TransferInt, PrintBalance, TransferStr, json, vars
  <2> QED
    BY <1>0, <2>1 DEF OverrunInv, OverrunBounded, EmptyStrings, EmptyUpTo
<1>2. CASE BeginJson
  <2>1. i' = 0 /\ buf' = <<Open>> /\ top' = 1
    BY <1>2 DEF BeginJson
  <2>2. Len(buf') = 1 /\ BufSize \in Nat /\ BufSize >= 28
    BY <2>1, ConversionsAssumption
  <2>3. EmptyUpTo(args', 0) = {} /\ Cardinality({}) = 0
    BY FS_EmptySet DEF EmptyUpTo
  <2>4. Cardinality(EmptyStrings') \in Nat
    <3>1. Len(args') \in Nat
      BY <1>0 DEF JsonInv, JsonType
    <3>2. EmptyStrings' \subseteq 1 .. Len(args')
      BY DEF EmptyStrings
    <3>3. 0 \in Int /\ 1 \in Int /\ Len(args') \in Int
      BY <3>1
    <3>4. IsFiniteSet(1 .. Len(args'))
      BY <3>3, FS_Interval
    <3> QED
      BY <3>2, <3>4, FS_Subset, FS_CardinalityType
  <2>5. OverrunBounded'
    BY <2>1, <2>2, <2>4 DEF OverrunBounded
  <2>6. Len(buf') <= BufSize + 3 * Cardinality(EmptyUpTo(args', i'))
    BY <2>1, <2>2, <2>3
  <2> QED
    BY <1>0, <2>1, <2>2, <2>5, <2>6 DEF OverrunInv
<1>3. CASE StringArgument \/ NumberArgument \/ BlobArgument
  BY <1>0, <1>3, OverrunString, OverrunNumber, OverrunBlob
<1>4. CASE UnknownArgument
  <2>1. pc = "writing" /\ Invalid
    BY <1>4 DEF UnknownArgument, Writing
  <2> QED
    BY <1>0, <2>1, OverrunInvalid
<1>5. CASE EndJson
  <2>1. pc = "writing" /\ pc' # "writing" /\ args' = args /\ top' = Reach(Len(buf) + 2)
    BY <1>5 DEF EndJson
  <2>2. Len(buf) + 2 \in Nat /\ Len(buf) + 2 <= Len(buf) + 3
    BY LenProperties DEF OverrunInv, JsonInv, JsonType
  <2> QED
    BY <1>0, <2>1, <2>2, OverrunStopped
<1> QED
  BY <1>1, <1>2, <1>3, <1>4, <1>5 DEF Next

\* Initially nothing is written.
LEMMA OverrunInit == Init => OverrunInv
<1> SUFFICES ASSUME Init PROVE OverrunInv
  OBVIOUS
<1>1. pc = "idle" /\ top = 0 /\ args = << >> /\ BufSize \in Nat
  BY ConversionsAssumption DEF Init
<1>2. EmptyStrings = {} /\ Cardinality({}) = 0
  BY <1>1, FS_EmptySet DEF EmptyStrings
<1>3. OverrunBounded
  BY <1>1, <1>2 DEF OverrunBounded
<1> QED
  BY <1>1, <1>3, JsonInit DEF OverrunInv

(***************************************************************************)
(* For every size of the buffer and all arguments, the bytes written past  *)
(* its end are 3, and 3 for each empty string, at most: what the checks of *)
(* arguments_to_json leave out costs that much and no more.                *)
(***************************************************************************)
THEOREM OverrunIsBounded == Spec => []OverrunBounded
<1>1. OverrunInv => OverrunBounded
  BY DEF OverrunInv
<1> QED
  BY OverrunInit, OverrunNext, <1>1, PTL DEF Spec
=============================================================================
