------------------------- MODULE Conversions_proofs -------------------------
(***************************************************************************)
(* Proofs about the amounts in Conversions, digit by digit, for every text *)
(* and every number.                                                       *)
(***************************************************************************)
EXTENDS ConversionsArguments_proofs

\* The punctuation is no digit.
LEMMA CharFacts == Digit \subseteq Char /\ Char \subseteq Nat /\ 0 \in Digit
                   /\ Point \notin Digit /\ Minus \notin Digit /\ Point # Minus
                   /\ Point \in Char /\ Minus \in Char
  BY DEF Digit, Char, Point, Minus

\* Where the integer part of a text ends.
LEMMA PointAtIs ==
  ASSUME NEW t, NEW n \in Nat, n = Len(t), NEW p \in 1 .. n + 1,
         \A j \in 1 .. p - 1 : t[j] # Point, p <= n => t[p] = Point
  PROVE  PointAt(t) = p
<1>1. CASE p <= n
  <2>1. p \in 1 .. n /\ t[p] = Point
    BY <1>1
  <2> DEFINE First(k) == t[k] = Point /\ \A j \in 1 .. k - 1 : t[j] # Point
  <2>2. First(p)
    BY <2>1
  <2>3. ASSUME NEW k \in 1 .. n, First(k) PROVE k = p
    <3>1. ~(k < p)
      <4>1. ASSUME k < p PROVE FALSE
        <5>1. k \in 1 .. p - 1
          BY <4>1
        <5> QED
          BY <2>3, <5>1
      <4> QED
        BY <4>1
    <3>2. ~(p < k)
      <4>1. ASSUME p < k PROVE FALSE
        <5>1. p \in 1 .. k - 1
          BY <4>1
        <5> QED
          BY <2>1, <2>3, <5>1
      <4> QED
        BY <4>1
    <3> QED
      BY <3>1, <3>2
  <2>4. PointAt(t) = CHOOSE k \in 1 .. n : First(k)
    BY <2>1 DEF PointAt
  <2> HIDE DEF First
  <2> QED
    BY <2>1, <2>2, <2>3, <2>4
<1>2. CASE ~(p <= n)
  <2>1. p = n + 1
    BY <1>2
  <2>2. \A j \in 1 .. n : j \in 1 .. p - 1
    BY <2>1
  <2>3. ~ \E k \in 1 .. Len(t) : t[k] = Point
    BY <2>2
  <2> QED
    BY <2>1, <2>3 DEF PointAt
<1> QED
  BY <1>1, <1>2

\* It exists: the text before it has no point.
LEMMA PointAtFacts ==
  ASSUME NEW t, NEW n \in Nat, n = Len(t)
  PROVE  /\ PointAt(t) \in 1 .. n + 1
         /\ \A j \in 1 .. PointAt(t) - 1 : t[j] # Point
         /\ PointAt(t) <= n => t[PointAt(t)] = Point
<1> DEFINE T == {k \in 1 .. n : t[k] = Point}
<1>1. CASE T = {}
  <2>1. \A j \in 1 .. n : t[j] # Point
    BY <1>1
  <2>2. n + 1 \in 1 .. n + 1 /\ (n + 1) - 1 = n /\ ~(n + 1 <= n)
    OBVIOUS
  <2>3. PointAt(t) = n + 1
    BY <2>1, <2>2, PointAtIs
  <2> QED
    BY <2>1, <2>2, <2>3
<1>2. CASE T # {}
  <2>1. PICK p \in T : \A k \in T : p <= k
    <3>1. T \in SUBSET Nat
      OBVIOUS
    <3> HIDE DEF T
    <3> QED
      BY <1>2, <3>1, Least
  <2>2. p \in 1 .. n /\ p \in 1 .. n + 1 /\ t[p] = Point
    OBVIOUS
  <2>3. \A j \in 1 .. p - 1 : t[j] # Point
    <3>1. ASSUME NEW j \in 1 .. p - 1, t[j] = Point PROVE FALSE
      <4>1. j \in T
        BY <2>2, <3>1
      <4>2. p <= j
        BY <2>1, <4>1
      <4> QED
        BY <2>2, <4>2
    <3> QED
      BY <3>1
  <2>4. PointAt(t) = p
    BY <2>2, <2>3, PointAtIs
  <2> QED
    BY <2>2, <2>3, <2>4
<1> QED
  BY <1>1, <1>2

\* How many zeros are dropped.
LEMMA LeadingZerosFacts ==
  ASSUME NEW s, NEW n \in Nat, n = Len(s)
  PROVE  /\ LeadingZeros(s) \in 0 .. n
         /\ \A k \in 1 .. LeadingZeros(s) : s[k] = 0
         /\ LeadingZeros(s) < n => s[LeadingZeros(s) + 1] # 0
<1> DEFINE Leads(z) == (\A k \in 1 .. z : s[k] = 0) /\ (z < n => s[z + 1] # 0)
           T == {z \in 0 .. n : z < n => s[z + 1] # 0}
<1>1. n \in T
  OBVIOUS
<1>2. PICK z \in T : \A y \in T : z <= y
  <2>1. T \in SUBSET Nat
    OBVIOUS
  <2> HIDE DEF T
  <2> QED
    BY <1>1, <2>1, Least
<1>3. z \in 0 .. n /\ (z < n => s[z + 1] # 0)
  OBVIOUS
<1>4. \A k \in 1 .. z : s[k] = 0
  <2>1. ASSUME NEW k \in 1 .. z, s[k] # 0 PROVE FALSE
    <3>1. k - 1 \in 0 .. n /\ (k - 1) + 1 = k
      BY <1>3
    <3>2. k - 1 \in T
      BY <2>1, <3>1
    <3>3. z <= k - 1
      BY <1>2, <3>2
    <3> QED
      BY <1>3, <3>3
  <2> QED
    BY <2>1
<1>5. Leads(z)
  BY <1>3, <1>4
<1>6. LeadingZeros(s) = CHOOSE x \in 0 .. n : Leads(x)
  BY DEF LeadingZeros
<1>7. LeadingZeros(s) \in 0 .. n /\ Leads(LeadingZeros(s))
  <2> HIDE DEF Leads
  <2> QED
    BY <1>3, <1>5, <1>6
<1> QED
  BY <1>7

\* What a number is filled up with.
LEMMA ZerosFacts ==
  ASSUME NEW n \in Nat
  PROVE  /\ Zeros(n) \in Seq(Digit) /\ Zeros(n) \in Seq(Char) /\ Len(Zeros(n)) = n
         /\ \A k \in 1 .. n : Zeros(n)[k] = 0
BY DEF Zeros, Digit, Char

\* Texts put together.
LEMMA CharConcat ==
  ASSUME NEW s \in Seq(Char), NEW t \in Seq(Char)
  PROVE  /\ s \o t \in Seq(Char) /\ Len(s) \in Nat /\ Len(t) \in Nat
         /\ Len(s \o t) = Len(s) + Len(t)
         /\ \A k \in 1 .. Len(s) + Len(t) :
              (s \o t)[k] = IF k <= Len(s) THEN s[k] ELSE t[k - Len(s)]
BY ConcatProperties, LenProperties

\* The k-th of the 18 digits after the point.
LEMMA FractionFacts ==
  ASSUME NEW t \in Seq(Char), NEW n \in Nat, n = Len(t),
         NEW p \in 1 .. n + 1, p = PointAt(t)
  PROVE  /\ Fraction(t) \in Seq(Char) /\ Len(Fraction(t)) = 18
         /\ \A k \in 1 .. 18 : Fraction(t)[k] = IF p + k <= n THEN t[p + k] ELSE 0
<1> DEFINE r == SubSeq(t, p + 1, n)
           z == Zeros(18)
           rz == r \o z
<1>1. /\ r \in Seq(Char)
      /\ Len(r) = IF p + 1 <= n THEN n - (p + 1) + 1 ELSE 0
      /\ \A k \in 1 .. n - (p + 1) + 1 : r[k] = t[p + 1 + k - 1]
  <2>1. \A k \in p + 1 .. n : t[k] \in Char
    OBVIOUS
  <2> QED
    BY <2>1, SubSeqProperties
<1>2. z \in Seq(Char) /\ Len(z) = 18 /\ \A k \in 1 .. 18 : z[k] = 0
  BY ZerosFacts
<1>3. Fraction(t) = SubSeq(rz, 1, 18)
  BY DEF Fraction, Places
<1> HIDE DEF r, z
<1>4. /\ rz \in Seq(Char) /\ Len(rz) = Len(r) + 18 /\ Len(r) \in Nat
      /\ \A k \in 1 .. Len(r) + 18 : rz[k] = IF k <= Len(r) THEN r[k] ELSE z[k - Len(r)]
  <2>1. r \in Seq(Char) /\ z \in Seq(Char) /\ Len(z) = 18
    BY <1>1, <1>2
  <2>2. /\ rz \in Seq(Char) /\ Len(r) \in Nat /\ Len(rz) = Len(r) + Len(z)
        /\ \A k \in 1 .. Len(r) + Len(z) : rz[k] = IF k <= Len(r) THEN r[k] ELSE z[k - Len(r)]
    BY <2>1, CharConcat
  <2> HIDE DEF rz
  <2> QED
    BY <2>1, <2>2
<1> HIDE DEF rz
<1>5. /\ SubSeq(rz, 1, 18) \in Seq(Char) /\ Len(SubSeq(rz, 1, 18)) = 18
      /\ \A k \in 1 .. 18 : SubSeq(rz, 1, 18)[k] = rz[k]
  <2>1. \A k \in 1 .. 18 : rz[k] \in Char
    BY <1>4, ElementOfSeq
  <2>2. \A k \in 1 .. 18 : 1 + k - 1 = k /\ k \in 1 .. 18 - 1 + 1
    OBVIOUS
  <2>3. /\ SubSeq(rz, 1, 18) \in Seq(Char) /\ Len(SubSeq(rz, 1, 18)) = 18
        /\ \A k \in 1 .. 18 - 1 + 1 : SubSeq(rz, 1, 18)[k] = rz[1 + k - 1]
    BY <2>1, SubSeqProperties
  <2> QED
    BY <2>2, <2>3
<1>6. ASSUME NEW k \in 1 .. 18
      PROVE  rz[k] = IF p + k <= n THEN t[p + k] ELSE 0
  <2>1. CASE p + k <= n
    <3>1. k <= Len(r) /\ k \in 1 .. Len(r) + 18
      BY SMTT(30), <1>1, <1>4, <2>1
    <3>2. r[k] = t[p + k]
      <4>1. k \in 1 .. n - (p + 1) + 1 /\ p + 1 + k - 1 = p + k
        BY <2>1
      <4> QED
        BY <1>1, <4>1
    <3> QED
      BY <1>4, <2>1, <3>1, <3>2
  <2>2. CASE ~(p + k <= n)
    <3>1. ~(k <= Len(r)) /\ k \in 1 .. Len(r) + 18 /\ k - Len(r) \in 1 .. 18
      <4>1. PICK m \in Nat : m = Len(r)
        BY <1>4
      <4>2. m = IF p + 1 <= n THEN n - (p + 1) + 1 ELSE 0
        BY <1>1, <4>1
      <4>3. ~(k <= m)
        BY <2>2, <4>2
      <4>4. k \in 1 .. m + 18 /\ k - m \in 1 .. 18
        BY <4>3
      <4> QED
        BY <4>1, <4>3, <4>4
    <3> QED
      BY <1>2, <1>4, <2>2, <3>1
  <2> QED
    BY <2>1, <2>2
<1> QED
  BY <1>3, <1>5, <1>6

\* What is passed to mbedtls has the digits of the text.
LEMMA ConcatenatedFacts ==
  ASSUME NEW t \in Seq(Char)
  PROVE  /\ Concatenated(t) \in Seq(Char) /\ PointAt(t) \in Nat \ {0}
         /\ Len(Concatenated(t)) = PointAt(t) + 17
         /\ \A k \in Nat : DigitOfNumber(Concatenated(t), k) = DigitOf(t, k)
         /\ \A k \in 1 .. PointAt(t) - 1 : Concatenated(t)[k] = t[k]
         /\ \A k \in 1 .. 18 : Concatenated(t)[PointAt(t) - 1 + k] = Fraction(t)[k]
<1>1. PICK n \in Nat : n = Len(t)
  BY LenProperties
<1>2. PICK p \in 1 .. n + 1 : p = PointAt(t)
  BY <1>1, PointAtFacts
<1> DEFINE h == SubSeq(t, 1, p - 1)
           f == Fraction(t)
           c == h \o f
<1>3. h \in Seq(Char) /\ Len(h) = p - 1 /\ \A k \in 1 .. p - 1 : h[k] = t[k]
  <2>1. \A k \in 1 .. p - 1 : t[k] \in Char
    BY <1>1
  <2>2. /\ h \in Seq(Char) /\ Len(h) = IF 1 <= p - 1 THEN p - 1 - 1 + 1 ELSE 0
        /\ \A k \in 1 .. p - 1 - 1 + 1 : h[k] = t[1 + k - 1]
    BY <2>1, SubSeqProperties
  <2>3. p - 1 - 1 + 1 = p - 1 /\ \A k \in 1 .. p - 1 : 1 + k - 1 = k
    OBVIOUS
  <2> HIDE DEF h
  <2> QED
    BY <2>2, <2>3
<1>4. /\ f \in Seq(Char) /\ Len(f) = 18
      /\ \A k \in 1 .. 18 : f[k] = IF p + k <= n THEN t[p + k] ELSE 0
  BY <1>1, <1>2, FractionFacts
<1>5. Concatenated(t) = c
  BY <1>2 DEF Concatenated
<1> HIDE DEF h, f
<1>6. /\ c \in Seq(Char) /\ Len(c) = p - 1 + 18
      /\ \A k \in 1 .. p - 1 + 18 : c[k] = IF k <= p - 1 THEN h[k] ELSE f[k - (p - 1)]
  <2>1. h \in Seq(Char) /\ f \in Seq(Char) /\ Len(h) = p - 1 /\ Len(f) = 18
    BY <1>3, <1>4
  <2>2. /\ c \in Seq(Char) /\ Len(c) = Len(h) + Len(f)
        /\ \A k \in 1 .. Len(h) + Len(f) : c[k] = IF k <= Len(h) THEN h[k] ELSE f[k - Len(h)]
    BY <2>1, CharConcat
  <2> HIDE DEF c
  <2> QED
    BY <2>1, <2>2
<1> HIDE DEF c
<1>7. ASSUME NEW k \in Nat PROVE DigitOfNumber(c, k) = DigitOf(t, k)
  <2>1. CASE k < 18
    <3>1. /\ k < Len(c) /\ Len(c) - k \in 1 .. p - 1 + 18 /\ ~(Len(c) - k <= p - 1)
          /\ (Len(c) - k) - (p - 1) = 18 - k /\ 18 - k \in 1 .. 18
      BY <1>6, <2>1
    <3>2. DigitOfNumber(c, k) = f[18 - k]
      BY <1>6, <3>1 DEF DigitOfNumber
    <3>3. f[18 - k] = IF p + (18 - k) <= n THEN t[p + (18 - k)] ELSE 0
      BY <1>4, <3>1
    <3>4. DigitOf(t, k) = IF p + 18 - k \in 1 .. n THEN t[p + 18 - k] ELSE 0
      BY <1>1, <1>2, <2>1 DEF DigitOf, Places
    <3>5. p + (18 - k) = p + 18 - k /\ (p + 18 - k \in 1 .. n <=> p + (18 - k) <= n)
      BY <2>1
    <3> QED
      BY <3>2, <3>3, <3>4, <3>5
  <2>2. CASE ~(k < 18)
    <3>1. DigitOf(t, k) = IF p + 18 - 1 - k \in 1 .. n THEN t[p + 18 - 1 - k] ELSE 0
      BY <1>1, <1>2, <2>2 DEF DigitOf, Places
    <3>2. CASE k < p - 1 + 18
      <4>1. /\ Len(c) - k = p + 18 - 1 - k /\ p + 18 - 1 - k \in 1 .. p - 1
            /\ p + 18 - 1 - k \in 1 .. n /\ p + 18 - 1 - k \in 1 .. p - 1 + 18
        BY <1>6, <2>2, <3>2
      <4>2. DigitOfNumber(c, k) = c[p + 18 - 1 - k]
        BY <1>6, <3>2, <4>1 DEF DigitOfNumber
      <4>3. c[p + 18 - 1 - k] = t[p + 18 - 1 - k]
        BY <1>3, <1>6, <4>1
      <4> QED
        BY <3>1, <4>1, <4>2, <4>3
    <3>3. CASE ~(k < p - 1 + 18)
      <4>1. DigitOfNumber(c, k) = 0
        BY <1>6, <3>3 DEF DigitOfNumber
      <4>2. ~(p + 18 - 1 - k \in 1 .. n)
        BY <3>3
      <4> QED
        BY <3>1, <4>1, <4>2
    <3> QED
      BY <3>2, <3>3
  <2> QED
    BY <2>1, <2>2
<1>8. \A k \in 1 .. p - 1 : c[k] = t[k]
  BY <1>3, <1>6
<1>9. ASSUME NEW k \in 1 .. 18 PROVE c[p - 1 + k] = f[k]
  <2>1. p - 1 + k \in 1 .. p - 1 + 18 /\ ~(p - 1 + k <= p - 1) /\ (p - 1 + k) - (p - 1) = k
    OBVIOUS
  <2> QED
    BY <1>6, <2>1
<1>10. p - 1 + 18 = p + 17 /\ p \in Nat \ {0}
  OBVIOUS
<1> QED
  BY <1>2, <1>5, <1>6, <1>7, <1>8, <1>9, <1>10 DEF f

\* Leading zeros are dropped, and nothing else.
LEMMA MagnitudeFacts ==
  ASSUME NEW s \in Seq(Char), NEW m, m = SubSeq(s, LeadingZeros(s) + 1, Len(s))
  PROVE  /\ m \in Seq(Char)
         /\ \A k \in Nat : DigitOfNumber(m, k) = DigitOfNumber(s, k)
         /\ m = << >> => \A k \in Nat : DigitOfNumber(s, k) = 0
         /\ IsNumber(s) => m \in Seq(Digit)
<1>1. PICK n \in Nat : n = Len(s)
  BY LenProperties
<1>2. PICK z \in 0 .. n : z = LeadingZeros(s)
  BY <1>1, LeadingZerosFacts
<1>3. \A k \in 1 .. z : s[k] = 0
  BY <1>1, <1>2, LeadingZerosFacts
<1>4. /\ m \in Seq(Char)
      /\ Len(m) = n - z
      /\ \A k \in 1 .. n - z : m[k] = s[z + k]
      /\ IsNumber(s) => m \in Seq(Digit)
  <2>1. \A k \in z + 1 .. n : s[k] \in Char
    BY <1>1
  <2>2. m = SubSeq(s, z + 1, n)
    BY <1>1, <1>2
  <2>3. /\ m \in Seq(Char)
        /\ Len(m) = IF z + 1 <= n THEN n - (z + 1) + 1 ELSE 0
        /\ \A k \in 1 .. n - (z + 1) + 1 : m[k] = s[z + 1 + k - 1]
    <3>1. /\ SubSeq(s, z + 1, n) \in Seq(Char)
          /\ Len(SubSeq(s, z + 1, n)) = IF z + 1 <= n THEN n - (z + 1) + 1 ELSE 0
          /\ \A k \in 1 .. n - (z + 1) + 1 : SubSeq(s, z + 1, n)[k] = s[z + 1 + k - 1]
      BY <2>1, SubSeqProperties
    <3> QED
      BY <2>2, <3>1
  <2>4. n - (z + 1) + 1 = n - z /\ \A k \in 1 .. n - z : z + 1 + k - 1 = z + k
    OBVIOUS
  <2>5. Len(m) = n - z
    BY <2>3
  <2>6. ASSUME IsNumber(s) PROVE m \in Seq(Digit)
    <3>1. \A k \in z + 1 .. n : s[k] \in Digit
      BY <1>1, <2>6 DEF IsNumber
    <3>2. SubSeq(s, z + 1, n) \in Seq(Digit)
      BY <3>1, SubSeqProperties
    <3> QED
      BY <2>2, <3>2
  <2> QED
    BY <2>3, <2>4, <2>5, <2>6
<1>5. ASSUME NEW k \in Nat
      PROVE  /\ DigitOfNumber(m, k) = DigitOfNumber(s, k)
             /\ n = z => DigitOfNumber(s, k) = 0
  <2>1. CASE k < n - z
    <3>1. n - z - k \in 1 .. n - z /\ z + (n - z - k) = n - k /\ k < n /\ n # z
      BY <2>1
    <3>2. m[n - z - k] = s[n - k]
      BY <1>4, <3>1
    <3> QED
      BY <1>1, <1>4, <2>1, <3>1, <3>2 DEF DigitOfNumber
  <2>2. CASE ~(k < n - z) /\ k < n
    <3>1. n - k \in 1 .. z
      BY <2>2
    <3> QED
      BY <1>1, <1>3, <1>4, <2>2, <3>1 DEF DigitOfNumber
  <2>3. CASE ~(k < n)
    <3>1. ~(k < n - z)
      BY <2>3
    <3> QED
      BY <1>1, <1>4, <2>3, <3>1 DEF DigitOfNumber
  <2> QED
    BY <2>1, <2>2, <2>3
<1>6. m = << >> => n = z
  <2>1. m = << >> => Len(m) = 0
    OBVIOUS
  <2> QED
    BY <1>4, <2>1
<1> QED
  BY <1>4, <1>5, <1>6

\* A leading minus is dropped with its place.
LEMMA TailDigits ==
  ASSUME NEW t \in Seq(Char), t # << >>, t[1] = Minus
  PROVE  /\ Tail(t) \in Seq(Char)
         /\ PointAt(t) > 1
         /\ \A k \in Nat : DigitOf(Tail(t), k) = IF k = PointAt(t) + 16 THEN 0 ELSE DigitOf(t, k)
<1>1. PICK n \in Nat \ {0} : n = Len(t)
  BY EmptySeq
<1>2. PICK p \in 1 .. n + 1 : p = PointAt(t)
  BY <1>1, PointAtFacts
<1>3. (\A j \in 1 .. p - 1 : t[j] # Point) /\ (p <= n => t[p] = Point)
  BY <1>1, <1>2, PointAtFacts
<1>4. p # 1
  BY <1>1, <1>3, CharFacts
<1>5. PICK u \in Seq(Char) : u = Tail(t) /\ Len(u) = n - 1 /\ \A j \in 1 .. n - 1 : u[j] = t[j + 1]
  BY ZenonT(40), <1>1, HeadTailProperties
<1>6. PointAt(u) = p - 1
  <2>1. n - 1 \in Nat /\ p - 1 \in 1 .. (n - 1) + 1
    BY <1>4
  <2>2. ASSUME NEW j \in 1 .. (p - 1) - 1 PROVE u[j] # Point
    <3>1. j \in 1 .. n - 1 /\ j + 1 \in 1 .. p - 1
      OBVIOUS
    <3> QED
      BY <1>3, <1>5, <3>1
  <2>3. ASSUME p - 1 <= n - 1 PROVE u[p - 1] = Point
    <3>1. p - 1 \in 1 .. n - 1 /\ (p - 1) + 1 = p /\ p <= n
      BY <1>4, <2>3
    <3> QED
      BY <1>3, <1>5, <3>1
  <2> QED
    BY <1>5, <2>1, <2>2, <2>3, PointAtIs
<1>7. ASSUME NEW k \in Nat
      PROVE  DigitOf(u, k) = IF k = p + 16 THEN 0 ELSE DigitOf(t, k)
  <2> DEFINE x == IF k < 18 THEN p + 18 - k ELSE p + 18 - 1 - k
  <2>1. DigitOf(t, k) = IF x \in 1 .. n THEN t[x] ELSE 0
    BY <1>1, <1>2 DEF DigitOf, Places
  <2>2. DigitOf(u, k) = IF x - 1 \in 1 .. n - 1 THEN u[x - 1] ELSE 0
    <3>1. x - 1 = IF k < 18 THEN (p - 1) + 18 - k ELSE (p - 1) + 18 - 1 - k
      OBVIOUS
    <3> HIDE DEF x
    <3> QED
      BY <1>5, <1>6, <3>1 DEF DigitOf, Places
  <2>3. x \in Int /\ (k = p + 16 <=> x = 1)
    BY <1>4
  <2> HIDE DEF x
  <2>4. CASE x = 1
    <3>1. ~(x - 1 \in 1 .. n - 1)
      BY <2>4
    <3> QED
      BY <2>2, <2>3, <2>4, <3>1
  <2>5. CASE x # 1
    <3>1. x - 1 \in 1 .. n - 1 <=> x \in 1 .. n
      BY <2>3, <2>5
    <3>2. x - 1 \in 1 .. n - 1 => u[x - 1] = t[x]
      <4>1. (x - 1) + 1 = x
        BY <2>3
      <4> QED
        BY <1>5, <4>1
    <3> QED
      BY <2>1, <2>2, <2>3, <2>5, <3>1, <3>2
  <2> QED
    BY <2>4, <2>5
<1>8. p > 1 /\ p \in Nat
  BY <1>4
<1> QED
  BY <1>2, <1>5, <1>7, <1>8

\* Minus first after the point, without an integer part.
MinusAfterPoint(t) == Len(t) > 1 /\ t[1] = Point /\ t[2] = Minus

\* A minus is dropped from what mbedtls reads as it is from the text, unless it
\* stands after the point.
LEMMA UnsignedFacts ==
  ASSUME NEW t \in Seq(Char)
  PROVE  LET u == Unsigned(Concatenated(t))
         IN  /\ u \in Seq(Char) /\ Len(u) <= PointAt(t) + 17
             /\ Unsigned(t) \in Seq(Char)
             /\ ~MinusAfterPoint(t) =>
                  \A k \in Nat : DigitOfNumber(u, k) = DigitOf(Unsigned(t), k)
<1>1. PICK p \in Nat \ {0} : p = PointAt(t)
  BY ConcatenatedFacts
<1>2. PICK c \in Seq(Char) : c = Concatenated(t)
  BY ConcatenatedFacts
<1>3. /\ Len(c) = p + 17
      /\ \A k \in Nat : DigitOfNumber(c, k) = DigitOf(t, k)
      /\ \A k \in 1 .. p - 1 : c[k] = t[k]
      /\ \A k \in 1 .. 18 : c[p - 1 + k] = Fraction(t)[k]
  BY <1>1, <1>2, ConcatenatedFacts
<1>4. c # << >> /\ Head(c) = c[1]
  <2>1. Len(c) # 0
    BY <1>3
  <2> QED
    BY <2>1
<1>5. PICK n \in Nat : n = Len(t)
  BY LenProperties
<1>6. p \in 1 .. n + 1 /\ p <= n => t[p] = Point
  BY <1>1, <1>5, PointAtFacts
<1>7. t # << >> => n # 0 /\ Head(t) = t[1]
  BY <1>5
<1>8. Unsigned(t) = IF t # << >> /\ t[1] = Minus THEN Tail(t) ELSE t
  BY <1>7 DEF Unsigned
<1>9. Unsigned(c) = IF c[1] = Minus THEN Tail(c) ELSE c
  BY <1>4 DEF Unsigned
<1>t. Unsigned(t) \in Seq(Char)
  BY <1>8, HeadTailProperties
<1>10. /\ Tail(c) \in Seq(Char) /\ Len(Tail(c)) = p + 16
       /\ \A k \in 1 .. p + 16 : Tail(c)[k] = c[k + 1]
  <2>1. (p + 17) - 1 = p + 16
    OBVIOUS
  <2> QED
    BY SMTT(30), <1>3, <1>4, <2>1, HeadTailProperties
<1>11. /\ Unsigned(c) \in Seq(Char) /\ Len(Unsigned(c)) <= p + 17
  <2>1. CASE c[1] = Minus
    <3>1. Unsigned(c) = Tail(c)
      BY <1>9, <2>1
    <3>2. Tail(c) \in Seq(Char) /\ Len(Tail(c)) = p + 16 /\ p + 16 <= p + 17
      BY <1>10
    <3> QED
      BY <3>1, <3>2
  <2>2. CASE c[1] # Minus
    BY <1>3, <1>9, <2>2
  <2> QED
    BY <2>1, <2>2
<1>12. ASSUME ~MinusAfterPoint(t)
       PROVE  c[1] = Minus <=> t # << >> /\ t[1] = Minus
  <2>1. CASE p > 1
    <3>1. c[1] = t[1]
      BY <1>3, <2>1
    <3>2. n # 0 /\ t # << >>
      <4>1. n # 0
        BY <1>1, <1>5, <2>1, PointAtFacts
      <4> QED
        BY <1>5, <4>1
    <3> QED
      BY <3>1, <3>2
  <2>2. CASE p = 1
    <3>1. c[1] = Fraction(t)[1]
      BY <1>3, <2>2
    <3>2. Fraction(t)[1] = IF 2 <= n THEN t[2] ELSE 0
      <4>1. p \in 1 .. n + 1
        BY <1>1, <1>5, PointAtFacts
      <4>2. \A k \in 1 .. 18 : Fraction(t)[k] = IF p + k <= n THEN t[p + k] ELSE 0
        BY ZenonT(40), <1>1, <1>5, <4>1, FractionFacts
      <4>3. 1 \in 1 .. 18 /\ p + 1 = 2
        BY <2>2
      <4> QED
        BY <4>2, <4>3
    <3>3. 1 <= n => t[1] = Point
      BY <1>1, <1>5, <2>2, PointAtFacts
    <3>4. 2 <= n => t[2] # Minus
      BY <1>5, <1>12, <3>3 DEF MinusAfterPoint
    <3>5. c[1] # Minus
      BY <3>1, <3>2, <3>4 DEF Minus
    <3>6. ~(t # << >> /\ t[1] = Minus)
      BY <1>7, <3>3, CharFacts
    <3> QED
      BY <3>5, <3>6
  <2> QED
    BY <2>1, <2>2
<1>13. ASSUME ~MinusAfterPoint(t), NEW k \in Nat
       PROVE  DigitOfNumber(Unsigned(c), k) = DigitOf(Unsigned(t), k)
  <2>1. CASE c[1] # Minus
    <3>1. Unsigned(c) = c /\ Unsigned(t) = t
      BY <1>8, <1>9, <1>12, <1>13, <2>1
    <3> QED
      BY <1>3, <3>1
  <2>2. CASE c[1] = Minus
    <3>1. Unsigned(c) = Tail(c) /\ Unsigned(t) = Tail(t) /\ t # << >> /\ t[1] = Minus
      BY <1>8, <1>9, <1>12, <1>13, <2>2
    <3>2. DigitOf(Tail(t), k) = IF k = p + 16 THEN 0 ELSE DigitOf(t, k)
      BY <1>1, <3>1, TailDigits
    <3>3. DigitOfNumber(Tail(c), k) = IF k < p + 16 THEN c[p + 17 - k] ELSE 0
      <4>1. k < p + 16 => p + 16 - k \in 1 .. p + 16 /\ (p + 16 - k) + 1 = p + 17 - k
        OBVIOUS
      <4> QED
        BY <1>10, <4>1 DEF DigitOfNumber
    <3>4. DigitOf(t, k) = IF k < p + 17 THEN c[p + 17 - k] ELSE 0
      <4>1. DigitOfNumber(c, k) = DigitOf(t, k)
        BY <1>3
      <4>2. DigitOfNumber(c, k) = IF k < p + 17 THEN c[p + 17 - k] ELSE 0
        BY <1>3 DEF DigitOfNumber
      <4> QED
        BY <4>1, <4>2
    <3>5. CASE k < p + 16
      <4>1. k < p + 17 /\ k # p + 16
        BY <3>5
      <4> QED
        BY <3>1, <3>2, <3>3, <3>4, <3>5, <4>1
    <3>6. CASE k = p + 16
      <4>1. ~(k < p + 16)
        BY <3>6
      <4> QED
        BY <3>1, <3>2, <3>3, <3>6, <4>1
    <3>7. CASE k > p + 16
      <4>1. ~(k < p + 16) /\ ~(k < p + 17) /\ k # p + 16
        BY <3>7
      <4> QED
        BY <3>1, <3>2, <3>3, <3>4, <4>1
    <3> QED
      BY <3>5, <3>6, <3>7
  <2> QED
    BY <2>1, <2>2
<1> QED
  BY <1>1, <1>2, <1>t, <1>11, <1>13

\* Digits are a text.
LEMMA DigitsAreChars ==
  ASSUME NEW s \in Seq(Digit), NEW n, n = Len(s)
  PROVE  n \in Nat /\ s \in Seq(Char) /\ \A k \in 1 .. n : s[k] \in Digit
<1>1. Digit \subseteq Char
  BY CharFacts
<1>2. s \in Seq(Char)
  BY <1>1, SeqMonotonic
<1>3. n \in Nat /\ \A k \in 1 .. n : s[k] \in Digit
  BY LenProperties, ElementOfSeq
<1> QED
  BY <1>2, <1>3


Padded(s, w) == IF Len(s) < w THEN Zeros(w - Len(s)) \o s ELSE s

Pointed(h, g) == h \o <<Point>> \o g

\* A number filled up with zeros from the left is the same number.
LEMMA PaddedFacts ==
  ASSUME NEW s \in Seq(Digit), NEW w \in Nat
  PROVE  /\ Padded(s, w) \in Seq(Char) /\ Len(Padded(s, w)) \in Nat
         /\ Len(Padded(s, w)) >= w
         /\ \A k \in 1 .. Len(Padded(s, w)) : Padded(s, w)[k] \in Digit
         /\ Len(s) <= w =>
              /\ Len(Padded(s, w)) = w
              /\ \A k \in Nat : k < w => Padded(s, w)[w - k] = DigitOfNumber(s, k)
<1> DEFINE t == Padded(s, w)
<1>t. t = IF Len(s) < w THEN Zeros(w - Len(s)) \o s ELSE s
  BY DEF Padded
<1> SUFFICES
      /\ t \in Seq(Char) /\ Len(t) \in Nat /\ Len(t) >= w
      /\ \A k \in 1 .. Len(t) : t[k] \in Digit
      /\ Len(s) <= w => /\ Len(t) = w
                        /\ \A k \in Nat : k < w => t[w - k] = DigitOfNumber(s, k)
  OBVIOUS
<1> HIDE DEF t
<1>1. PICK n \in Nat : n = Len(s)
  BY LenProperties
<1>2. s \in Seq(Char) /\ \A k \in 1 .. n : s[k] \in Digit
  BY <1>1, DigitsAreChars
<1>3. CASE n < w
  <2>1. PICK z \in Seq(Char) : z = Zeros(w - n) /\ Len(z) = w - n /\ \A k \in 1 .. w - n : z[k] = 0
    <3>1. w - n \in Nat
      BY <1>3
    <3> QED
      BY <3>1, ZerosFacts
  <2>2. t = z \o s
    BY <1>t, <1>1, <1>3, <2>1
  <2>3. /\ t \in Seq(Char) /\ Len(t) = Len(z) + Len(s)
        /\ \A k \in 1 .. Len(z) + Len(s) : t[k] = IF k <= Len(z) THEN z[k] ELSE s[k - Len(z)]
    <3>1. /\ z \o s \in Seq(Char) /\ Len(z \o s) = Len(z) + Len(s)
          /\ \A k \in 1 .. Len(z) + Len(s) :
               (z \o s)[k] = IF k <= Len(z) THEN z[k] ELSE s[k - Len(z)]
      BY <1>2, CharConcat
    <3> QED
      BY <2>2, <3>1
  <2>4. Len(t) = w /\ \A k \in 1 .. w : t[k] = IF k <= w - n THEN 0 ELSE s[k - (w - n)]
    <3>1. Len(z) = w - n /\ Len(s) = n /\ (w - n) + n = w
      BY <1>1, <1>3, <2>1
    <3>2. Len(t) = w /\ \A k \in 1 .. w : t[k] = IF k <= w - n THEN z[k] ELSE s[k - (w - n)]
      BY <2>3, <3>1
    <3>3. \A k \in 1 .. w : k <= w - n => z[k] = 0
      BY <2>1
    <3> QED
      BY <3>2, <3>3
  <2>5. ASSUME NEW k \in 1 .. w PROVE t[k] \in Digit
    <3>1. ~(k <= w - n) => k - (w - n) \in 1 .. n
      BY <1>3
    <3> QED
      BY <1>2, <2>4, <3>1, CharFacts
  <2>6. ASSUME NEW k \in Nat, k < w PROVE t[w - k] = DigitOfNumber(s, k)
    <3>1. w - k \in 1 .. w /\ (w - k) - (w - n) = n - k
      BY <1>3, <2>6
    <3>2. w - k <= w - n <=> ~(k < n)
      BY <1>3, <2>6
    <3>3. t[w - k] = IF w - k <= w - n THEN 0 ELSE s[n - k]
      BY <2>4, <3>1
    <3> QED
      BY <1>1, <3>2, <3>3 DEF DigitOfNumber
  <2>7. t \in Seq(Char) /\ Len(t) = w
    BY <2>3, <2>4
  <2>8. Len(t) \in Nat /\ Len(t) >= w
    BY <2>7
  <2>9. \A k \in 1 .. Len(t) : t[k] \in Digit
    BY <2>5, <2>7
  <2> QED
    BY <2>6, <2>7, <2>8, <2>9
<1>4. CASE ~(n < w)
  <2>1. t = s /\ Len(t) = n /\ n >= w
    BY <1>t, <1>1, <1>4
  <2>2. ASSUME n <= w PROVE n = w /\ \A k \in Nat : k < w => t[w - k] = DigitOfNumber(s, k)
    <3>1. n = w
      BY <1>4, <2>2
    <3> QED
      BY <1>1, <2>1, <3>1 DEF DigitOfNumber
  <2> QED
    BY <1>1, <1>2, <2>1, <2>2
<1> QED
  BY <1>1, <1>3, <1>4

\* Digits, a point, digits: as "%llu.%018llu" and bignum_to_string write it.
LEMMA PointedFacts ==
  ASSUME NEW h \in Seq(Char), NEW g \in Seq(Char)
  PROVE  /\ Pointed(h, g) \in Seq(Char) /\ Len(g) \in Nat
         /\ Len(Pointed(h, g)) = Len(h) + 1 + Len(g)
         /\ \A k \in 1 .. Len(h) : Pointed(h, g)[k] = h[k]
         /\ Pointed(h, g)[Len(h) + 1] = Point
         /\ \A k \in 1 .. Len(g) : Pointed(h, g)[Len(h) + 1 + k] = g[k]
<1> DEFINE s == Pointed(h, g)
<1>s. s = h \o <<Point>> \o g
  BY DEF Pointed
<1> HIDE DEF s
<1>a. PICK a \in Nat : a = Len(h)
  BY LenProperties
<1>1. PICK q \in Seq(Char) : q = <<Point>> /\ Len(q) = 1 /\ q[1] = Point
  <2>1. <<Point>> \in Seq(Char) /\ Len(<<Point>>) = 1 /\ <<Point>>[1] = Point
    BY CharFacts
  <2> QED
    BY <2>1
<1>2. PICK hq \in Seq(Char) :
        /\ hq = h \o q /\ Len(hq) = a + 1
        /\ \A k \in 1 .. a + 1 : hq[k] = IF k <= a THEN h[k] ELSE q[k - a]
  <2>1. /\ h \o q \in Seq(Char) /\ Len(h \o q) = Len(h) + Len(q)
        /\ \A k \in 1 .. Len(h) + Len(q) : (h \o q)[k] = IF k <= Len(h) THEN h[k] ELSE q[k - Len(h)]
    BY CharConcat
  <2> QED
    BY <1>a, <1>1, <2>1
<1>3. /\ s \in Seq(Char) /\ Len(g) \in Nat /\ Len(s) = Len(hq) + Len(g)
      /\ \A k \in 1 .. Len(hq) + Len(g) : s[k] = IF k <= Len(hq) THEN hq[k] ELSE g[k - Len(hq)]
  <2>1. s = hq \o g
    BY <1>s, <1>1, <1>2
  <2>2. /\ hq \o g \in Seq(Char) /\ Len(g) \in Nat /\ Len(hq \o g) = Len(hq) + Len(g)
        /\ \A k \in 1 .. Len(hq) + Len(g) :
             (hq \o g)[k] = IF k <= Len(hq) THEN hq[k] ELSE g[k - Len(hq)]
    BY CharConcat
  <2> QED
    BY <2>1, <2>2
<1>4. \A k \in 1 .. a : s[k] = h[k]
  <2>1. ASSUME NEW k \in 1 .. a PROVE s[k] = h[k]
    <3>1. k <= a /\ k <= a + 1 /\ k \in 1 .. a + 1 /\ k \in 1 .. a + 1 + Len(g)
      BY <1>3
    <3> QED
      BY <1>2, <1>3, <3>1
  <2> QED
    BY <2>1
<1>5. s[a + 1] = Point
  <2>1. /\ a + 1 \in 1 .. a + 1 /\ a + 1 \in 1 .. a + 1 + Len(g) /\ ~(a + 1 <= a)
        /\ (a + 1) - a = 1
    BY <1>3
  <2> QED
    BY <1>1, <1>2, <1>3, <2>1
<1>6. \A k \in 1 .. Len(g) : s[a + 1 + k] = g[k]
  <2>1. ASSUME NEW k \in 1 .. Len(g) PROVE s[a + 1 + k] = g[k]
    <3>1. /\ a + 1 + k \in 1 .. a + 1 + Len(g) /\ ~(a + 1 + k <= a + 1)
          /\ (a + 1 + k) - (a + 1) = k
      BY <1>3
    <3> QED
      BY <1>2, <1>3, <3>1
  <2> QED
    BY <2>1
<1>7. s \in Seq(Char) /\ Len(g) \in Nat /\ Len(s) = a + 1 + Len(g)
  BY <1>2, <1>3
<1> QED
  BY <1>a, <1>4, <1>5, <1>6, <1>7 DEF s

\* What "%llu.%018llu" prints to amount_str.
LEMMA PrintIntFacts ==
  ASSUME NEW n \in Seq(Digit), NEW d \in Seq(Digit), Len(n) \in 1 .. 17,
         NEW t, t = PrintInt(n, d)
  PROVE  /\ t \in Seq(Char) /\ PointAt(t) = Len(n) + 1 /\ t # << >> /\ t[1] \in Digit
         /\ Len(n) <= 16 /\ Len(d) <= 18 =>
              \A k \in Nat : DigitOf(t, k) = IF k < 18 THEN DigitOfNumber(d, k)
                                                       ELSE DigitOfNumber(n, k - 18)
<1>1. PICK a \in 1 .. 17 : a = Len(n)
  OBVIOUS
<1>2. PICK b \in Nat : b = Len(d)
  BY LenProperties
<1> DEFINE e == IF Len(d) < 18 THEN Zeros(18 - Len(d)) \o d ELSE d
           s == n \o <<Point>> \o e
           l == IF Len(s) < 35 THEN Len(s) ELSE 35
<1>3. /\ e \in Seq(Char) /\ Len(e) \in Nat /\ Len(e) >= 18
      /\ b <= 18 => Len(e) = 18 /\ \A k \in 0 .. 17 : e[18 - k] = DigitOfNumber(d, k)
  <2> HIDE DEF e
  <2>1. /\ e \in Seq(Char) /\ Len(e) \in Nat /\ Len(e) >= 18
        /\ Len(d) <= 18 => /\ Len(e) = 18
                           /\ \A k \in Nat : k < 18 => e[18 - k] = DigitOfNumber(d, k)
    <3>1. e = Padded(d, 18)
      BY DEF e, Padded
    <3> QED
      BY <3>1, PaddedFacts
  <2>2. \A k \in 0 .. 17 : k \in Nat /\ k < 18
    OBVIOUS
  <2> QED
    BY <1>2, <2>1, <2>2
<1>4. n \in Seq(Char) /\ \A k \in 1 .. a : n[k] \in Digit
  BY <1>1, DigitsAreChars
<1>5. t = SubSeq(s, 1, l)
  BY DEF PrintInt, Places
<1> HIDE DEF e
<1>6. /\ s \in Seq(Char) /\ Len(s) = a + 1 + Len(e)
      /\ \A k \in 1 .. a : s[k] = n[k]
      /\ s[a + 1] = Point
      /\ \A k \in 1 .. Len(e) : s[a + 1 + k] = e[k]
  <2>1. s = Pointed(n, e)
    BY DEF Pointed
  <2>2. e \in Seq(Char) /\ n \in Seq(Char) /\ a \in Nat /\ a = Len(n)
    BY <1>1, <1>3, <1>4
  <2> HIDE DEF s
  <2> QED
    BY <2>1, <2>2, PointedFacts
<1> HIDE DEF s
<1>7. l \in Nat /\ l >= 20 /\ l >= a + 1 /\ l <= Len(s)
      /\ (a <= 16 /\ b <= 18 => l = a + 19)
  <2>1. PICK x \in Nat : x = Len(e) /\ x >= 18 /\ (b <= 18 => x = 18)
    BY <1>3
  <2>2. PICK y \in Nat : y = Len(s) /\ y = a + 1 + x
    BY <1>6, <2>1
  <2>3. l = IF y < 35 THEN y ELSE 35
    BY <2>2
  <2>4. (IF y < 35 THEN y ELSE 35) \in Nat
    OBVIOUS
  <2>5. PICK z \in Nat : z = l
    BY <2>3, <2>4
  <2>6. z = IF y < 35 THEN y ELSE 35
    BY <2>3, <2>5
  <2> HIDE DEF l
  <2>7. z >= 20 /\ z >= a + 1 /\ z <= y
    BY <2>1, <2>2, <2>6
  <2>8. ASSUME a <= 16, b <= 18 PROVE z = a + 19
    <3>1. x = 18
      BY <2>1, <2>8
    <3>2. y = a + 19
      BY <2>2, <3>1
    <3>3. a + 19 <= 35
      BY <2>8
    <3>4. CASE a = 16
      BY <2>6, <3>2, <3>4
    <3>5. CASE a # 16
      <4>1. y < 35
        BY <2>8, <3>2, <3>5
      <4> QED
        BY <2>6, <3>2, <4>1
    <3> QED
      BY <3>4, <3>5
  <2> QED
    BY <2>2, <2>5, <2>7, <2>8
<1> HIDE DEF l
<1>8. t \in Seq(Char) /\ Len(t) = l /\ \A k \in 1 .. l : t[k] = s[k]
  <2>1. \A k \in 1 .. l : s[k] \in Char
    BY <1>6, <1>7, ElementOfSeq
  <2>2. /\ SubSeq(s, 1, l) \in Seq(Char)
        /\ Len(SubSeq(s, 1, l)) = IF 1 <= l THEN l - 1 + 1 ELSE 0
        /\ \A k \in 1 .. l - 1 + 1 : SubSeq(s, 1, l)[k] = s[1 + k - 1]
    BY <1>7, <2>1, SubSeqProperties
  <2>3. l - 1 + 1 = l /\ 1 <= l /\ \A k \in 1 .. l : 1 + k - 1 = k
    BY <1>7
  <2> QED
    BY <1>5, <2>2, <2>3
<1>9. \A k \in 1 .. a : t[k] = n[k] /\ t[k] \in Digit
  <2>1. \A k \in 1 .. a : k \in 1 .. l
    BY <1>7
  <2> QED
    BY <1>4, <1>6, <1>8, <2>1
<1>10. PointAt(t) = a + 1
  <2>1. a + 1 \in 1 .. l + 1 /\ a + 1 \in 1 .. l /\ (a + 1) - 1 = a
    BY <1>7
  <2>2. t[a + 1] = Point
    BY <1>6, <1>8, <2>1
  <2>3. \A j \in 1 .. a : t[j] # Point
    BY <1>9, CharFacts
  <2> QED
    BY <1>7, <1>8, <2>1, <2>2, <2>3, PointAtIs
<1>11. t # << >>
  <2>1. Len(t) # 0
    BY <1>7, <1>8
  <2> QED
    BY <2>1
<1>12. ASSUME a <= 16, b <= 18, NEW k \in Nat
       PROVE  DigitOf(t, k) = IF k < 18 THEN DigitOfNumber(d, k) ELSE DigitOfNumber(n, k - 18)
  <2>1. l = a + 19 /\ Len(e) = 18
    BY <1>3, <1>7, <1>12
  <2>2. CASE k < 18
    <3>1. a + 1 + 18 - k \in 1 .. a + 19 /\ a + 1 + 18 - k = a + 1 + (18 - k)
          /\ 18 - k \in 1 .. 18 /\ k \in 0 .. 17
      BY <2>2
    <3>2. DigitOf(t, k) = t[a + 1 + 18 - k]
      BY <1>8, <1>10, <2>1, <2>2, <3>1 DEF DigitOf, Places
    <3>3. s[a + 1 + (18 - k)] = e[18 - k]
      BY <1>6, <2>1, <3>1
    <3>4. e[18 - k] = DigitOfNumber(d, k)
      BY <1>3, <1>12, <3>1
    <3> QED
      BY <1>8, <2>1, <2>2, <3>1, <3>2, <3>3, <3>4
  <2>3. CASE ~(k < 18)
    <3>1. DigitOf(t, k) = IF a + 1 + 18 - 1 - k \in 1 .. a + 19 THEN t[a + 1 + 18 - 1 - k] ELSE 0
      BY <1>8, <1>10, <2>1, <2>3 DEF DigitOf, Places
    <3>2. a + 1 + 18 - 1 - k = a - (k - 18) /\ k - 18 \in Nat
          /\ (a - (k - 18) \in 1 .. a + 19 <=> k - 18 < a)
          /\ (k - 18 < a => a - (k - 18) \in 1 .. a)
      BY <2>3
    <3>3. DigitOfNumber(n, k - 18) = IF k - 18 < a THEN n[a - (k - 18)] ELSE 0
      BY <1>1 DEF DigitOfNumber
    <3> QED
      BY <1>9, <2>3, <3>1, <3>2, <3>3
  <2> QED
    BY <2>2, <2>3
<1>13. 1 \in 1 .. a
  OBVIOUS
<1> QED
  BY <1>1, <1>2, <1>8, <1>9, <1>10, <1>11, <1>12, <1>13

\* tmp takes 35 of at least 32 digits.
LEMMA CutTo35 ==
  ASSUME NEW m \in Nat, NEW n \in Nat, 32 <= m, n <= 32 => m = 32
  PROVE  /\ (IF m < 35 THEN m ELSE 35) \in Nat
         /\ 32 <= (IF m < 35 THEN m ELSE 35)
         /\ (IF m < 35 THEN m ELSE 35) <= m
         /\ n <= 32 => (IF m < 35 THEN m ELSE 35) = 32
OBVIOUS

\* What bignum_to_string writes.
LEMMA AlignedFacts ==
  ASSUME NEW s \in Seq(Digit), NEW t, t = Aligned(s)
  PROVE  /\ t \in Seq(Char)
         /\ Len(s) <= 32 => \A k \in Nat : DigitOf(t, k) = DigitOfNumber(s, k)
<1>1. PICK n \in Nat : n = Len(s)
  BY LenProperties
<1> DEFINE e == IF Len(s) < 32 THEN Zeros(32 - Len(s)) \o s ELSE s
           h == SubSeq(e, 1, 14)
           z == IF Len(e) < 35 THEN Len(e) ELSE 35
           g == SubSeq(e, 15, z)
<1>2. /\ e \in Seq(Char) /\ Len(e) \in Nat /\ Len(e) >= 32
      /\ \A k \in 1 .. Len(e) : e[k] \in Digit
      /\ n <= 32 => Len(e) = 32 /\ \A k \in 0 .. 31 : e[32 - k] = DigitOfNumber(s, k)
  <2> HIDE DEF e
  <2>1. /\ e \in Seq(Char) /\ Len(e) \in Nat /\ Len(e) >= 32
        /\ \A k \in 1 .. Len(e) : e[k] \in Digit
        /\ Len(s) <= 32 => /\ Len(e) = 32
                           /\ \A k \in Nat : k < 32 => e[32 - k] = DigitOfNumber(s, k)
    <3>1. e = Padded(s, 32)
      BY DEF e, Padded
    <3> QED
      BY <3>1, PaddedFacts
  <2>2. \A k \in 0 .. 31 : k \in Nat /\ k < 32
    OBVIOUS
  <2> QED
    BY <1>1, <2>1, <2>2
<1>3. t = h \o <<Point>> \o g
  <2>1. PICK a : a = e
    OBVIOUS
  <2>2. t = SubSeq(a, 1, 14) \o <<Point>>
              \o SubSeq(a, 15, IF Len(a) < 35 THEN Len(a) ELSE 35)
    BY <2>1 DEF Aligned
  <2> QED
    BY <2>1, <2>2
<1> HIDE DEF e
<1>4. h \in Seq(Char) /\ Len(h) = 14 /\ \A k \in 1 .. 14 : h[k] = e[k]
  <2>1. \A k \in 1 .. 14 : e[k] \in Char
    BY <1>2, CharFacts
  <2>2. /\ h \in Seq(Char) /\ Len(h) = IF 1 <= 14 THEN 14 - 1 + 1 ELSE 0
        /\ \A k \in 1 .. 14 - 1 + 1 : h[k] = e[1 + k - 1]
    BY <2>1, SubSeqProperties
  <2> HIDE DEF h
  <2> QED
    BY <2>2
<1>z. z \in Nat /\ 32 <= z /\ z <= Len(e) /\ (n <= 32 => z = 32)
  <2>1. Len(e) \in Nat /\ 32 <= Len(e) /\ (n <= 32 => Len(e) = 32)
    BY <1>2
  <2> QED
    BY ZenonT(40), <2>1, CutTo35
<1> HIDE DEF z
<1>5. /\ g \in Seq(Char) /\ Len(g) = z - 14
      /\ \A k \in 1 .. z - 14 : g[k] = e[14 + k]
  <2>1. \A k \in 15 .. z : e[k] \in Char
    <3>1. \A k \in 15 .. z : k \in 1 .. Len(e)
      BY <1>2, <1>z
    <3> QED
      BY <1>2, <3>1, CharFacts
  <2>2. /\ g \in Seq(Char) /\ Len(g) = IF 15 <= z THEN z - 15 + 1 ELSE 0
        /\ \A k \in 1 .. z - 15 + 1 : g[k] = e[15 + k - 1]
    BY <1>z, <2>1, SubSeqProperties
  <2>3. 15 <= z /\ z - 15 + 1 = z - 14
        /\ \A k \in 1 .. z - 14 : 15 + k - 1 = 14 + k
    BY <1>z
  <2> HIDE DEF g
  <2> QED
    BY <2>2, <2>3
<1> HIDE DEF h, g
<1>6. /\ t \in Seq(Char) /\ Len(t) = 14 + 1 + Len(g)
      /\ \A k \in 1 .. 14 : t[k] = h[k]
      /\ t[14 + 1] = Point
      /\ \A k \in 1 .. Len(g) : t[14 + 1 + k] = g[k]
  <2>1. 14 \in Nat
    OBVIOUS
  <2>2. /\ t \in Seq(Char) /\ Len(g) \in Nat /\ Len(t) = 14 + 1 + Len(g)
        /\ \A k \in 1 .. 14 : t[k] = h[k]
        /\ t[14 + 1] = Point
        /\ \A k \in 1 .. Len(g) : t[14 + 1 + k] = g[k]
    <3>1. t = Pointed(h, g) /\ h \in Seq(Char) /\ g \in Seq(Char) /\ 14 = Len(h)
      BY <1>3, <1>4, <1>5 DEF Pointed
    <3>2. /\ Pointed(h, g) \in Seq(Char) /\ Len(g) \in Nat
          /\ Len(Pointed(h, g)) = Len(h) + 1 + Len(g)
          /\ \A k \in 1 .. Len(h) : Pointed(h, g)[k] = h[k]
          /\ Pointed(h, g)[Len(h) + 1] = Point
          /\ \A k \in 1 .. Len(g) : Pointed(h, g)[Len(h) + 1 + k] = g[k]
      BY <3>1, PointedFacts
    <3> QED
      BY <3>1, <3>2
  <2> QED
    BY <2>2
<1>7. ASSUME n <= 32, NEW k \in Nat PROVE DigitOf(t, k) = DigitOfNumber(s, k)
  <2>1. Len(e) = 32 /\ Len(g) = 18 /\ Len(t) = 33
    <3>1. Len(e) = 32
      BY <1>2, <1>7
    <3>2. Len(g) = 18
      BY <1>5, <1>7, <1>z
    <3> QED
      BY <1>6, <3>1, <3>2
  <2>2. PointAt(t) = 15
    <3>1. \A j \in 1 .. 14 : t[j] # Point
      <4>1. \A j \in 1 .. 14 : j \in 1 .. Len(e)
        BY <2>1
      <4>2. \A j \in 1 .. 14 : t[j] \in Digit
        BY <1>2, <1>4, <1>6, <4>1
      <4> QED
        BY <4>2, CharFacts
    <3>2. 33 \in Nat /\ 15 \in 1 .. 33 + 1 /\ t[15] = Point
      BY <1>6
    <3>3. \A j \in 1 .. 15 - 1 : t[j] # Point
      BY SMTT(30), <3>1
    <3> QED
      BY ZenonT(40), <2>1, <3>2, <3>3, PointAtIs
  <2>3. k < 32 => e[32 - k] = DigitOfNumber(s, k)
    <3>1. k < 32 => k \in 0 .. 31
      OBVIOUS
    <3>2. \A x \in 0 .. 31 : e[32 - x] = DigitOfNumber(s, x)
      BY <1>2, <1>7
    <3> QED
      BY <3>1, <3>2
  <2>4. CASE k < 18
    <3>1. /\ 15 + 18 - k \in 1 .. 33 /\ 15 + 18 - k = 14 + 1 + (18 - k) /\ 18 - k \in 1 .. 18
          /\ 14 + (18 - k) = 32 - k
      BY <2>4
    <3>2. DigitOf(t, k) = t[15 + 18 - k]
      BY <2>1, <2>2, <2>4, <3>1 DEF DigitOf, Places
    <3>3. t[14 + 1 + (18 - k)] = g[18 - k]
      BY <1>6, <2>1, <3>1
    <3>4. g[18 - k] = e[14 + (18 - k)]
      BY <1>5, <2>1, <3>1
    <3> QED
      BY <2>3, <2>4, <3>1, <3>2, <3>3, <3>4
  <2>5. CASE ~(k < 18) /\ k < 32
    <3>1. 15 + 18 - 1 - k \in 1 .. 33 /\ 15 + 18 - 1 - k = 32 - k /\ 32 - k \in 1 .. 14
      BY <2>5
    <3>2. DigitOf(t, k) = t[32 - k]
      BY <2>1, <2>2, <2>5, <3>1 DEF DigitOf, Places
    <3>3. PICK x \in 1 .. 14 : x = 32 - k
      BY <3>1
    <3>4. t[x] = h[x] /\ h[x] = e[x]
      BY <1>4, <1>6
    <3> QED
      BY <2>3, <2>5, <3>2, <3>3, <3>4
  <2>6. CASE ~(k < 32)
    <3>1. ~(15 + 18 - 1 - k \in 1 .. 33) /\ ~(k < 18) /\ ~(k < n)
      BY <1>7, <2>6
    <3>2. DigitOf(t, k) = 0
      BY <2>1, <2>2, <3>1 DEF DigitOf, Places
    <3>3. DigitOfNumber(s, k) = 0
      BY <1>1, <3>1 DEF DigitOfNumber
    <3> QED
      BY <3>2, <3>3
  <2> QED
    BY <2>4, <2>5, <2>6
<1> QED
  BY <1>1, <1>6, <1>7

----------------------------------------------------------------------------
(* The amounts in the steps.                                               *)

\* What aergo_transfer_str accepts.
Sound(t) == IsNumber(Unsigned(Concatenated(t))) /\ Magnitude(t) # << >>

\* What aergo_transfer_str sends and refuses, of any text.
LEMMA TransferFacts ==
  ASSUME NEW t \in Seq(Char)
  PROVE  /\ Sound(t) => Magnitude(t) \in Seq(Digit)
         /\ ~MinusAfterPoint(t) =>
              \A k \in Nat : DigitOfNumber(Magnitude(t), k) = DigitOf(Unsigned(t), k)
         /\ ~Sound(t) /\ PointAt(t) <= 18 /\ ~MinusAfterPoint(t) =>
              LET digits == {DigitOf(Unsigned(t), k) : k \in Worth}
              IN digits = {0} \/ ~ digits \subseteq Digit
<1> DEFINE u == Unsigned(Concatenated(t))
           m == Magnitude(t)
           digits == {DigitOf(Unsigned(t), k) : k \in Worth}
<1>1. /\ u \in Seq(Char) /\ Len(u) <= PointAt(t) + 17
      /\ ~MinusAfterPoint(t) => \A k \in Nat : DigitOfNumber(u, k) = DigitOf(Unsigned(t), k)
  BY UnsignedFacts
<1>2. m = SubSeq(u, LeadingZeros(u) + 1, Len(u))
  BY DEF Magnitude
<1>3. Sound(t) <=> IsNumber(u) /\ m # << >>
  BY DEF Sound
<1> HIDE DEF u, m
<1>4. /\ \A k \in Nat : DigitOfNumber(m, k) = DigitOfNumber(u, k)
      /\ m = << >> => \A k \in Nat : DigitOfNumber(u, k) = 0
      /\ IsNumber(u) => m \in Seq(Digit)
  BY <1>1, <1>2, MagnitudeFacts
<1>5. ~MinusAfterPoint(t) => \A k \in Nat : DigitOfNumber(m, k) = DigitOf(Unsigned(t), k)
  BY <1>1, <1>4
<1>6. Worth \subseteq Nat /\ 0 \in Worth /\ \A k \in Nat : k <= 36 => k \in Worth
  BY DEF Worth, Places
<1>7. ASSUME ~Sound(t), PointAt(t) <= 18, ~MinusAfterPoint(t)
      PROVE  digits = {0} \/ ~ digits \subseteq Digit
  <2>1. CASE m = << >>
    <3>1. \A k \in Worth : DigitOf(Unsigned(t), k) = 0
      BY <1>1, <1>4, <1>6, <1>7, <2>1
    <3> QED
      BY <1>6, <3>1
  <2>2. CASE ~IsNumber(u)
    <3>1. PICK n \in Nat : n = Len(u)
      BY <1>1, LenProperties
    <3>2. PICK j \in 1 .. n : u[j] \notin Digit
      BY <2>2, <3>1 DEF IsNumber
    <3>3. PICK p \in Nat : p = PointAt(t)
      BY ConcatenatedFacts
    <3>4. n - j \in Nat /\ n - j <= 36 /\ n - j < n /\ n - (n - j) = j
      BY <1>1, <1>7, <3>1, <3>3
    <3>5. DigitOfNumber(u, n - j) = u[j]
      BY <3>1, <3>4 DEF DigitOfNumber
    <3>6. DigitOf(Unsigned(t), n - j) = u[j]
      BY <1>1, <1>7, <3>4, <3>5
    <3>7. u[j] \in digits
      BY <1>6, <3>4, <3>6
    <3> HIDE DEF digits
    <3> QED
      BY <3>2, <3>7
  <2> QED
    BY <1>3, <1>7, <2>1, <2>2
<1> QED
  BY <1>3, <1>4, <1>5, <1>7 DEF m

AmountType ==
  /\ pc \in {"idle", "sent", "refused", "printed", "writing", "accepted"}
  /\ text \in Seq(Char)
  /\ integer \in Seq(Digit)
  /\ decimal \in Seq(Digit)
  /\ amount \in Seq(Digit)

\* Where the amount and its text come from, by how far the call is.
AmountInv ==
  /\ AmountType
  /\ pc = "idle" => integer = << >>
  /\ pc = "sent" => amount = Magnitude(text) /\ Sound(text)
  /\ pc = "sent" /\ integer # << >> => text = PrintInt(integer, decimal)
                                       /\ Len(integer) \in 1 .. 17
  /\ pc = "refused" /\ args = << >> => ~Sound(text) /\ PointAt(text) <= 18
  /\ pc = "printed" => text = Aligned(amount)

\* Its step, in these terms.
LEMMA StringTransferred ==
  ASSUME NEW t \in Seq(Char), PointAt(t) <= 18, TransferStr(t)
  PROVE  /\ text' = t /\ amount' \in Seq(Digit)
         /\ \/ pc' = "sent" /\ Sound(t) /\ amount' = Magnitude(t)
            \/ pc' = "refused" /\ ~Sound(t)
<1>1. CASE Sound(t)
  BY <1>1, TransferFacts DEF TransferStr, Sound
<1>2. CASE ~Sound(t)
  <2>1. << >> \in Seq(Digit)
    OBVIOUS
  <2> QED
    BY <1>2, <2>1 DEF TransferStr, Sound
<1> QED
  BY <1>1, <1>2

\* The steps keep where the amount comes from: a transfer of a text,
LEMMA AmountTransfer == ASSUME AmountInv, Transfer PROVE AmountInv'
<1>1. PICK t \in Texts : TransferStr(t)
  BY DEF Transfer
<1>2. t \in Seq(Char) /\ PointAt(t) <= 18
  <2>1. t \in Seq(Char) /\ PointAt(t) - 1 <= 17
    BY ConversionsAssumption DEF IntRoom
  <2>2. PointAt(t) \in Nat
    BY <2>1, ConcatenatedFacts
  <2> QED
    BY <2>1, <2>2
<1>3. /\ text' = t /\ amount' \in Seq(Digit)
      /\ \/ pc' = "sent" /\ Sound(t) /\ amount' = Magnitude(t)
         \/ pc' = "refused" /\ ~Sound(t)
  BY <1>1, <1>2, StringTransferred
<1>4. integer' = integer /\ decimal' = decimal /\ integer = << >>
  BY DEF Transfer, AmountInv
<1>5. AmountType'
  BY <1>2, <1>3, <1>4 DEF AmountInv, AmountType
<1> QED
  BY <1>2, <1>3, <1>4, <1>5 DEF AmountInv

\* a transfer of two integers, as the text they are printed to,
LEMMA AmountTransferInt == ASSUME AmountInv, TransferInt PROVE AmountInv'
<1>1. PICK n \in IntegerParts, d \in DecimalParts :
        integer' = n /\ decimal' = d /\ TransferStr(PrintInt(n, d))
  BY DEF TransferInt
<1>2. n \in Seq(Digit) /\ d \in Seq(Digit) /\ Len(n) \in 1 .. 17
  BY ConversionsAssumption DEF IntRoom
<1>3. PICK t : t = PrintInt(n, d)
  OBVIOUS
<1>4. t \in Seq(Char) /\ PointAt(t) = Len(n) + 1
  BY <1>2, <1>3, PrintIntFacts
<1>5. PointAt(t) <= 18
  <2>1. PICK a \in 1 .. 17 : a = Len(n)
    BY <1>2
  <2>2. PointAt(t) = a + 1
    BY <1>4, <2>1
  <2>3. a + 1 <= 18
    OBVIOUS
  <2> QED
    BY <2>2, <2>3
<1>6. /\ text' = t /\ amount' \in Seq(Digit)
      /\ \/ pc' = "sent" /\ Sound(t) /\ amount' = Magnitude(t)
         \/ pc' = "refused" /\ ~Sound(t)
  BY <1>1, <1>3, <1>4, <1>5, StringTransferred
<1>7. AmountType'
  BY <1>1, <1>2, <1>4, <1>6 DEF AmountType
<1> QED
  BY <1>1, <1>2, <1>3, <1>5, <1>6, <1>7 DEF AmountInv

\* a balance, as it is reported.
LEMMA AmountPrinted == ASSUME AmountInv, PrintBalance PROVE AmountInv'
<1>1. PICK b \in (IF pc = "sent" THEN {amount} ELSE Balances) : amount' = b /\ text' = Aligned(b)
  BY DEF PrintBalance
<1>2. b \in Seq(Digit)
  BY <1>1, ConversionsAssumption DEF AmountInv, AmountType
<1>3. Aligned(b) \in Seq(Char)
  BY <1>2, AlignedFacts
<1>4. pc' = "printed" /\ integer' = integer /\ decimal' = decimal
  BY DEF PrintBalance
<1>5. AmountType'
  BY <1>1, <1>2, <1>3, <1>4 DEF AmountInv, AmountType
<1> QED
  BY <1>1, <1>4, <1>5 DEF AmountInv

\* A refused call of a contract has arguments.
LEMMA JsonLeavesAmounts ==
  ASSUME AmountInv, JsonInv,
         BeginJson \/ EndJson \/ StringArgument \/ NumberArgument \/ BlobArgument
           \/ UnknownArgument
  PROVE  AmountInv'
<1>1. UNCHANGED <<text, integer, decimal, amount>>
  BY DEF BeginJson, EndJson, StringArgument, NumberArgument, BlobArgument, UnknownArgument,
         Invalid, Written, amounts
<1>2. \/ pc' \in {"writing", "accepted"}
      \/ pc' = "refused" /\ args' = args /\ i < Len(args)
  BY DEF BeginJson, EndJson, StringArgument, NumberArgument, BlobArgument, UnknownArgument,
         Invalid, Written, Writing, json
<1>3. pc' \in {"writing", "accepted"} \/ (pc' = "refused" /\ args' # << >>)
  <2>1. i < Len(args) => args # << >>
    <3>1. i \in Nat /\ (args = << >> => Len(args) = 0)
      BY DEF JsonInv, JsonType
    <3> QED
      BY <3>1
  <2> QED
    BY <1>2, <2>1
<1>4. AmountType'
  BY <1>1, <1>3 DEF AmountInv, AmountType
<1> QED
  BY <1>1, <1>3, <1>4 DEF AmountInv

\* It is kept by each step.
LEMMA AmountNext == ASSUME AmountInv, JsonInv, [Next]_vars PROVE AmountInv'
<1>1. CASE UNCHANGED vars
  BY <1>1 DEF vars, AmountInv, AmountType
<1>2. CASE Next
  BY <1>2, AmountTransfer, AmountTransferInt, AmountPrinted, JsonLeavesAmounts DEF Next
<1> QED
  BY <1>1, <1>2

\* It holds in the initial state,
LEMMA AmountInit == Init => AmountInv
<1>1. << >> \in Seq(Char) /\ << >> \in Seq(Digit)
  OBVIOUS
<1> QED
  BY <1>1 DEF Init, AmountInv, AmountType

\* and thus always.
LEMMA AmountInvariance == Spec => []AmountInv
BY AmountInit, AmountNext, JsonInvariance, PTL DEF Spec

----------------------------------------------------------------------------
\* Every conversion yields what its callers take (conversions.c); the space that
\* arguments_to_json counts is a number, and may be negative.
THEOREM ConversionsTypes == Spec => []TypeOK
<1>1. ASSUME JsonInv, AmountInv PROVE TypeOK
  <2>1. AmountType
    BY <1>1 DEF AmountInv
  <2>2. /\ args \in Seq(Arguments) /\ i \in 0 .. Len(args) /\ Len(args) <= MaxArgs
        /\ buf \in Seq((0 .. MaxArgs) \X Nat) /\ dsize \in Int /\ top \in Nat
    BY <1>1 DEF JsonInv, JsonType, JsonChar
  <2>3. i \in 0 .. MaxArgs
    <3>1. PICK n \in Nat : n = Len(args)
      BY <2>2, LenProperties
    <3> QED
      BY <2>2, <3>1, ConversionsAssumption
  <2> QED
    BY <2>1, <2>2, <2>3 DEF TypeOK, AmountType
<1> QED
  BY JsonInvariance, AmountInvariance, <1>1, PTL

(***************************************************************************)
(* What aergo_transfer_str sends has the digits of the text, and what it   *)
(* refuses is no number in these or zero: for every text with an integer   *)
(* part that fits, of any length (string_to_bignum).                       *)
(***************************************************************************)
THEOREM AmountsAreExact == Spec => []AmountExact
<1>1. ASSUME AmountInv PROVE AmountExact
  <2>1. text \in Seq(Char)
    BY <1>1 DEF AmountInv, AmountType
  <2>2. ASSUME ~MinusAfterPoint(text), pc = "sent"
        PROVE  \A k \in Worth : DigitOfNumber(amount, k) = DigitOf(Unsigned(text), k)
    <3>1. amount = Magnitude(text) /\ Worth \subseteq Nat
      BY <1>1, <2>2 DEF AmountInv, Worth
    <3> QED
      BY <2>1, <2>2, <3>1, TransferFacts
  <2>3. ASSUME ~MinusAfterPoint(text), pc = "refused", args = << >>
        PROVE  LET digits == {DigitOf(Unsigned(text), k) : k \in Worth}
               IN digits = {0} \/ ~ digits \subseteq Digit
    <3>1. ~Sound(text) /\ PointAt(text) <= 18
      BY <1>1, <2>3 DEF AmountInv
    <3> QED
      BY <2>1, <2>3, <3>1, TransferFacts
  <2> QED
    BY <2>2, <2>3 DEF AmountExact, MinusAfterPoint
<1> QED
  BY AmountInvariance, <1>1, PTL

\* What aergo_transfer_int sends has the digits of both its arguments, for every
\* integer of up to 16 digits and every decimal below one (aergo.c:1466).
THEOREM IntegersAreExact == Spec => []IntExact
<1>1. ASSUME AmountInv PROVE IntExact
  <2> SUFFICES ASSUME pc = "sent", integer # << >>, Len(integer) <= 16, Len(decimal) <= 18,
                      NEW k \in Worth
               PROVE  DigitOfNumber(amount, k) =
                        IF k < 18 THEN DigitOfNumber(decimal, k)
                                  ELSE DigitOfNumber(integer, k - 18)
    BY DEF IntExact, Places
  <2>1. /\ text \in Seq(Char) /\ integer \in Seq(Digit) /\ decimal \in Seq(Digit)
        /\ amount = Magnitude(text) /\ text = PrintInt(integer, decimal)
        /\ Len(integer) \in 1 .. 17 /\ k \in Nat
    BY <1>1 DEF AmountInv, AmountType, Worth
  <2>2. /\ text # << >> /\ text[1] \in Digit
        /\ DigitOf(text, k) = IF k < 18 THEN DigitOfNumber(decimal, k)
                                        ELSE DigitOfNumber(integer, k - 18)
    BY <2>1, PrintIntFacts
  <2>3. text[1] # Point /\ text[1] # Minus
    BY <2>2, CharFacts
  <2>4. Unsigned(text) = text
    BY <2>1, <2>2, <2>3 DEF Unsigned
  <2>5. DigitOfNumber(Magnitude(text), k) = DigitOf(Unsigned(text), k)
    BY <2>1, <2>3, TransferFacts DEF MinusAfterPoint
  <2> QED
    BY <2>1, <2>2, <2>4, <2>5
<1> QED
  BY AmountInvariance, <1>1, PTL

\* The text a balance of up to 32 digits is printed to, before atof makes a
\* double of it, has the digits of the balance (bignum_to_string).
THEOREM BalanceTextsAreExact == Spec => []BalanceTextExact
<1>1. ASSUME AmountInv PROVE BalanceTextExact
  <2>1. /\ amount \in Seq(Digit) /\ Worth \subseteq Nat
        /\ pc = "printed" => text = Aligned(amount)
    BY <1>1 DEF AmountInv, AmountType, Worth
  <2> QED
    BY <2>1, AlignedFacts DEF BalanceTextExact
<1> QED
  BY AmountInvariance, <1>1, PTL
=============================================================================
