---------------------------- MODULE Conversions ----------------------------
(***************************************************************************)
(* The conversions of conversions.c, with the calls that use them: amounts *)
(* from text to big numbers for a transfer and back for a balance, and the *)
(* arguments of a contract call as a JSON array in a buffer of fixed size. *)
(*                                                                         *)
(* A big number, big endian bytes in the code, is its decimal digits       *)
(* without leading zeros.  Of the characters of a text only digits, the    *)
(* point, the minus sign and "other" are told apart; of the JSON text, the *)
(* punctuation and the k-th character of the i-th argument, <<i, k>>.      *)
(***************************************************************************)
EXTENDS Integers, Sequences, FiniteSets

CONSTANTS
  Texts,      \* amounts an application gives as text
  IntegerParts,  \* the integer part of aergo_transfer_int, and ...
  DecimalParts,  \* ... its decimal part, in units of 10^-18
  Balances,   \* what a node may report
  Arguments,  \* arguments of a contract call, with the length they print to
  MaxArgs,    \* bound: the arguments of one call
  BufSize     \* the size of args, 512 in the code

Digit == 0 .. 9
Point == 10
Minus == 11
Other == 12
Char == 0 .. 12
Places == 18    \* digits after the point
IntRoom == 17   \* what integer[36] has left for the integer part

VARIABLES
  pc,       \* idle; sent or refused; printed; writing the JSON, then accepted
  text,     \* the amount as text, given by the application or printed
  integer, decimal,  \* the arguments of aergo_transfer_int
  amount,   \* the big number
  args,     \* the arguments of the call
  i,        \* how many of them were written
  buf,      \* the JSON text up to the i-th of them, dest being its end
  dsize,    \* the space arguments_to_json believes to be left, an int
  top       \* how many bytes of args it ever wrote, a NUL included

amounts == <<text, integer, decimal, amount>>
json == <<args, i, buf, dsize, top>>
vars == <<pc, text, integer, decimal, amount, args, i, buf, dsize, top>>

Init ==
  /\ pc = "idle"
  /\ text = << >> /\ integer = << >> /\ decimal = << >> /\ amount = << >>
  /\ args = << >> /\ i = 0 /\ buf = << >> /\ dsize = 0 /\ top = 0

----------------------------------------------------------------------------
(* Amounts.  Definitions named ...Mutant are plausible mistakes.           *)

Zeros(n) == [k \in 1 .. n |-> 0]

LeadingZeros(s) == CHOOSE n \in 0 .. Len(s) :
  /\ \A k \in 1 .. n : s[k] = 0
  /\ n < Len(s) => s[n + 1] # 0

\* strchr: where the first point is, or the end of the text.
PointAt(t) ==
  IF \E k \in 1 .. Len(t) : t[k] = Point
  THEN CHOOSE k \in 1 .. Len(t) :
         t[k] = Point /\ \A j \in 1 .. k - 1 : t[j] # Point
  ELSE Len(t) + 1

\* Longer integer parts do not fit integer[36], which nothing checks: what the
\* code then does is undefined, and left out.  "%f" prints a finite double with
\* six decimals, thus 8 characters at least; others are no JSON.  args has room
\* for one.
ASSUME ConversionsAssumption ==
  /\ Texts \subseteq Seq(Char)
  /\ \A t \in Texts : PointAt(t) - 1 <= IntRoom
  /\ IntegerParts \cup DecimalParts \cup Balances \subseteq Seq(Digit)
  /\ \A n \in IntegerParts : Len(n) \in 1 .. IntRoom
  /\ Arguments \subseteq [type: {"s", "i", "l", "d", "b", "?"}, length: Nat]
  /\ \A a \in Arguments : a.type = "d" => a.length >= 8
  /\ MaxArgs \in Nat
  /\ BufSize \in Nat /\ BufSize >= 28

\* short fractions are not filled up
FractionMutant(t) ==
  SubSeq(t, PointAt(t) + 1,
         IF PointAt(t) + Places < Len(t) THEN PointAt(t) + Places ELSE Len(t))

\* The first 18 digits after the point, filled up with zeros.
Fraction(t) == SubSeq(SubSeq(t, PointAt(t) + 1, Len(t)) \o Zeros(Places), 1, Places)

\* any character passes for a digit
IsNumberMutant(s) == TRUE

\* mpi_get_digit accepts every character.
IsNumber(s) == \A k \in 1 .. Len(s) : s[k] \in Digit

(***************************************************************************)
(* string_to_bignum, by what it returns: digits, none of which stands for  *)
(* a length of zero, or a text that is no number.  mbedtls takes a leading *)
(* minus, and writes the magnitude.                                        *)
(***************************************************************************)
Concatenated(t) == SubSeq(t, 1, PointAt(t) - 1) \o Fraction(t)

Unsigned(s) == IF s # << >> /\ Head(s) = Minus THEN Tail(s) ELSE s

Magnitude(t) ==
  LET s == Unsigned(Concatenated(t))
  IN SubSeq(s, LeadingZeros(s) + 1, Len(s))

\* aergo_transfer_str: a length <= 0 is refused.
TransferStr(t) ==
  /\ text' = t
  /\ IF IsNumber(Unsigned(Concatenated(t))) /\ Magnitude(t) # << >>
     THEN pc' = "sent" /\ amount' = Magnitude(t)
     ELSE pc' = "refused" /\ amount' = << >>

Transfer ==
  /\ pc = "idle"
  /\ \E t \in Texts : TransferStr(t)
  /\ UNCHANGED <<integer, decimal>> /\ UNCHANGED json

\* "%llu.%llu": the zeros between the point and the decimals are missing
PrintIntMutant(n, d) == SubSeq(n \o <<Point>> \o d, 1,
  IF Len(n) + 1 + Len(d) < 35 THEN Len(n) + 1 + Len(d) ELSE 35)

\* snprintf of "%llu.%018llu" to amount_str[36].
PrintInt(n, d) ==
  LET s == n \o <<Point>>
             \o (IF Len(d) < Places THEN Zeros(Places - Len(d)) \o d ELSE d)
  IN SubSeq(s, 1, IF Len(s) < 35 THEN Len(s) ELSE 35)

\* aergo_transfer_int
TransferInt ==
  /\ pc = "idle"
  /\ \E n \in IntegerParts, d \in DecimalParts :
       /\ integer' = n /\ decimal' = d
       /\ TransferStr(PrintInt(n, d))
  /\ UNCHANGED json

\* padded to 31 digits only, "%31s"
AlignedMutant(s) ==
  LET t == IF Len(s) < 31 THEN Zeros(31 - Len(s)) \o s ELSE s
  IN SubSeq(t, 1, 14) \o <<Point>> \o SubSeq(t, 15, Len(t))

\* bignum_to_string: 32 digits, the point after the first 14; tmp[36] holds 35.
Aligned(s) ==
  LET t == IF Len(s) < 32 THEN Zeros(32 - Len(s)) \o s ELSE s
  IN SubSeq(t, 1, 14) \o <<Point>> \o SubSeq(t, 15, IF Len(t) < 35 THEN Len(t) ELSE 35)

\* read_bignum_to_double up to the text it has printed, of the balance of an
\* account that received what was sent, or any other.  What the caller gets is
\* atof of that text, a double of some 16 digits: it is not modelled.
PrintBalance ==
  /\ pc \in {"idle", "sent"}
  /\ \E b \in IF pc = "sent" THEN {amount} ELSE Balances :
       amount' = b /\ text' = Aligned(b)
  /\ pc' = "printed"
  /\ UNCHANGED <<integer, decimal>> /\ UNCHANGED json

----------------------------------------------------------------------------
(* Arguments.  A record has the type, and the length of what printf writes *)
(* or of the string; of a blob, the number of bytes.                       *)

Open == <<0, 1>>
Close == <<0, 2>>
Comma == <<0, 3>>
Quote == <<0, 4>>

BeginJson ==
  /\ pc = "idle"
  /\ pc' = "writing"
  /\ \E n \in 0 .. MaxArgs : args' \in [1 .. n -> Arguments]
  /\ i' = 0
  /\ buf' = <<Open>>
  /\ dsize' = BufSize - 2
  /\ top' = 1
  /\ UNCHANGED amounts

Separator == IF i > 0 THEN <<Comma>> ELSE << >>

Characters(n) == [k \in 1 .. n |-> <<i + 1, k>>]

\* everything written so far is subtracted again
RoomMutant(b) == dsize - Len(b)

\* Negative once empty strings were written past the end.
Room(b) == BufSize - Len(b)

Reach(w) == IF top < w THEN w ELSE top

\* The argument is written: b is the text with it, w the bytes written.
Written(b, w) ==
  /\ buf' = b
  /\ dsize' = Room(b)
  /\ top' = Reach(w)
  /\ i' = i + 1
  /\ UNCHANGED <<pc, args>> /\ UNCHANGED amounts

Invalid ==
  /\ pc' = "refused"
  /\ UNCHANGED json /\ UNCHANGED amounts

Writing(types) == pc = "writing" /\ i < Len(args) /\ args[i + 1].type \in types

\* limit is checked after every character, thus not for an empty string: with
\* the quote at start, the first one past limit ends the call.
StringArgument ==
  /\ Writing({"s"})
  /\ LET n == args[i + 1].length
         start == Len(buf) + Len(Separator) + 1
         limit == BufSize - 4
     IN IF n > 0 /\ start + n > limit
        THEN /\ pc' = "refused"
             /\ top' = Reach(IF start < limit THEN limit + 1 ELSE start + 1)
             /\ UNCHANGED <<args, i, buf, dsize>> /\ UNCHANGED amounts
        ELSE Written(buf \o Separator \o <<Quote>> \o Characters(n) \o <<Quote>>,
                     start + n + 1)

\* a blob needs no room for the comma and the quotes
NeedsLessMutant(a) ==
  CASE a.type \in {"i", "l"} -> 12 [] a.type = "d" -> 26
    [] a.type = "b" -> 2 * a.length

\* a blob is counted as twice as long
NeedsMutant(a) ==
  CASE a.type \in {"i", "l"} -> 12 [] a.type = "d" -> 26
    [] a.type = "b" -> 4 * a.length + 3

Needs(a) ==
  CASE a.type \in {"i", "l"} -> 12 [] a.type = "d" -> 26
    [] a.type = "b" -> 2 * a.length + 3

\* snprintf writes dsize - 1 characters at most, and a NUL.
NumberArgument ==
  /\ Writing({"i", "l", "d"})
  /\ LET n == args[i + 1].length
         b == buf \o Separator
                  \o Characters(IF n < dsize THEN n ELSE dsize - 1)
     IN IF dsize < Needs(args[i + 1])
        THEN Invalid
        ELSE Written(b, Len(b) + 1)

BlobArgument ==
  /\ Writing({"b"})
  /\ LET b == buf \o Separator \o <<Quote>>
                  \o Characters(2 * args[i + 1].length) \o <<Quote>>
     IN IF dsize < Needs(args[i + 1])
        THEN Invalid
        ELSE Written(b, Len(b))

UnknownArgument == Writing({"?"}) /\ Invalid

EndJson ==
  /\ pc = "writing"
  /\ i = Len(args)
  /\ pc' = "accepted"
  /\ buf' = Append(buf, Close)
  /\ top' = Reach(Len(buf) + 2)
  /\ UNCHANGED <<args, i, dsize>> /\ UNCHANGED amounts

Next ==
  \/ Transfer \/ TransferInt \/ PrintBalance
  \/ BeginJson \/ EndJson
  \/ StringArgument \/ NumberArgument \/ BlobArgument \/ UnknownArgument

Spec == Init /\ [][Next]_vars

----------------------------------------------------------------------------
TypeOK ==
  /\ pc \in {"idle", "sent", "refused", "printed", "writing", "accepted"}
  /\ text \in Seq(Char)
  /\ integer \in Seq(Digit)
  /\ decimal \in Seq(Digit)
  /\ amount \in Seq(Digit)
  /\ args \in Seq(Arguments)
  /\ i \in 0 .. MaxArgs
  /\ buf \in Seq((0 .. MaxArgs) \X Nat)
  /\ dsize \in Int
  /\ top \in Nat

(***************************************************************************)
(* The definition the conversions are compared with: the digit of a text,  *)
(* or of a big number, that is worth 10^(k - 18).                          *)
(***************************************************************************)
DigitOf(t, k) ==
  LET p == IF k < Places THEN PointAt(t) + Places - k
                         ELSE PointAt(t) + Places - 1 - k
  IN IF p \in 1 .. Len(t) THEN t[p] ELSE 0

DigitOfNumber(s, k) == IF k < Len(s) THEN s[Len(s) - k] ELSE 0

Worth == 0 .. 2 * Places

\* What is transferred is the number that the text says, digit by digit, cut
\* after 18 decimals; a minus is dropped.  It is refused exactly if the text
\* is no number in these digits, or says zero (conversions.c:47, aergo.c:1384).
\* Not said of a text like ".-5", which has its minus after the point: without
\* an integer part that minus comes first in what mbedtls reads.
AmountExact ==
  ~ (Len(text) > 1 /\ text[1] = Point /\ text[2] = Minus) =>
    /\ pc = "sent" =>
         \A k \in Worth : DigitOfNumber(amount, k) = DigitOf(Unsigned(text), k)
    /\ pc = "refused" /\ args = << >> =>
         LET digits == {DigitOf(Unsigned(text), k) : k \in Worth}
         IN digits = {0} \/ ~ digits \subseteq Digit

\* aergo_transfer_int transfers integer + decimal / 10^18, for all decimals
\* below one and all integers of 16 digits, though amount_str has 36 bytes
\* (aergo.c:1466-1473).
IntExact ==
  pc = "sent" /\ integer # << >> /\ Len(integer) <= 16 /\ Len(decimal) <= Places =>
    \A k \in Worth : DigitOfNumber(amount, k) =
      IF k < Places THEN DigitOfNumber(decimal, k)
                    ELSE DigitOfNumber(integer, k - Places)

\* The text of a balance, which atof is then given, says the number that the
\* node reported, up to the 14 digits tmp has before the point
\* (conversions.c:35).
BalanceTextExact ==
  pc = "printed" /\ Len(amount) <= 32 =>
    \A k \in Worth : DigitOf(text, k) = DigitOfNumber(amount, k)

\* The JSON text of the arguments a, and what it is up to the k-th of them.
Item(a, k) ==
  LET chars(n) == [c \in 1 .. n |-> <<k, c>>]
  IN (IF k > 1 THEN <<Comma>> ELSE << >>)
     \o CASE a[k].type = "s" -> <<Quote>> \o chars(a[k].length) \o <<Quote>>
          [] a[k].type = "b" -> <<Quote>> \o chars(2 * a[k].length) \o <<Quote>>
          [] OTHER           -> chars(a[k].length)

JsonUpTo(a) ==
  LET upTo[k \in 0 .. Len(a)] ==
        IF k = 0 THEN <<Open>> ELSE upTo[k - 1] \o Item(a, k)
  IN upTo

Json == Append(JsonUpTo(args)[Len(args)], Close)

\* If the JSON text and its NUL fit, then nothing is written past the end of
\* the buffer, and what is accepted is that text, although the space is
\* counted apart from the writing, per type, and snprintf cuts off what is
\* too long (conversions.c:96, 100, 113, 142).
ArgumentsExact ==
  pc # "idle" /\ Len(Json) + 1 <= BufSize =>
    /\ top <= BufSize
    /\ pc = "accepted" => buf = Json

EmptyStrings == {k \in 1 .. Len(args) : args[k].type = "s" /\ args[k].length = 0}

\* Whatever the arguments are, no more than 3 bytes are written past the end
\* of the buffer, and 3 more for every string that is empty: these are never
\* compared with limit, and the number and the blob leave no room for what
\* follows them (conversions.c:104, 110, 115, 121, 128, 145).
OverrunBounded == top <= BufSize + 3 + 3 * Cardinality(EmptyStrings)

\* A call is not refused while 15 bytes are left over: the reserves that the
\* types ask for do not add up (conversions.c:110, 115, 121, 128).
SmallAccepted ==
  pc = "refused" /\ args # << >> =>
    \/ \E k \in 1 .. Len(args) : args[k].type = "?"
    \/ Len(Json) + 1 + 15 > BufSize
=============================================================================
