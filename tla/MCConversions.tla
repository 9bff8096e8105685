--------------------------- MODULE MCConversions ---------------------------
(* Amounts with every number of digits that the buffers distinguish, and   *)
(* arguments with the lengths next to what each type asks for.             *)
EXTENDS Conversions

Run(n) == [k \in 1 .. n |-> 1 + (k % 9)]

IntParts == {<<Minus, 5>>, <<Other>>, Zeros(3)} \cup {Run(n) : n \in {0, 1, 2, IntRoom}}

MCTexts ==
  IntParts \cup
  {n \o <<Point>> \o d : n \in IntParts,
     d \in {<<5, Point, 5>>, <<Minus, 5>>, Zeros(17) \o Run(2)}
           \cup {Zeros(z) \o Run(m) : z \in {0, 3}, m \in {0, 1, 15, 18, 19}}}

MCIntegerParts == {<<0>>} \cup {Run(n) : n \in {1, 3, 16, 17}}
MCDecimalParts == {<<0>>} \cup {Run(n) : n \in {1, 2, 17, 18}}
MCBalances == {<<0>>} \cup {Run(n) : n \in 1 .. 36}

MCArguments ==
  [type : {"s"}, length : {0, 1, 7, 25}] \cup [type : {"i"}, length : {1, 11}]
  \cup [type : {"l"}, length : {1, 20}] \cup [type : {"d"}, length : {8, 15}]
  \cup [type : {"b"}, length : {0, 5, 12}] \cup [type : {"?"}, length : {0}]
=============================================================================
