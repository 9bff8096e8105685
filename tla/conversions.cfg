\* Amounts of real length; arguments in a buffer that four of them fill.
SPECIFICATION Spec
CONSTANTS
  Texts <- MCTexts
  IntegerParts <- MCIntegerParts
  DecimalParts <- MCDecimalParts
  Balances <- MCBalances
  Arguments <- MCArguments
  MaxArgs = 4
  BufSize = 48
INVARIANTS
  TypeOK
  AmountExact
  IntExact
  BalanceTextExact
  ArgumentsExact
  OverrunBounded
  SmallAccepted
\* The model stops after one conversion.
CHECK_DEADLOCK FALSE
