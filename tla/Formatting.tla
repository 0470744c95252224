----------------------------- MODULE Formatting -----------------------------
(***************************************************************************)
(* The texts of internal/service/publisher.go, by what they tell a reader: *)
(* an amount as its groups of digits, a count with the form of its noun,   *)
(* names.  Wording, emoji and HTML are left out.                           *)
(***************************************************************************)
EXTENDS Integers, Sequences, SequencesExt

CONSTANTS
  IntBits,      \* the width of an int64
  AirportNames  \* airportNames: from some codes to the names of their cities

ASSUME FormattingAssumption == IntBits \in Nat \ {0}

\* The powers of b an int64 needs, with which proofs can calculate.
Power(b) ==
  LET p[n \in 0..IntBits] == IF n = 0 THEN 1 ELSE b * p[n - 1]
  IN  p

MinInt == -Power(2)[IntBits - 1]

Int64 == MinInt..-(MinInt + 1)

\* -n in two's complement: the smallest integer has no negation.
Negate(n) == IF n = MinInt THEN n ELSE -n

Magnitude(n) == IF n < 0 THEN -n ELSE n

-----------------------------------------------------------------------------
(* Amounts.                                                                *)

Minus == 10   \* a sign among the digits

\* strconv.FormatInt: a minus sign is a character like the digits.
DigitCount(m) == CHOOSE l \in 1..IntBits : /\ m < Power(10)[l]
                                           /\ l = 1 \/ m >= Power(10)[l - 1]

FormatInt(n) ==
  LET m == Magnitude(n)
      l == DigitCount(m)
      digits == [i \in 1..l |-> (m \div Power(10)[l - i]) % 10]
  IN  IF n < 0 THEN <<Minus>> \o digits ELSE digits

\* Fault variant: groups are counted from the left.
GroupsFromLeft(digits) ==
  [i \in 1..((Len(digits) + 2) \div 3) |->
     SubSeq(digits, 3 * i - 2, IF 3 * i < Len(digits) THEN 3 * i ELSE Len(digits))]

\* What is left over comes first, then groups of three.
Groups(digits) ==
  LET head == Len(digits) % 3
      rest == [i \in 1..(Len(digits) \div 3) |->
                 SubSeq(digits, head + 3 * i - 2, head + 3 * i)]
  IN  IF head > 0 THEN <<SubSeq(digits, 1, head)>> \o rest ELSE rest

\* Of the smallest integer the sign stays among the digits, and is set again.
GroupThousands(n) ==
  [neg    |-> n < 0,
   groups |-> Groups(FormatInt(IF n < 0 THEN Negate(n) ELSE n))]

\* formatPrice, the currency's sign being layout.
FormatPrice(price, currency) ==
  [amount |-> GroupThousands(price), currency |-> currency]

-----------------------------------------------------------------------------
(* Counts.                                                                 *)

\* Fault variant: eleven to fourteen are not looked at.
PluralByLastDigit(n) ==
  CASE n % 10 = 1 -> "one"
    [] n % 10 \in 2..4 -> "few"
    [] OTHER -> "many"

\* The form a Russian noun takes after n.
Plural(n) ==
  CASE n % 100 \in 11..14 -> "many"
    [] n % 100 \notin 11..14 /\ n % 10 = 1 -> "one"
    [] n % 100 \notin 11..14 /\ n % 10 \in 2..4 -> "few"
    [] OTHER -> "many"

Counted(n, unit) == [count |-> n, unit |-> unit, form |-> Plural(n)]

\* Without the rule of Plural: twenty-one stops take the form of many.
TransfersText(n) ==
  [count |-> IF n <= 0 THEN 0 ELSE n,
   form  |-> CASE n <= 0 -> "none"
               [] n = 1 -> "one"
               [] n \in 2..4 -> "few"
               [] OTHER -> "many"]

Minute == 60000
Hour == 60 * Minute

\* Fault variant: whatever is longer than an hour is told in hours.
HumanizeRoughly(d) ==
  CASE d >= Hour -> Counted(d \div Hour, Hour)
    [] d < Hour /\ d >= Minute /\ d % Minute = 0 -> Counted(d \div Minute, Minute)
    [] OTHER -> [count |-> d, unit |-> 1, form |-> "raw"]

\* humanizeInterval, in milliseconds; "raw" is Duration.String.
HumanizeInterval(d) ==
  CASE d >= Hour /\ d % Hour = 0 -> Counted(d \div Hour, Hour)
    [] ~ (d >= Hour /\ d % Hour = 0) /\ d >= Minute /\ d % Minute = 0 ->
         Counted(d \div Minute, Minute)
    [] OTHER -> [count |-> d, unit |-> 1, form |-> "raw"]

-----------------------------------------------------------------------------
(* Names.                                                                  *)

AirportName(code) ==
  IF code \in DOMAIN AirportNames THEN AirportNames[code] ELSE code

\* Two airports of one city are named once.
JoinNames(codes) ==
  LET names[n \in 0..Len(codes)] ==
        IF n = 0 THEN <<>>
        ELSE IF Contains(names[n - 1], AirportName(codes[n])) THEN names[n - 1]
             ELSE Append(names[n - 1], AirportName(codes[n]))
  IN  names[Len(codes)]
=============================================================================
