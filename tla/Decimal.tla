------------------------------ MODULE Decimal ------------------------------
(***************************************************************************)
(* tinvest::Decimal (src/include/tinvest/decimal.hpp): the fixed-point     *)
(* number of the API, value = units + nano / kNano, with units_ in an      *)
(* int64_t, nano_ in an int32_t and the arithmetic in __int128.            *)
(*                                                                         *)
(* A behaviour is a Decimal variable that a program makes in one of the    *)
(* ways the class offers and then computes with.                           *)
(***************************************************************************)
EXTENDS Integers, Sequences, FiniteSetsExt

CONSTANTS
  Base,         \* of the digits in a text: 10
  Digits,       \* fractional digits: 9
  Width,        \* bits of units_: 64
  MaxOperand,   \* bound: |units| of a right operand, |k| of an integer one
  MaxText       \* bound: length of a digit string given to from_string()

ASSUME DecimalAssumption ==
  /\ Base \in Nat \ {0, 1} /\ Digits \in Nat \ {0} /\ Width \in Nat \ {0}
  /\ MaxOperand \in Nat /\ MaxText \in Nat

Power(b, n) ==
  LET p[i \in 0 .. n] == IF i = 0 THEN 1 ELSE b * p[i - 1]
  IN  p[n]

kNano == Power(Base, Digits)
Half  == Power(2, Width - 1)

Units == -Half .. Half - 1
Nanos == -(2 * kNano + 1) .. 2 * kNano + 1
Wide  == -(2 * Half * Half) .. 2 * Half * Half - 1

VARIABLES
  acc,      \* the Decimal
  fits,     \* history: every result so far had its units in the range
  last      \* history: the last operation, and its exact result num / den

vars == <<acc, fits, last>>

-----------------------------------------------------------------------------
(* Integer arithmetic of C++: division truncates, a narrowing cast wraps.  *)
Abs(n) == IF n < 0 THEN -n ELSE n

Quot(n, d) ==
  IF (n >= 0) = (d >= 0) THEN Abs(n) \div Abs(d) ELSE -(Abs(n) \div Abs(d))

Rem(n, d) == n - d * Quot(n, d)

Wrap(n) == ((n + Half) % (2 * Half)) - Half

total(d) == d.units * kNano + d.nano

from_total(t) == [units |-> Wrap(Quot(t, kNano)), nano |-> Rem(t, kNano)]

div_round_positive(num, den) ==                   \* mutation
  Quot(num + Quot(den, 2), den)

div_round(num, den) ==
  LET half == Quot(den, 2)
  IN  IF (num >= 0) = (den >= 0) THEN Quot(num + half, den)
      ELSE Quot(num - half, den)

(* The constructor, which normalizes. *)
normalize_one_sign(d) ==                          \* mutation
  LET c == [units |-> d.units + Quot(d.nano, kNano), nano |-> Rem(d.nano, kNano)]
  IN  IF c.units > 0 /\ c.nano < 0
      THEN [units |-> c.units - 1, nano |-> c.nano + kNano] ELSE c

normalize(d) ==
  LET c == [units |-> d.units + Quot(d.nano, kNano), nano |-> Rem(d.nano, kNano)]
  IN  CASE c.units > 0 /\ c.nano < 0 ->
             [units |-> c.units - 1, nano |-> c.nano + kNano]
        [] c.units < 0 /\ c.nano > 0 ->
             [units |-> c.units + 1, nano |-> c.nano - kNano]
        [] OTHER -> c

New(units, nano) == normalize([units |-> units, nano |-> nano])

(* The carry into units_ does not overflow (undefined behaviour). *)
MayConstruct(units, nano) == units + Quot(nano, kNano) \in Units

Less(a, b) == total(a) < total(b)

-----------------------------------------------------------------------------
(* Texts.  A text is an optional sign, digits, and then nothing or a       *)
(* separator and more digits; "rest" says that something follows that is   *)
(* none of these.                                                          *)
Digit == 0 .. Base - 1

DigitString == UNION {[1 .. len -> Digit] : len \in 0 .. MaxText}

Text == {t \in [sign : {"", "-", "+"}, whole : DigitString,
                sep : {"", ".", ","}, frac : DigitString,
                rest : BOOLEAN] : t.sep = "" => t.frac = <<>>}

DigitsOf(n, len) == [i \in 1 .. len |-> (n \div Power(Base, len - i)) % Base]

(* The loop over the digits of the whole part. *)
ValueOf(digits) ==
  LET v[i \in 0 .. Len(digits)] ==
        IF i = 0 THEN 0 ELSE v[i - 1] * Base + digits[i]
  IN  v[Len(digits)]

SignOfUnits(d) == IF d.units < 0 THEN "-" ELSE "" \* mutation

Sign(d) == IF d.units < 0 \/ d.nano < 0 THEN "-" ELSE ""

to_string(d) ==
  LET u    == Abs(d.units)
      f    == DigitsOf(Abs(d.nano), Digits)
      used == {i \in 1 .. Digits : f[i] # 0}
  IN  [sign  |-> Sign(d),
       whole |-> DigitsOf(u, Min({n \in 1 .. Width : u < Power(Base, n)})),
       sep   |-> IF used = {} THEN "" ELSE ".",
       frac  |-> IF used = {} THEN <<>> ELSE SubSeq(f, 1, Max(used)),
       rest  |-> FALSE]

(* The loop over the digits of the fraction.  Those after the last that    *)
(* nano_ can hold are multiplied by scale 0.                               *)
nano_of(frac) ==
  LET scale[i \in 0 .. Len(frac)] ==
        IF i = 0 THEN kNano ELSE scale[i - 1] \div Base
      nano[i \in 0 .. Len(frac)] ==
        IF i = 0 THEN 0 ELSE nano[i - 1] + frac[i] * scale[i]
  IN  nano[Len(frac)]

Negated(t, n) == IF t.sign = "-" THEN -n ELSE n

Accepted(t) == ~t.rest /\ t.whole \o t.frac # <<>>

from_string(t) ==
  New(Negated(t, ValueOf(t.whole)), Negated(t, nano_of(t.frac)))

-----------------------------------------------------------------------------
Result(op, num, den) == last' = [op |-> op, num |-> num, den |-> den]

(* The value t, in nanos, is stored by from_total(). *)
Store(t) ==
  /\ acc' = from_total(t)
  /\ fits' = (fits /\ Quot(t, kNano) \in Units)

Init ==
  /\ acc = [units |-> 0, nano |-> 0]
  /\ fits = TRUE
  /\ last = [op |-> "default", num |-> 0, den |-> 1]

Fresh == last.op = "default"

(* Decimal(units, nano), also from a Quotation or a MoneyValue. *)
Construct(units, nano) ==
  /\ Fresh
  /\ MayConstruct(units, nano)
  /\ acc' = New(units, nano)
  /\ Result("new", units * kNano + nano, 1)
  /\ UNCHANGED fits

(* from_string(), of a text whose digits do not overflow an int64_t.       *)
FromString(t) ==
  /\ Fresh
  /\ Accepted(t)
  /\ ValueOf(t.whole) \in Units
  /\ acc' = from_string(t)
  /\ LET scale == Power(Base, Len(t.frac))
     IN  Result("parse",
                Negated(t, ValueOf(t.whole) * scale + ValueOf(t.frac)) * kNano,
                scale)
  /\ UNCHANGED fits

(* from_double(v / f), of a number whose integer part is an int64_t: it is *)
(* split there.  The doubles' own rounding is left out.                    *)
FromDouble(v, f) ==
  /\ Fresh
  /\ Quot(v, f) \in Units
  /\ LET u == Quot(v, f)
     IN  Store(u * kNano + div_round((v - u * f) * kNano, f))
  /\ Result("double", v * kNano, f)

(* to_quotation() or to_money(), and the constructor on the other side. *)
Wire ==
  /\ MayConstruct(acc.units, acc.nano)
  /\ acc' = New(acc.units, acc.nano)
  /\ Result("wire", total(acc), 1)
  /\ UNCHANGED fits

Plus(b) ==
  Store(total(acc) + total(b)) /\ Result("plus", total(acc) + total(b), 1)

Minus(b) ==
  Store(total(acc) - total(b)) /\ Result("minus", total(acc) - total(b), 1)

Negate == Store(-total(acc)) /\ Result("negate", -total(acc), 1)

(* Beyond 128 bits the product is undefined behaviour. *)
Times(b) ==
  /\ total(acc) * total(b) \in Wide
  /\ Store(div_round(total(acc) * total(b), kNano))
  /\ Result("times", total(acc) * total(b), kNano)

TimesInt(k) ==
  /\ total(acc) * k \in Wide
  /\ Store(total(acc) * k) /\ Result("times_int", total(acc) * k, 1)

DivideInt(k) ==
  k # 0 /\ Store(div_round(total(acc), k)) /\ Result("divide_int", total(acc), k)

Divide(b) ==
  /\ total(b) # 0
  /\ Store(div_round(total(acc) * kNano, total(b)))
  /\ Result("divide", total(acc) * kNano, total(b))

Integer == -MaxOperand .. MaxOperand

Operand == {New(u, n) : u \in Integer, n \in Nanos}

Next ==
  \/ \E u \in Units, n \in Nanos : Construct(u, n)
  \/ \E t \in Text : FromString(t)
  \/ \E v \in Wide : FromDouble(v, 4 * kNano)
  \/ Wire \/ Negate
  \/ \E b \in Operand : Plus(b) \/ Minus(b) \/ Times(b) \/ Divide(b)
  \/ \E k \in Integer : TimesInt(k) \/ DivideInt(k)

Spec == Init /\ [][Next]_vars
-----------------------------------------------------------------------------
(* The class invariant: "|nano| < 1e9 and sign(units)==sign(nano) (or      *)
(* either is zero)".                                                       *)
Normal(d) ==
  /\ Abs(d.nano) < kNano
  /\ d.units > 0 => d.nano >= 0
  /\ d.units < 0 => d.nano <= 0

(* Whatever is computed, parsed, or taken from the wire is normalized, as  *)
(* long as no result was too large for units_: equality, which compares    *)
(* the members, then agrees with the order, which compares the totals.     *)
Normalized ==
  fits => /\ acc.units \in Units /\ Normal(acc)
          /\ \A b \in Operand : acc = b <=> ~Less(acc, b) /\ ~Less(b, acc)

(* r is num / den rounded to the nearest integer, a half away from zero. *)
Nearest(r, num, den) ==
  LET off == 2 * Abs(num - r * den)
  IN  /\ off <= Abs(den)
      /\ off = Abs(den) => Abs(r * den) > Abs(num)

(* r is num / den without its fraction. *)
Truncated(r, num, den) ==
  Abs(num - r * den) < Abs(den) /\ Abs(r * den) <= Abs(num)

(* Every operation returns its exact result, "rounded half-away-from-zero" *)
(* to a nano whatever the signs of the operands (and "extra digits are     *)
(* truncated" in a text), as long as no result was too large.              *)
ExactlyRounded ==
  fits => IF last.op = "parse" THEN Truncated(total(acc), last.num, last.den)
          ELSE Nearest(total(acc), last.num, last.den)

(* from_string() reads back what to_string() wrote, for every Decimal      *)
(* whose |units| is an int64_t.                                            *)
TextRoundTrip ==
  fits /\ Abs(acc.units) \in Units =>
    Accepted(to_string(acc)) /\ from_string(to_string(acc)) = acc
=============================================================================
