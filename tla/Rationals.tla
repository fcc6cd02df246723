----------------------------- MODULE Rationals -----------------------------
(***************************************************************************)
(* Exact fractions in lowest terms, for the doubles of the indicators, the *)
(* strategies and the backtest: their rounding is left out.                *)
(***************************************************************************)
EXTENDS Integers

Magnitude(n) == IF n < 0 THEN -n ELSE n

(* gcd[b][a] is the greatest common divisor of a and b. *)
gcd[b \in Nat] == [a \in Nat |-> IF b = 0 THEN a ELSE gcd[a % b][b]]

Frac(n, d) ==
  LET g    == gcd[Magnitude(d)][Magnitude(n)]
      sign == IF d < 0 THEN -1 ELSE 1
  IN  [num |-> (sign * n) \div g, den |-> (sign * d) \div g]

(* The fractions in lowest terms, with a positive denominator. *)
Rat == {r \in [num : Int, den : Nat \ {0}] : r = Frac(r.num, r.den)}

Q(n) == [num |-> n, den |-> 1]

a ++ b == Frac(a.num * b.den + b.num * a.den, a.den * b.den)
a -- b == Frac(a.num * b.den - b.num * a.den, a.den * b.den)
a ** b == Frac(a.num * b.num, a.den * b.den)
a // b == Frac(a.num * b.den, a.den * b.num)

a \prec b   == a.num * b.den < b.num * a.den
a \preceq b == a.num * b.den <= b.num * a.den
=============================================================================
