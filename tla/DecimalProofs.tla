--------------------------- MODULE DecimalProofs ----------------------------
(***************************************************************************)
(* The arithmetic and the texts of Decimal, for every base, number of      *)
(* digits and width of units_, and for every operand and text.  Nonlinear  *)
(* facts are lemmas about integers that the theorems use through the       *)
(* operators of Decimal.  What a loop computes is proved by induction over *)
(* its passes: a least counterexample (LeastNumber, UpTo) takes the place  *)
(* of an induction rule, and the trace of a loop (Runs) that of its        *)
(* recursive definition.                                                   *)
(***************************************************************************)
EXTENDS Decimal, SequenceTheorems, WellFoundedInduction, TLAPS

-----------------------------------------------------------------------------
(* Induction over an interval, by a least counterexample. *)
LEMMA LeastNumber ==
  ASSUME NEW T \in SUBSET Nat, T # {}
  PROVE  \E x \in T : \A y \in T : x <= y
<1>1. PICK x \in T : \A y \in T : ~(<<y, x>> \in OpToRel(<, Nat))
  BY Zenon, NatLessThanWellFounded, WFMin
<1>2. ASSUME NEW y \in T PROVE x <= y
  <2>1. <<y, x>> \in Nat \X Nat
    OBVIOUS
  <2>2. ~(<<y, x>>[1] < <<y, x>>[2])
    BY <1>1, <2>1, Zenon DEF OpToRel
  <2> QED BY <2>2
<1> QED BY <1>2

LEMMA UpTo ==
  ASSUME NEW k \in Nat, NEW S, 0 \in S, \A i \in 1..k : i - 1 \in S => i \in S
  PROVE  \A i \in 0..k : i \in S
<1> DEFINE Bad == (0..k) \ S
<1>1. ASSUME Bad # {} PROVE FALSE
  <2>1. PICK m \in Bad : \A i \in Bad : m <= i
    BY <1>1, LeastNumber, Bad \in SUBSET Nat
  <2>2. m \in 1..k /\ m \notin S
    OBVIOUS
  <2>3. m - 1 \in S
    BY <2>1, <2>2
  <2> QED BY <2>2, <2>3
<1> QED BY <1>1

(* A loop that starts with s0 and computes F[i][s] from s in its i-th pass *)
(* has a trace.                                                            *)
Loop(F, S, n) == F \in [1..n -> [S -> S]]

Runs(g, F, s0, S, n) ==
  g \in [0..n -> S] /\ g[0] = s0 /\ \A i \in 1..n : g[i] = F[i][g[i - 1]]

LEMMA Trace ==
  ASSUME NEW n \in Nat, NEW S, NEW s0 \in S, NEW F, Loop(F, S, n)
  PROVE  \E g : Runs(g, F, s0, S, n)
<1> USE DEF Loop
<1> DEFINE Traces(k) == {g \in [0..k -> S] :
                           g[0] = s0 /\ \A i \in 1..k : g[i] = F[i][g[i - 1]]}
           Good == {k \in 0..n : Traces(k) # {}}
<1>1. 0 \in Good
  <2>1. [i \in 0..0 |-> s0] \in Traces(0)
    OBVIOUS
  <2> QED BY <2>1
<1>2. ASSUME NEW k \in 1..n, k - 1 \in Good PROVE k \in Good
  <2>1. PICK g \in [0..(k - 1) -> S] :
               g[0] = s0 /\ \A i \in 1..(k - 1) : g[i] = F[i][g[i - 1]]
    BY <1>2
  <2>2. PICK x \in S : x = F[k][g[k - 1]]
    BY <2>1
  <2> DEFINE h == [i \in 0..k |-> IF i = k THEN x ELSE g[i]]
  <2>3. h \in [0..k -> S] /\ h[0] = s0 /\ h[k] = x
        /\ \A i \in 0..(k - 1) : h[i] = g[i]
    BY <2>1
  <2> HIDE DEF h
  <2>4. ASSUME NEW i \in 1..k PROVE h[i] = F[i][h[i - 1]]
    <3>1. CASE i = k
      BY <2>2, <2>3, <3>1
    <3>2. CASE i # k
      <4>1. i \in 1..(k - 1) /\ i \in 0..(k - 1) /\ i - 1 \in 0..(k - 1)
        BY <3>2
      <4> QED BY <2>1, <2>3, <4>1
    <3> QED BY <3>1, <3>2
  <2>5. h \in Traces(k)
    BY <2>3, <2>4
  <2> HIDE DEF Traces
  <2> QED BY <2>5
<1> HIDE DEF Traces, Good
<1>3. \A k \in 0..n : k \in Good
  BY Zenon, <1>1, <1>2, UpTo
<1>4. Traces(n) # {}
  BY <1>3 DEF Good
<1> QED BY <1>4 DEF Traces, Runs

(* Two traces of the same loop agree as far as both go. *)
Alike(g, h, n) ==
  g[0] = h[0] /\ \A i \in 1..n : g[i - 1] = h[i - 1] => g[i] = h[i]

LEMMA OneTrace ==
  ASSUME NEW n \in Nat, NEW g, NEW h, Alike(g, h, n)
  PROVE  \A i \in 0..n : g[i] = h[i]
<1> DEFINE S == {i \in 0..n : g[i] = h[i]}
<1>1. 0 \in S
  BY DEF Alike
<1>2. ASSUME NEW i \in 1..n, i - 1 \in S PROVE i \in S
  BY <1>2 DEF Alike
<1> HIDE DEF S
<1>3. \A i \in 0..n : i \in S
  BY <1>1, <1>2, UpTo
<1> QED BY <1>3 DEF S

-----------------------------------------------------------------------------
(* Powers *)
LEMMA PowerTrace ==
  ASSUME NEW b \in Nat, NEW n \in Nat
  PROVE  \E p \in [0..n -> Nat] :
           /\ p[0] = 1 /\ \A i \in 1..n : p[i] = b * p[i - 1]
           /\ Power(b, n) = p[n]
<1> DEFINE Def(p) == [i \in 0..n |-> IF i = 0 THEN 1 ELSE b * p[i - 1]]
           P == CHOOSE p : p = Def(p)
<1>1. PICK g \in [0..n -> Nat] : g[0] = 1 /\ \A i \in 1..n : g[i] = b * g[i - 1]
  <2> DEFINE F == [i \in 1..n |-> [x \in Nat |-> b * x]]
  <2>1. Loop(F, Nat, n) /\ \A i \in 1..n, x \in Nat : F[i][x] = b * x
    BY DEF Loop
  <2> HIDE DEF F
  <2>2. PICK g : Runs(g, F, 1, Nat, n)
    BY <2>1, Trace
  <2>3. g \in [0..n -> Nat] /\ g[0] = 1
    BY <2>2 DEF Runs
  <2>4. ASSUME NEW i \in 1..n PROVE g[i] = b * g[i - 1]
    <3>1. g[i] = F[i][g[i - 1]]
      BY <2>2 DEF Runs
    <3>2. g[i - 1] \in Nat
      BY <2>3
    <3> QED BY <2>1, <3>1, <3>2, Zenon
  <2> QED BY SMTT(20), <2>3, <2>4
<1>2. g = Def(g)
  BY <1>1
<1>3. P = Def(P)
  BY Zenon, <1>2
<1>4. Power(b, n) = P[n]
  BY DEF Power
<1> HIDE DEF P
<1>5. P[0] = 1 /\ \A i \in 1..n : P[i] = b * P[i - 1]
  BY <1>3
<1>6. \A i \in 0..n : P[i] = g[i]
  <2>1. Alike(P, g, n)
    BY <1>1, <1>5 DEF Alike
  <2> QED BY <2>1, OneTrace
<1> QED BY SMTT(20), <1>1, <1>4, <1>6

LEMMA PowerSteps ==
  ASSUME NEW b \in Nat, NEW n \in Nat
  PROVE  Power(b, 0) = 1 /\ Power(b, n) \in Nat /\ Power(b, n + 1) = b * Power(b, n)
<1>1. Power(b, 0) = 1
  BY Zenon, PowerTrace
<1>2. PICK p \in [0..n -> Nat] :
        /\ p[0] = 1 /\ \A i \in 1..n : p[i] = b * p[i - 1]
        /\ Power(b, n) = p[n]
  BY Zenon, PowerTrace
<1>3. PICK q \in [0..(n + 1) -> Nat] :
        /\ q[0] = 1 /\ \A i \in 1..(n + 1) : q[i] = b * q[i - 1]
        /\ Power(b, n + 1) = q[n + 1]
  BY n + 1 \in Nat, PowerTrace, Zenon
<1>4. \A i \in 0..n : p[i] = q[i]
  <2>1. Alike(p, q, n)
    BY <1>2, <1>3 DEF Alike
  <2> QED BY <2>1, OneTrace
<1>5. p[n] = q[n] /\ q[n + 1] = b * q[n]
  BY <1>3, <1>4
<1> QED BY <1>1, <1>2, <1>3, <1>5

LEMMA PowerPositive ==
  ASSUME NEW b \in Nat \ {0}
  PROVE  \A n \in Nat : Power(b, n) \in Nat \ {0}
<1> SUFFICES ASSUME NEW n \in Nat PROVE Power(b, n) # 0
  BY PowerSteps
<1> DEFINE S == {i \in 0..n : Power(b, i) # 0}
<1>1. 0 \in S
  BY PowerSteps
<1>2. ASSUME NEW i \in 1..n, i - 1 \in S PROVE i \in S
  <2>1. i - 1 \in Nat /\ Power(b, i - 1) \in Nat \ {0} /\ (i - 1) + 1 = i
    BY <1>2, PowerSteps
  <2>2. Power(b, i) = b * Power(b, i - 1)
    BY <2>1, PowerSteps
  <2> QED BY <2>1, <2>2
<1> HIDE DEF S
<1>3. n \in S
  BY <1>1, <1>2, UpTo
<1> QED BY <1>3 DEF S

LEMMA PowersPositive == kNano \in Nat \ {0} /\ Half \in Nat \ {0}
BY PowerPositive, DecimalAssumption DEF kNano, Half

-----------------------------------------------------------------------------
(* Division *)

LEMMA DivNat ==
  ASSUME NEW n \in Nat, NEW d \in Nat \ {0}
  PROVE  /\ n \div d \in Nat
         /\ d * (n \div d) <= n
         /\ n < d * (n \div d) + d
BY SMT

LEMMA AbsNat ==
  ASSUME NEW n \in Int
  PROVE  Abs(n) \in Nat /\ (n >= 0 => n = Abs(n)) /\ (n < 0 => n = -Abs(n))
BY SMT DEF Abs

LEMMA SignsMoveOut ==
  ASSUME NEW q \in Int, NEW d \in Int
  PROVE  /\ (-q) * d = -(q * d) /\ q * (-d) = -(q * d) /\ (-q) * (-d) = q * d
         /\ q * d = d * q
BY SMT

(* The division of C++ cuts the fraction off, whatever the signs are. *)
LEMMA QuotTruncates ==
  ASSUME NEW n \in Int, NEW d \in Int \ {0}
  PROVE  Quot(n, d) \in Int /\ Truncated(Quot(n, d), n, d)
<1> DEFINE N == Abs(n)
           D == Abs(d)
           q == N \div D
<1>1. N \in Nat /\ D \in Nat \ {0}
  BY SMT, AbsNat
<1>2. q \in Nat /\ D * q <= N /\ N < D * q + D
  BY <1>1, DivNat
<1>3. Quot(n, d) = IF (n >= 0) = (d >= 0) THEN q ELSE -q
  BY DEF Quot
<1>4. /\ n >= 0 => n = N
      /\ n < 0 => n = -N
      /\ d >= 0 => d = D
      /\ d < 0 => d = -D
  BY AbsNat
<1> HIDE DEF N, D, q
<1>5. PICK X \in Int : X = D * q
  BY SMT, <1>1, <1>2
<1>6. /\ n >= 0 => Quot(n, d) * d = X
      /\ n < 0 => Quot(n, d) * d = -X
  BY SMT, <1>1, <1>2, <1>3, <1>4, <1>5, SignsMoveOut
<1> QED
  BY SMT, <1>1, <1>2, <1>3, <1>4, <1>5, <1>6 DEF Truncated, Abs

(* div_round() rounds to the nearest integer, a half away from zero, for   *)
(* every numerator and denominator and all four combinations of signs.     *)
THEOREM DivRoundNearest ==
  ASSUME NEW num \in Int, NEW den \in Int \ {0}
  PROVE  div_round(num, den) \in Int /\ Nearest(div_round(num, den), num, den)
<1> DEFINE N == Abs(num)
           D == Abs(den)
           h == D \div 2
           q == (N + h) \div D
<1>1. /\ N \in Nat /\ D \in Nat \ {0}
      /\ num >= 0 => num = N
      /\ num < 0 => num = -N
      /\ den >= 0 => den = D
      /\ den < 0 => den = -D
  BY SMT, AbsNat
<1>2. h \in Nat /\ (2 * h = D \/ 2 * h = D - 1)
  BY SMT, <1>1
<1>3. q \in Nat /\ D * q <= N + h /\ N + h < D * q + D
  <2>1. N + h \in Nat
    BY SMT, <1>1, <1>2
  <2> QED BY Zenon, <1>1, <2>1, DivNat
<1>4. Quot(den, 2) = IF den >= 0 THEN h ELSE -h
  BY SMT DEF Quot, Abs
<1>5. div_round(num, den) = IF (num >= 0) = (den >= 0) THEN q ELSE -q
  <2>1. CASE (num >= 0) = (den >= 0)
    <3>1. div_round(num, den) = Quot(num + Quot(den, 2), den)
      BY <2>1 DEF div_round
    <3>2. /\ (num + Quot(den, 2) >= 0) = (den >= 0)
          /\ Abs(num + Quot(den, 2)) = N + h
      BY SMT, <1>1, <1>2, <1>4, <2>1 DEF Abs
    <3> QED BY <2>1, <3>1, <3>2 DEF Quot
  <2>2. CASE (num >= 0) # (den >= 0)
    <3>1. div_round(num, den) = Quot(num - Quot(den, 2), den)
      BY <2>2 DEF div_round
    <3>2. /\ (num - Quot(den, 2) >= 0) # (den >= 0)
          /\ Abs(num - Quot(den, 2)) = N + h
      BY SMT, <1>1, <1>2, <1>4, <2>2 DEF Abs
    <3> QED BY <2>2, <3>1, <3>2 DEF Quot
  <2> QED BY <2>1, <2>2
<1> HIDE DEF N, D, h, q
<1>6. PICK X \in Int : X = D * q
  BY SMT, <1>1, <1>3
<1>7. div_round(num, den) * den = IF num >= 0 THEN X ELSE -X
  BY SMT, <1>1, <1>3, <1>5, <1>6, SignsMoveOut
<1> QED
  BY SMT, <1>1, <1>2, <1>3, <1>5, <1>6, <1>7 DEF Nearest, Abs

-----------------------------------------------------------------------------
(* A value that fits is stored unchanged and normalized. *)
LEMMA FromTotalExact ==
  ASSUME NEW t \in Int, Quot(t, kNano) \in Units
  PROVE  /\ from_total(t) \in [units : Units, nano : Int]
         /\ total(from_total(t)) = t /\ Normal(from_total(t))
<1> DEFINE q == Quot(t, kNano)
<1>1. q \in Int /\ Truncated(q, t, kNano)
  BY PowersPositive, QuotTruncates
<1>2. q \in Units
  OBVIOUS
<1>3. Rem(t, kNano) = t - kNano * q
  BY DEF Rem
<1>4. Wrap(q) = q
  BY SMT, <1>1, <1>2, PowersPositive DEF Wrap, Units
<1> HIDE DEF q
<1>5. from_total(t) = [units |-> q, nano |-> t - kNano * q]
  BY <1>3, <1>4 DEF from_total, q
<1>6. PICK X \in Int : X = kNano * q /\ X = q * kNano
  BY SMT, <1>1, PowersPositive
<1>7. /\ q > 0 => X >= kNano
      /\ q < 0 => X <= -kNano
  BY SMT, <1>1, <1>6, PowersPositive
<1>8. total(from_total(t)) = t
  BY SMT, <1>5, <1>6 DEF total
<1>9. Normal(from_total(t))
  BY SMT, <1>1, <1>5, <1>6, <1>7, PowersPositive DEF Normal, Truncated, Abs
<1> QED BY SMT, <1>2, <1>5, <1>6, <1>8, <1>9

(* normalize() keeps the value and brings the signs together, whatever     *)
(* units and nano come in.                                                 *)
THEOREM NormalizeExact ==
  ASSUME NEW units \in Int, NEW nano \in Int
  PROVE  /\ New(units, nano) \in [units : Int, nano : Int]
         /\ total(New(units, nano)) = units * kNano + nano
         /\ Normal(New(units, nano))
<1> DEFINE q == Quot(nano, kNano)
           c == [units |-> units + q, nano |-> Rem(nano, kNano)]
<1>1. q \in Int /\ Truncated(q, nano, kNano)
  BY PowersPositive, QuotTruncates
<1>2. Rem(nano, kNano) = nano - kNano * q
  BY DEF Rem
<1> HIDE DEF q
<1>3. PICK X \in Int : X = kNano * q /\ X = q * kNano
  BY SMT, <1>1, PowersPositive
<1>4. PICK Y \in Int : Y = units * kNano
  BY SMT, PowersPositive
<1>5. /\ (units + q) * kNano = Y + X
      /\ (units + q - 1) * kNano = Y + X - kNano
      /\ (units + q + 1) * kNano = Y + X + kNano
  BY SMT, <1>1, <1>3, <1>4, PowersPositive
<1>6. c \in [units : Int, nano : Int] /\ c.units = units + q /\ c.nano = nano - X
      /\ Abs(c.nano) < kNano
  BY SMT, <1>1, <1>2, <1>3, PowersPositive DEF Truncated, Abs
<1>7. New(units, nano) =
        CASE c.units > 0 /\ c.nano < 0 ->
               [units |-> c.units - 1, nano |-> c.nano + kNano]
          [] c.units < 0 /\ c.nano > 0 ->
               [units |-> c.units + 1, nano |-> c.nano - kNano]
          [] OTHER -> c
  BY DEF New, normalize, q
<1> HIDE DEF c
<1>8. CASE c.units > 0 /\ c.nano < 0
  BY SMT, <1>1, <1>3, <1>4, <1>5, <1>6, <1>7, <1>8, PowersPositive
  DEF total, Normal, Abs
<1>9. CASE c.units < 0 /\ c.nano > 0
  BY SMT, <1>1, <1>3, <1>4, <1>5, <1>6, <1>7, <1>9, PowersPositive
  DEF total, Normal, Abs
<1>10. CASE ~(c.units > 0 /\ c.nano < 0) /\ ~(c.units < 0 /\ c.nano > 0)
  BY SMT, <1>1, <1>3, <1>4, <1>5, <1>6, <1>7, <1>10, PowersPositive
  DEF total, Normal, Abs
<1> QED BY <1>8, <1>9, <1>10

-----------------------------------------------------------------------------
Values == [units : Int, nano : Int]

LEMMA TotalInt ==
  ASSUME NEW d \in Values
  PROVE  total(d) \in Int
BY SMT, PowersPositive DEF Values, total

(* Two normalized values with the same total have the same members. *)
LEMMA NormalUnique ==
  ASSUME NEW a \in Values, NEW b \in Values, Normal(a), Normal(b),
         total(a) = total(b)
  PROVE  a = b
<1>1. PICK u \in Int : u = a.units - b.units
  BY SMT DEF Values
<1>2. PICK X \in Int : X = u * kNano
  BY SMT, <1>1, PowersPositive
<1>3. X = b.nano - a.nano
  BY SMT, <1>1, <1>2, PowersPositive DEF Values, total
<1>4. /\ u >= 2 => X >= 2 * kNano
      /\ u <= -2 => X <= -(2 * kNano)
      /\ u = 1 => X = kNano
      /\ u = -1 => X = -kNano
      /\ u = 0 => X = 0
  BY SMT, <1>1, <1>2, PowersPositive
<1>5. PICK m \in Int, n \in Int : m = a.nano /\ n = b.nano
  BY SMT DEF Values
<1>6. m < kNano /\ -m < kNano /\ n < kNano /\ -n < kNano
  BY SMT, <1>5, PowersPositive DEF Normal, Abs
<1>7. X = n - m
  BY <1>3, <1>5
<1>8. ~(u >= 2) /\ ~(u <= -2)
  BY SMT, <1>4, <1>6, <1>7, PowersPositive
<1>9. u # 1 /\ u # -1
  BY SMT, <1>1, <1>4, <1>5, <1>6, <1>7, PowersPositive DEF Normal, Values
<1>10. u = 0
  BY SMT, <1>8, <1>9
<1> QED BY SMT, <1>1, <1>4, <1>5, <1>7, <1>10 DEF Values

(* Equality compares members and the order compares totals; they agree on  *)
(* every value that fits and is normalized.                                *)
LEMMA NormalAgreesWith ==
  ASSUME NEW a \in Values, Normal(a), NEW b \in Operand
  PROVE  a = b <=> ~Less(a, b) /\ ~Less(b, a)
<1>1. PICK u \in Integer, n \in Nanos : b = New(u, n)
  BY DEF Operand
<1>2. u \in Int /\ n \in Int
  BY SMT, <1>1, DecimalAssumption, PowersPositive DEF Integer, Nanos
<1>3. b \in Values /\ Normal(b)
  BY <1>1, <1>2, NormalizeExact DEF Values
<1>4. total(a) \in Int /\ total(b) \in Int
  BY <1>3, TotalInt
<1>5. ~Less(a, b) /\ ~Less(b, a) <=> total(a) = total(b)
  BY SMT, <1>4 DEF Less
<1> QED BY <1>3, <1>5, NormalUnique

(* What from_total() stores is the exact or rounded result it was given. *)
LEMMA StoreRounded ==
  ASSUME NEW t \in Int, NEW op, NEW num, NEW den, Store(t), Result(op, num, den),
         op # "parse", Nearest(t, num, den), fits \in BOOLEAN
  PROVE  ExactlyRounded' /\ Normalized'
<1> SUFFICES ASSUME fits' PROVE ExactlyRounded' /\ Normalized'
  BY DEF ExactlyRounded, Normalized
<1>1. Quot(t, kNano) \in Units /\ acc' = from_total(t)
  BY Zenon DEF Store
<1>2. /\ acc' \in [units : Units, nano : Int]
      /\ total(acc') = t /\ Normal(acc')
  BY <1>1, FromTotalExact
<1>3. acc' \in Values /\ acc'.units \in Units
  BY SMT, <1>2, PowersPositive DEF Values, Units
<1>4. Normalized'
  <2>1. ASSUME NEW b \in Operand
        PROVE  acc' = b <=> ~Less(acc', b) /\ ~Less(b, acc')
    BY <1>2, <1>3, NormalAgreesWith
  <2> QED BY <1>2, <1>3, <2>1 DEF Normalized
<1> QED BY <1>2, <1>4 DEF ExactlyRounded, Result

(* An integer multiple keeps its distance from zero. *)
LEMMA Multiple ==
  ASSUME NEW n \in Int, NEW f \in Nat \ {0}
  PROVE  n * f \in Int /\ (n = 0 => n * f = 0)
         /\ (n > 0 => n * f >= f) /\ (n < 0 => n * f <= -f)
BY SMT

(* from_double(): rounding what the truncated part left is rounding all. *)
LEMMA NearestShifted ==
  ASSUME NEW v \in Int, NEW f \in Nat \ {0}, NEW u \in Int, NEW n \in Int,
         Truncated(u, v, f), Nearest(n, (v - u * f) * kNano, f)
  PROVE  Nearest(u * kNano + n, v * kNano, f)
<1>1. PICK U \in Int : U = u * f
  BY SMT
<1>2. PICK W \in Int, R \in Int, Z \in Int :
        W = U * kNano /\ R = (v - U) * kNano /\ Z = n * f
  BY SMT, <1>1, PowersPositive
<1>3. v * kNano = W + R
  BY SMT, <1>1, <1>2, PowersPositive
<1>4. (u * kNano + n) * f = W + Z
  BY SMT, <1>1, <1>2, PowersPositive
<1>5. U = 0 \/ U >= f \/ U <= -f
  BY SMT, <1>1, Multiple
<1>6. \/ U >= 0 /\ v - U >= 0
      \/ U <= 0 /\ v - U <= 0
  BY SMT, <1>1, <1>5 DEF Truncated, Abs
<1>7. \/ W >= 0 /\ R >= 0
      \/ W <= 0 /\ R <= 0
  <2>1. CASE U >= 0 /\ v - U >= 0
    BY SMT, <1>1, <1>2, <2>1, PowersPositive
  <2>2. CASE U <= 0 /\ v - U <= 0
    BY SMT, <1>1, <1>2, <2>2, PowersPositive
  <2> QED BY <1>6, <2>1, <2>2
<1>8. Z = 0 \/ Z >= f \/ Z <= -f
  BY SMT, <1>2, Multiple
<1>9. /\ 2 * Abs(R - Z) <= f
      /\ 2 * Abs(R - Z) = f => Abs(Z) > Abs(R)
  BY SMT, <1>1, <1>2 DEF Nearest, Abs
<1>10. /\ 2 * Abs((W + R) - (W + Z)) <= f
       /\ 2 * Abs((W + R) - (W + Z)) = f => Abs(W + Z) > Abs(W + R)
  BY SMT, <1>7, <1>8, <1>9 DEF Abs
<1>11. Abs(f) = f
  BY SMT DEF Abs
<1> QED BY <1>3, <1>4, <1>10, <1>11 DEF Nearest

(* The constructor does not leave the range that the carry stayed in. *)
LEMMA ConstructFits ==
  ASSUME NEW units \in Int, NEW nano \in Int, MayConstruct(units, nano)
  PROVE  New(units, nano).units \in Units
<1>1. PICK c \in Int : c = units + Quot(nano, kNano)
  BY SMT, PowersPositive, QuotTruncates
<1>2. c \in Units
  BY <1>1 DEF MayConstruct
<1>3. \/ New(units, nano).units = c
      \/ New(units, nano).units = c - 1 /\ c > 0
      \/ New(units, nano).units = c + 1 /\ c < 0
  BY SMT, <1>1 DEF New, normalize
<1> QED BY SMT, <1>2, <1>3, PowersPositive DEF Units

(* The same for what a constructor or the wire brings in. *)
LEMMA NewRounded ==
  ASSUME NEW units \in Int, NEW nano \in Int, MayConstruct(units, nano),
         acc' = New(units, nano), NEW op, op # "parse",
         Result(op, units * kNano + nano, 1)
  PROVE  ExactlyRounded' /\ Normalized'
<1>1. /\ acc' \in Values /\ acc'.units \in Units /\ Normal(acc')
      /\ total(acc') = units * kNano + nano
  BY NormalizeExact, ConstructFits DEF Values
<1>2. Normalized'
  <2>1. ASSUME NEW b \in Operand
        PROVE  acc' = b <=> ~Less(acc', b) /\ ~Less(b, acc')
    BY <1>1, NormalAgreesWith
  <2> QED BY <1>1, <2>1 DEF Normalized
<1>3. Nearest(total(acc'), units * kNano + nano, 1)
  BY SMT, <1>1, PowersPositive DEF Nearest, Abs
<1> QED BY <1>2, <1>3 DEF ExactlyRounded, Result

(* Every constructor and operation rounds its exact result correctly and   *)
(* leaves a normalized value, if the result fits: for all operands of all  *)
(* signs, all widths of units_ and every kNano.  from_string(), which      *)
(* truncates, is the subject of ParseRounded.                              *)
THEOREM OperationsRound ==
  ASSUME acc \in Values, fits \in BOOLEAN,
         NEW b \in Values, NEW k \in Int, NEW v \in Int,
         NEW units \in Int, NEW nano \in Int,
         \/ Construct(units, nano) \/ FromDouble(v, 4 * kNano) \/ Wire
         \/ Plus(b) \/ Minus(b) \/ Negate \/ Times(b) \/ TimesInt(k)
         \/ DivideInt(k) \/ Divide(b)
  PROVE  ExactlyRounded' /\ Normalized'
<1>1. total(acc) \in Int /\ total(b) \in Int
  BY TotalInt
<1>2. ASSUME NEW t \in Int PROVE Nearest(t, t, 1)
  BY SMT, <1>2 DEF Nearest, Abs
<1>3. CASE Plus(b) \/ Minus(b) \/ Negate \/ TimesInt(k)
  <2>1. /\ total(acc) + total(b) \in Int /\ total(acc) - total(b) \in Int
        /\ -total(acc) \in Int /\ total(acc) * k \in Int
    BY SMT, <1>1
  <2> QED BY <1>2, <1>3, <2>1, StoreRounded DEF Plus, Minus, Negate, TimesInt
<1>4. CASE Times(b)
  <2>1. total(acc) * total(b) \in Int /\ kNano \in Int \ {0}
    BY SMT, <1>1, PowersPositive
  <2> QED BY <1>4, <2>1, DivRoundNearest, StoreRounded DEF Times
<1>5. CASE DivideInt(k)
  <2>1. k \in Int \ {0}
    BY <1>5 DEF DivideInt
  <2> QED BY <1>1, <1>5, <2>1, DivRoundNearest, StoreRounded DEF DivideInt
<1>6. CASE Divide(b)
  <2>1. total(acc) * kNano \in Int /\ total(b) \in Int \ {0}
    BY SMT, <1>1, <1>6, PowersPositive DEF Divide
  <2> QED BY <1>6, <2>1, DivRoundNearest, StoreRounded DEF Divide
<1>7. CASE FromDouble(v, 4 * kNano)
  <2> DEFINE f == 4 * kNano
             u == Quot(v, f)
             n == div_round((v - u * f) * kNano, f)
  <2>1. f \in Nat \ {0} /\ f \in Int \ {0}
    BY SMT, PowersPositive
  <2>2. FromDouble(v, f)
    BY <1>7
  <2> HIDE DEF f
  <2>3. u \in Int
    BY <2>1, QuotTruncates
  <2>4. Store(u * kNano + n) /\ Result("double", v * kNano, f)
    BY <2>2 DEF FromDouble
  <2> HIDE DEF u
  <2>5. (v - u * f) * kNano \in Int
    BY SMT, <2>1, <2>3, PowersPositive
  <2>6. n \in Int /\ Nearest(n, (v - u * f) * kNano, f)
    BY <2>1, <2>5, DivRoundNearest
  <2> HIDE DEF n
  <2>7. Nearest(u * kNano + n, v * kNano, f)
    BY <2>1, <2>3, <2>6, QuotTruncates, NearestShifted DEF u
  <2>8. u * kNano + n \in Int
    BY SMT, <2>3, <2>6, PowersPositive
  <2> QED BY <2>4, <2>7, <2>8, StoreRounded
<1>8. CASE Construct(units, nano)
  BY <1>8, NewRounded DEF Construct
<1>9. CASE Wire
  <2>1. acc.units \in Int /\ acc.nano \in Int
    BY DEF Values
  <2> QED BY <1>9, <2>1, NewRounded DEF Wire, total
<1> QED BY <1>3, <1>4, <1>5, <1>6, <1>7, <1>8, <1>9

-----------------------------------------------------------------------------
(* The loops of from_string() *)
LEMMA DigitFacts ==
  /\ Base \in Nat \ {0} /\ Base >= 2
  /\ \A d \in Seq(Digit) : /\ Len(d) \in Nat
                           /\ \A i \in 1..Len(d) : d[i] \in Nat /\ d[i] < Base
<1>1. Base \in Nat \ {0} /\ Base >= 2
  BY DecimalAssumption
<1>2. ASSUME NEW d \in Seq(Digit), NEW i \in 1..Len(d) PROVE d[i] \in Nat /\ d[i] < Base
  <2>1. d[i] \in Digit
    BY <1>2
  <2> QED BY <1>1, <2>1 DEF Digit
<1> QED BY <1>1, <1>2

LEMMA ValueTrace ==
  ASSUME NEW d \in Seq(Digit)
  PROVE  \E v \in [0..Len(d) -> Nat] :
           /\ v[0] = 0 /\ \A i \in 1..Len(d) : v[i] = v[i - 1] * Base + d[i]
           /\ ValueOf(d) = v[Len(d)]
<1>1. PICK n \in Nat : n = Len(d)
  BY DigitFacts
<1> DEFINE Def(v) == [i \in 0..n |-> IF i = 0 THEN 0 ELSE v[i - 1] * Base + d[i]]
           V == CHOOSE v : v = Def(v)
<1>2. PICK g \in [0..n -> Nat] : g[0] = 0 /\ \A i \in 1..n : g[i] = g[i - 1] * Base + d[i]
  <2> DEFINE F == [i \in 1..n |-> [x \in Nat |-> x * Base + d[i]]]
  <2>1. Loop(F, Nat, n)
    <3>1. ASSUME NEW i \in 1..n, NEW x \in Nat PROVE x * Base + d[i] \in Nat
      BY <1>1, DigitFacts
    <3> QED BY <3>1 DEF Loop
  <2>2. \A i \in 1..n, x \in Nat : F[i][x] = x * Base + d[i]
    OBVIOUS
  <2> HIDE DEF F
  <2>3. PICK g : Runs(g, F, 0, Nat, n)
    BY Zenon, <2>1, Trace
  <2>4. g \in [0..n -> Nat] /\ g[0] = 0
    BY <2>3 DEF Runs
  <2>5. ASSUME NEW i \in 1..n PROVE g[i] = g[i - 1] * Base + d[i]
    <3>1. g[i] = F[i][g[i - 1]]
      BY <2>3 DEF Runs
    <3>2. g[i - 1] \in Nat
      BY <2>4
    <3> QED BY <2>2, <3>1, <3>2, Zenon
  <2> QED BY Zenon, <2>4, <2>5
<1>3. g = Def(g)
  BY <1>2
<1>4. V = Def(V)
  BY Zenon, <1>3
<1>5. ValueOf(d) = V[n]
  BY <1>1 DEF ValueOf
<1> HIDE DEF V
<1>6. V[0] = 0 /\ \A i \in 1..n : V[i] = V[i - 1] * Base + d[i]
  BY <1>4
<1>7. \A i \in 0..n : V[i] = g[i]
  <2>1. Alike(V, g, n)
    BY <1>2, <1>6 DEF Alike
  <2> QED BY <2>1, OneTrace
<1> QED BY <1>1, <1>2, <1>5, <1>7

LEMMA NanoTrace ==
  ASSUME NEW d \in Seq(Digit)
  PROVE  \E s, m \in [0..Len(d) -> Nat] :
           /\ s[0] = kNano /\ \A i \in 1..Len(d) : s[i] = s[i - 1] \div Base
           /\ m[0] = 0 /\ \A i \in 1..Len(d) : m[i] = m[i - 1] + d[i] * s[i]
           /\ nano_of(d) = m[Len(d)]
<1>1. PICK n \in Nat : n = Len(d)
  BY DigitFacts
<1> DEFINE Def(s) == [i \in 0..n |-> IF i = 0 THEN kNano ELSE s[i - 1] \div Base]
           S == CHOOSE s : s = Def(s)
           Den(m) == [i \in 0..n |-> IF i = 0 THEN 0 ELSE m[i - 1] + d[i] * S[i]]
           M == CHOOSE m : m = Den(m)
<1>2. nano_of(d) = M[n]
  BY <1>1 DEF nano_of
<1>3. PICK s \in [0..n -> Nat] : s[0] = kNano /\ \A i \in 1..n : s[i] = s[i - 1] \div Base
  <2> DEFINE F == [i \in 1..n |-> [x \in Nat |-> x \div Base]]
  <2>1. Loop(F, Nat, n)
    <3>1. ASSUME NEW i \in 1..n, NEW x \in Nat PROVE x \div Base \in Nat
      BY DigitFacts, DivNat
    <3> QED BY <3>1 DEF Loop
  <2>2. \A i \in 1..n, x \in Nat : F[i][x] = x \div Base
    OBVIOUS
  <2> HIDE DEF F
  <2>3. PICK g : Runs(g, F, kNano, Nat, n)
    BY Zenon, <2>1, PowersPositive, Trace
  <2>4. g \in [0..n -> Nat] /\ g[0] = kNano
    BY <2>3 DEF Runs
  <2>5. ASSUME NEW i \in 1..n PROVE g[i] = g[i - 1] \div Base
    <3>1. g[i] = F[i][g[i - 1]]
      BY <2>3 DEF Runs
    <3>2. g[i - 1] \in Nat
      BY <2>4
    <3> QED BY <2>2, <3>1, <3>2, Zenon
  <2> QED BY Zenon, <2>4, <2>5
<1>4. S = Def(S)
  <2>1. s = Def(s)
    BY <1>3
  <2> QED BY Zenon, <2>1
<1> HIDE DEF S
<1>5. \A i \in 0..n : S[i] = s[i]
  <2>1. S[0] = kNano /\ \A i \in 1..n : S[i] = S[i - 1] \div Base
    BY <1>4
  <2>2. Alike(S, s, n)
    BY <1>3, <2>1 DEF Alike
  <2> QED BY <2>2, OneTrace
<1>6. PICK m \in [0..n -> Nat] : m[0] = 0 /\ \A i \in 1..n : m[i] = m[i - 1] + d[i] * s[i]
  <2> DEFINE F == [i \in 1..n |-> [x \in Nat |-> x + d[i] * s[i]]]
  <2>1. Loop(F, Nat, n)
    <3>1. ASSUME NEW i \in 1..n, NEW x \in Nat PROVE x + d[i] * s[i] \in Nat
      <4>1. d[i] \in Nat /\ s[i] \in Nat
        BY <1>1, <1>3, DigitFacts
      <4> QED BY <4>1
    <3> QED BY <3>1 DEF Loop
  <2>2. \A i \in 1..n, x \in Nat : F[i][x] = x + d[i] * s[i]
    OBVIOUS
  <2> HIDE DEF F
  <2>3. PICK g : Runs(g, F, 0, Nat, n)
    BY <2>1, Trace
  <2>4. g \in [0..n -> Nat] /\ g[0] = 0
    BY <2>3 DEF Runs
  <2>5. ASSUME NEW i \in 1..n PROVE g[i] = g[i - 1] + d[i] * s[i]
    <3>1. g[i] = F[i][g[i - 1]]
      BY <2>3 DEF Runs
    <3>2. g[i - 1] \in Nat
      BY <2>4
    <3> QED BY <2>2, <3>1, <3>2, Zenon
  <2> QED BY Zenon, <2>4, <2>5
<1>7. M = Den(M)
  <2>1. m = Den(m)
    BY <1>5, <1>6
  <2> QED BY Zenon, <2>1
<1> HIDE DEF M
<1>8. \A i \in 0..n : M[i] = m[i]
  <2>1. M[0] = 0 /\ \A i \in 1..n : M[i] = M[i - 1] + d[i] * S[i]
    BY SMTT(20), <1>7
  <2>2. ASSUME NEW i \in 1..n PROVE M[i] = M[i - 1] + d[i] * s[i]
    <3>1. S[i] = s[i]
      BY <1>5
    <3> QED BY <2>1, <3>1, Zenon
  <2>3. Alike(M, m, n)
    BY <1>6, <2>1, <2>2 DEF Alike
  <2> QED BY <2>3, OneTrace
<1>9. nano_of(d) = m[n]
  BY <1>2, <1>8
<1> QED BY Zenon, <1>1, <1>3, <1>6, <1>9

(* One digit more: the value stays below the power; while the scale is not *)
(* yet 0 nothing is lost, afterwards less than one nano.                   *)
LEMMA ValueBelow ==
  ASSUME NEW B \in Nat, NEW v \in Nat, NEW p \in Nat, NEW d \in Nat, v < p, d < B
  PROVE  v * B + d < B * p
<1>1. B * (v + 1) <= B * p /\ B * (v + 1) = v * B + B
  OBVIOUS
<1>2. PICK x \in Nat, y \in Nat : x = v * B /\ y = B * p
  OBVIOUS
<1> QED BY <1>1, <1>2

Exactly(s, B, p, K, m, v) ==
  /\ {s, B, p, K, m, v} \subseteq Nat
  /\ s * (B * p) = K /\ m * p = v * K

StillExactly(s, B, p, K, m, v, d) == (m + d * s) * (B * p) = (v * B + d) * K

LEMMA ExactDigit ==
  ASSUME NEW s, NEW B, NEW p, NEW K, NEW m, NEW v, Exactly(s, B, p, K, m, v),
         NEW d \in Nat
  PROVE  StillExactly(s, B, p, K, m, v, d)
<1>a. /\ s \in Nat /\ B \in Nat /\ p \in Nat /\ K \in Nat /\ m \in Nat /\ v \in Nat
      /\ s * (B * p) = K /\ m * p = v * K
  BY DEF Exactly
<1> USE <1>a
<1>1. PICK q \in Nat : q = B * p
  OBVIOUS
<1>2. (m + d * s) * q = m * q + d * (s * q)
  <2>1. PICK x \in Nat : x = d * s
    OBVIOUS
  <2>2. (m + x) * q = m * q + x * q /\ x * q = d * (s * q)
    BY <2>1
  <2> QED BY <2>1, <2>2
<1>3. m * q = B * (m * p)
  BY <1>1
<1>4. (v * B + d) * K = B * (v * K) + d * K
  <2>1. PICK x \in Nat : x = v * B
    OBVIOUS
  <2>2. (x + d) * K = x * K + d * K /\ x * K = B * (v * K)
    BY <2>1
  <2> QED BY <2>1, <2>2
<1> QED BY <1>1, <1>2, <1>3, <1>4 DEF StillExactly

LEMMA LostDigit ==
  ASSUME NEW B \in Nat, NEW m \in Nat, NEW v \in Nat, NEW K \in Nat, NEW p \in Nat,
         NEW d \in Nat, d < B, m * p <= v * K, v * K + K <= (m + 1) * p
  PROVE  /\ m * (B * p) <= (v * B + d) * K
         /\ (v * B + d) * K + K <= (m + 1) * (B * p)
<1>1. PICK x \in Nat, y \in Nat : x = v * K /\ y = m * p
  OBVIOUS
<1>2. y <= x /\ x + K <= y + p
  BY <1>1
<1>3. B * y <= B * x /\ B * (x + K) <= B * (y + p)
  BY <1>1, <1>2
<1>4. B * (x + K) = B * x + B * K /\ B * (y + p) = B * y + B * p
  OBVIOUS
<1>5. m * (B * p) = B * y /\ (m + 1) * (B * p) = B * y + B * p
  <2>1. m * (B * p) = B * y
    BY <1>1
  <2>2. PICK q \in Nat : q = B * p
    OBVIOUS
  <2>3. (m + 1) * q = m * q + q
    OBVIOUS
  <2> QED BY <2>1, <2>2, <2>3
<1>6. (v * B + d) * K = B * x + d * K
  <2>1. PICK z \in Nat : z = v * B
    OBVIOUS
  <2>2. (z + d) * K = z * K + d * K /\ z * K = B * x
    BY <1>1, <2>1
  <2> QED BY <2>1, <2>2
<1>7. d * K + K <= B * K
  <2>1. (d + 1) * K <= B * K /\ (d + 1) * K = d * K + K
    OBVIOUS
  <2> QED BY <2>1
<1>8. PICK X \in Nat, Y \in Nat, DK \in Nat, BK \in Nat, BP \in Nat :
        X = B * x /\ Y = B * y /\ DK = d * K /\ BK = B * K /\ BP = B * p
  OBVIOUS
<1>9. Y <= X + DK /\ X + DK + K <= Y + BP
  BY <1>3, <1>4, <1>7, <1>8
<1> QED BY <1>5, <1>6, <1>8, <1>9

LEMMA DivExact ==
  ASSUME NEW b \in Nat \ {0}, NEW x \in Nat
  PROVE  (b * x) \div b = x
<1>1. PICK y \in Nat : y = b * x
  OBVIOUS
<1>2. PICK q \in Nat : q = y \div b /\ b * q <= y /\ y < b * q + b
  BY DivNat
<1>3. ~(q < x)
  <2>1. ASSUME q < x PROVE b * q + b <= b * x
    <3>1. b * (q + 1) <= b * x /\ b * (q + 1) = b * q + b
      BY <2>1
    <3> QED BY <3>1
  <2> QED BY <1>1, <1>2, <2>1
<1>4. ~(q > x)
  <2>1. ASSUME q > x PROVE b * x + b <= b * q
    <3>1. b * (x + 1) <= b * q /\ b * (x + 1) = b * x + b
      BY <2>1
    <3> QED BY <3>1
  <2> QED BY <1>1, <1>2, <2>1
<1> QED BY <1>1, <1>2, <1>3, <1>4

LEMMA OneDiv ==
  ASSUME NEW b \in Nat \ {0, 1}
  PROVE  1 \div b = 0
<1>1. PICK x \in Nat : x = 1 \div b /\ b * x <= 1
  BY DivNat
<1>2. x > 0 => b * x >= b
  OBVIOUS
<1> QED BY <1>1, <1>2

(* The nanos are below kNano, whatever the digits are. *)
LEMMA BelowOne ==
  ASSUME NEW m \in Nat, NEW v \in Nat, NEW K \in Nat \ {0}, NEW p \in Nat,
         v < p, m * p <= v * K
  PROVE  m < K
<1>1. ASSUME m >= K PROVE FALSE
  <2>1. K * p <= m * p
    BY <1>1
  <2>2. v * K + K <= K * p
    <3>1. K * (v + 1) <= K * p /\ K * (v + 1) = v * K + K
      OBVIOUS
    <3> QED BY <3>1
  <2>3. PICK x \in Nat, y \in Nat, z \in Nat : x = K * p /\ y = m * p /\ z = v * K
    OBVIOUS
  <2> QED BY <2>1, <2>2, <2>3
<1> QED BY <1>1

(* What the loops compute: the value of the digits, and the value of the   *)
(* fraction in nanos, cut off after the last digit that nano_ can hold.    *)
LEMMA LoopsCompute ==
  ASSUME NEW d \in Seq(Digit)
  PROVE  /\ ValueOf(d) \in Nat /\ ValueOf(d) < Power(Base, Len(d))
         /\ nano_of(d) \in Nat /\ nano_of(d) < kNano
         /\ nano_of(d) * Power(Base, Len(d)) <= ValueOf(d) * kNano
         /\ ValueOf(d) * kNano < (nano_of(d) + 1) * Power(Base, Len(d))
<1>1. PICK n \in Nat, D \in Nat, B \in Nat \ {0, 1}, K \in Nat \ {0} :
        n = Len(d) /\ D = Digits /\ B = Base /\ K = kNano /\ K = Power(B, D)
  BY DigitFacts, DecimalAssumption, PowersPositive DEF kNano
<1>2. PICK v \in [0..n -> Nat] :
        /\ v[0] = 0 /\ \A i \in 1..n : v[i] = v[i - 1] * B + d[i]
        /\ ValueOf(d) = v[n]
  BY Zenon, <1>1, ValueTrace
<1>3. PICK s \in [0..n -> Nat], m \in [0..n -> Nat] :
        /\ s[0] = K /\ \A i \in 1..n : s[i] = s[i - 1] \div B
        /\ m[0] = 0 /\ \A i \in 1..n : m[i] = m[i - 1] + d[i] * s[i]
        /\ nano_of(d) = m[n]
  BY ZenonT(40), <1>1, NanoTrace
<1> DEFINE p(i) == Power(B, i)
           Exact(i) == /\ i <= D /\ s[i] = Power(B, D - i) /\ s[i] * p(i) = K
                       /\ m[i] * p(i) = v[i] * K
           Cut(i) == /\ i > D /\ s[i] = 0 /\ m[i] * p(i) <= v[i] * K
                     /\ v[i] * K + K <= (m[i] + 1) * p(i)
           S == {i \in 0..n : v[i] < p(i) /\ (Exact(i) \/ Cut(i))}
<1>4. \A i \in Nat : p(i) \in Nat \ {0} /\ p(i + 1) = B * p(i)
  BY Zenon, PowerPositive, PowerSteps
<1>5. p(0) = 1
  BY PowerSteps
<1> HIDE DEF p
<1>6. 0 \in S
  <2>1. D - 0 = D /\ Power(B, D - 0) = K
    BY <1>1
  <2> QED BY <1>2, <1>3, <1>5, <2>1
<1>7. ASSUME NEW i \in 1..n, i - 1 \in S PROVE i \in S
  <2>1. PICK j \in Nat : j = i - 1 /\ i = j + 1 /\ j \in 0..n
    OBVIOUS
  <2>2. PICK vj \in Nat, mj \in Nat, sj \in Nat, c \in Nat, q \in Nat \ {0} :
          vj = v[j] /\ mj = m[j] /\ sj = s[j] /\ c = d[i] /\ c < B /\ q = p(j)
    BY Zenon, <1>1, <1>2, <1>3, <1>4, <2>1, DigitFacts
  <2>3. /\ v[i] = vj * B + c /\ s[i] = sj \div B /\ m[i] = mj + c * s[i]
        /\ p(i) = B * q
    BY SMTT(20), <1>2, <1>3, <1>4, <2>1, <2>2
  <2>4. vj < q /\ (Exact(j) \/ Cut(j))
    BY <1>7, <2>1, <2>2
  <2>5. v[i] < p(i)
    <3>1. vj * B + c < B * q
      BY Zenon, <2>2, <2>4, ValueBelow
    <3> QED BY <2>3, <3>1
  <2>6. CASE Exact(j) /\ j < D
    <3>1. PICK e \in Nat : e = D - i /\ D - j = e + 1 /\ i <= D
      BY <2>1, <2>6
    <3>2. Power(B, e) \in Nat /\ sj = B * Power(B, e)
      <4>1. sj = Power(B, e + 1)
        BY Zenon, <2>2, <2>6, <3>1
      <4> QED BY Zenon, <4>1, PowerSteps
    <3>3. s[i] = Power(B, e)
      BY <2>3, <3>2, DivExact
    <3>4. PICK t \in Nat : t = s[i] /\ t = Power(B, e) /\ sj = B * t
      BY <3>2, <3>3
    <3>5. t * (B * q) = K
      <4>1. sj * q = K
        BY <2>2, <2>6
      <4> QED BY <3>4, <4>1
    <3>6. (mj + c * t) * (B * q) = (vj * B + c) * K
      <4>1. mj * q = vj * K
        BY <2>2, <2>6
      <4>2. Exactly(t, B, q, K, mj, vj)
        BY <3>5, <4>1 DEF Exactly
      <4>3. StillExactly(t, B, q, K, mj, vj, c)
        BY <4>2, ExactDigit
      <4> QED BY <4>3 DEF StillExactly
    <3>7. Exact(i)
      BY <2>3, <3>1, <3>4, <3>5, <3>6
    <3> QED BY <2>5, <3>7
  <2>7. CASE Exact(j) /\ ~(j < D)
    <3>1. j = D /\ sj = 1 /\ i > D
      <4>1. j = D /\ D - j = 0
        BY SMTT(20), <2>7
      <4>2. sj = Power(B, 0)
        BY <2>2, <2>7, <4>1
      <4> QED BY <2>1, <4>1, <4>2, PowerSteps
    <3>2. s[i] = 0 /\ m[i] = mj
      <4>1. 1 \div B = 0
        BY Zenon, OneDiv
      <4>2. s[i] = 0
        BY <2>3, <3>1, <4>1
      <4> QED BY <2>3, <4>2
    <3>3. q = K
      BY <2>2, <2>7, <3>1
    <3>4. mj * q <= vj * K /\ vj * K + K <= (mj + 1) * q
      <4>1. mj * q = vj * K
        BY <2>2, <2>7
      <4>2. (mj + 1) * q = mj * q + q
        OBVIOUS
      <4> QED BY <3>3, <4>1, <4>2
    <3>5. mj * (B * q) <= (vj * B + c) * K /\ (vj * B + c) * K + K <= (mj + 1) * (B * q)
      BY Zenon, <2>2, <3>4, LostDigit
    <3>6. Cut(i)
      BY Zenon, <2>3, <3>1, <3>2, <3>5
    <3> QED BY <2>5, <3>6
  <2>8. CASE Cut(j)
    <3>1. i > D /\ sj = 0
      BY <2>1, <2>2, <2>8
    <3>2. s[i] = 0 /\ m[i] = mj
      BY <2>3, <3>1
    <3>3. mj * q <= vj * K /\ vj * K + K <= (mj + 1) * q
      BY <2>2, <2>8
    <3>4. mj * (B * q) <= (vj * B + c) * K /\ (vj * B + c) * K + K <= (mj + 1) * (B * q)
      BY Zenon, <2>2, <3>3, LostDigit
    <3>5. Cut(i)
      BY Zenon, <2>3, <3>1, <3>2, <3>4
    <3> QED BY <2>5, <3>5
  <2> QED BY <2>4, <2>6, <2>7, <2>8
<1> HIDE DEF S
<1>8. n \in S
  <2>1. \A i \in 0..n : i \in S
    BY Zenon, <1>6, <1>7, UpTo
  <2> QED BY <2>1
<1>9. PICK V \in Nat, M \in Nat, P \in Nat \ {0} : V = v[n] /\ M = m[n] /\ P = p(n)
  <2>1. v[n] \in Nat /\ m[n] \in Nat /\ p(n) \in Nat \ {0}
    BY <1>2, <1>3, <1>4
  <2> QED BY <2>1
<1>10. V < P /\ (M * P = V * K \/ (M * P <= V * K /\ V * K + K <= (M + 1) * P))
  BY <1>8, <1>9 DEF S
<1>11. M * P <= V * K /\ V * K < (M + 1) * P
  <2>1. PICK x \in Nat, y \in Nat : x = M * P /\ y = V * K /\ (M + 1) * P = x + P
    OBVIOUS
  <2> QED BY <1>10, <2>1
<1>12. M < K
  BY <1>10, <1>11, BelowOne
<1>13. P = Power(Base, Len(d))
  BY <1>1, <1>9 DEF p
<1> QED BY <1>1, <1>2, <1>3, <1>9, <1>10, <1>11, <1>12, <1>13

-----------------------------------------------------------------------------
(* from_string() *)
LEMMA TextTruncated ==
  ASSUME NEW w \in Nat, NEW f \in Nat, NEW m \in Nat, NEW P \in Nat \ {0}, NEW K \in Nat,
         m * P <= f * K, f * K < (m + 1) * P
  PROVE  /\ Truncated(w * K + m, (w * P + f) * K, P)
         /\ Truncated((-w) * K + (-m), (-(w * P + f)) * K, P)
<1>1. PICK x \in Nat, y \in Nat, z \in Nat, r \in Nat :
        x = w * K /\ y = m * P /\ z = f * K /\ r = x * P
  OBVIOUS
<1>2. (w * P + f) * K = r + z
  <2>1. PICK u \in Nat : u = w * P
    OBVIOUS
  <2>2. (u + f) * K = u * K + z /\ u * K = r
    BY <1>1, <2>1
  <2> QED BY <2>1, <2>2
<1>3. (x + m) * P = r + y /\ (m + 1) * P = y + P
  BY <1>1
<1>4. PICK a \in Nat, b \in Nat : a = w * P + f /\ b = x + m
  OBVIOUS
<1>5. /\ a * K = r + z /\ (-a) * K = -(r + z)
      /\ b * P = r + y /\ (-b) * P = -(r + y)
  BY <1>2, <1>3, <1>4, SignsMoveOut
<1>6. w * K + m = b /\ (-w) * K + (-m) = -b
  BY <1>1, <1>4, SignsMoveOut
<1>7. y <= z /\ z < y + P
  BY <1>1, <1>3
<1>8. Truncated(b, a * K, P) /\ Truncated(-b, (-a) * K, P)
  BY <1>5, <1>7 DEF Truncated, Abs
<1> QED BY <1>4, <1>6, <1>8

LEMMA TextFacts ==
  ASSUME NEW t \in Text
  PROVE  t.whole \in Seq(Digit) /\ t.frac \in Seq(Digit)
<1>1. DigitString \subseteq Seq(Digit)
  <2> SUFFICES ASSUME NEW s \in DigitString PROVE s \in Seq(Digit)
    OBVIOUS
  <2>1. PICK m \in Nat : s \in [1..m -> Digit]
    BY DecimalAssumption DEF DigitString
  <2> QED BY <2>1
<1> QED BY Zenon, <1>1 DEF Text

LEMMA ParseRounded ==
  ASSUME NEW t \in Text, FromString(t)
  PROVE  acc' \in Values /\ ExactlyRounded' /\ Normalized'
<1>1. t.whole \in Seq(Digit) /\ t.frac \in Seq(Digit)
  BY TextFacts
<1>2. PICK w \in Nat, f \in Nat, m \in Nat, P \in Nat \ {0} :
        /\ w = ValueOf(t.whole) /\ f = ValueOf(t.frac) /\ m = nano_of(t.frac)
        /\ P = Power(Base, Len(t.frac))
        /\ m < kNano /\ m * P <= f * kNano /\ f * kNano < (m + 1) * P
  <2>1. ValueOf(t.whole) \in Nat
    BY <1>1, LoopsCompute
  <2>2. /\ ValueOf(t.frac) \in Nat /\ nano_of(t.frac) \in Nat /\ nano_of(t.frac) < kNano
        /\ nano_of(t.frac) * Power(Base, Len(t.frac)) <= ValueOf(t.frac) * kNano
        /\ ValueOf(t.frac) * kNano < (nano_of(t.frac) + 1) * Power(Base, Len(t.frac))
    BY <1>1, LoopsCompute
  <2>3. Power(Base, Len(t.frac)) \in Nat \ {0}
    BY SMTT(20), <1>1, DigitFacts, PowerPositive
  <2> QED BY <2>1, <2>2, <2>3
<1>3. PICK units \in Int, nano \in Int, num \in Int :
        /\ units = Negated(t, w) /\ nano = Negated(t, m) /\ num = Negated(t, w * P + f)
        /\ \/ units = w /\ nano = m /\ num = w * P + f
           \/ units = -w /\ nano = -m /\ num = -(w * P + f)
  <2>1. PICK a \in Nat : a = w * P + f
    OBVIOUS
  <2>2. CASE t.sign = "-"
    <3>1. \A n \in Nat : Negated(t, n) = -n /\ -n \in Int
      BY <2>2 DEF Negated
    <3> QED BY <2>1, <3>1
  <2>3. CASE t.sign # "-"
    <3>1. \A n \in Nat : Negated(t, n) = n /\ n \in Int
      BY <2>3 DEF Negated
    <3> QED BY <2>1, <3>1
  <2> QED BY <2>2, <2>3
<1>4. acc' = New(units, nano) /\ Result("parse", num * kNano, P) /\ w \in Units
  BY <1>2, <1>3 DEF FromString, from_string
<1>5. MayConstruct(units, nano)
  <2>1. Quot(nano, kNano) = 0
    <3>1. Quot(nano, kNano) \in Int /\ Truncated(Quot(nano, kNano), nano, kNano)
      BY PowersPositive, QuotTruncates
    <3>2. PICK q \in Int, x \in Int : q = Quot(nano, kNano) /\ x = q * kNano
      BY <3>1, PowersPositive
    <3>3. Abs(x) <= Abs(nano) /\ Abs(nano) < kNano
      <4>1. Abs(x) <= Abs(nano)
        BY <3>1, <3>2 DEF Truncated
      <4>2. (nano = m \/ nano = -m) /\ m < kNano
        BY <1>2, <1>3
      <4> QED BY <4>1, <4>2, PowersPositive DEF Abs
    <3>4. /\ q > 0 => x >= kNano
          /\ q < 0 => x <= -kNano
      BY <3>2, PowersPositive, Multiple
    <3>5. q = 0
      BY <3>3, <3>4, PowersPositive DEF Abs
    <3> QED BY <3>2, <3>5
  <2>2. units \in Units
    BY <1>3, <1>4, PowersPositive DEF Units
  <2> QED BY <2>1, <2>2 DEF MayConstruct
<1>6. /\ acc' \in Values /\ acc'.units \in Units /\ Normal(acc')
      /\ total(acc') = units * kNano + nano
  BY <1>4, <1>5, NormalizeExact, ConstructFits DEF Values
<1>7. Normalized'
  <2>1. ASSUME NEW b \in Operand
        PROVE  acc' = b <=> ~Less(acc', b) /\ ~Less(b, acc')
    BY <1>6, NormalAgreesWith
  <2> QED BY <1>6, <2>1 DEF Normalized
<1>8. Truncated(units * kNano + nano, num * kNano, P)
  <2>1. /\ Truncated(w * kNano + m, (w * P + f) * kNano, P)
        /\ Truncated((-w) * kNano + (-m), (-(w * P + f)) * kNano, P)
    BY Zenon, <1>2, PowersPositive, TextTruncated
  <2> QED BY <1>3, <2>1, Zenon
<1>9. ExactlyRounded'
  BY <1>4, <1>6, <1>8 DEF ExactlyRounded, Result
<1> QED BY <1>6, <1>7, <1>9

-----------------------------------------------------------------------------
(* The inductive invariant: both properties, and integers as members even  *)
(* after a result that did not fit.                                        *)
IInv == acc \in Values /\ fits \in BOOLEAN /\ ExactlyRounded /\ Normalized

LEMMA StoreValues ==
  ASSUME NEW t \in Int, Store(t), fits \in BOOLEAN
  PROVE  acc' \in Values /\ fits' \in BOOLEAN
<1>1. PICK q \in Int : q = Quot(t, kNano)
  BY PowersPositive, QuotTruncates
<1>2. Wrap(q) \in Int
  BY PowersPositive DEF Wrap
<1>3. Rem(t, kNano) \in Int
  BY <1>1, PowersPositive DEF Rem
<1> QED BY <1>1, <1>2, <1>3 DEF Store, from_total, Values

LEMMA OperandValues ==
  /\ Operand \subseteq Values
  /\ Integer \subseteq Int /\ Units \subseteq Int /\ Nanos \subseteq Int /\ Wide \subseteq Int
<1>1. Integer \subseteq Int /\ Units \subseteq Int /\ Nanos \subseteq Int
  BY DecimalAssumption, PowersPositive DEF Integer, Units, Nanos
<1>2. Wide \subseteq Int
  <2>1. PICK x \in Nat : x = 2 * Half * Half
    BY PowersPositive
  <2> QED BY <2>1 DEF Wide
<1> QED BY <1>1, <1>2, NormalizeExact DEF Operand, Values

LEMMA OperationValues ==
  ASSUME IInv,
         NEW b \in Values, NEW k \in Int, NEW v \in Int,
         NEW units \in Int, NEW nano \in Int,
         \/ Construct(units, nano) \/ FromDouble(v, 4 * kNano) \/ Wire
         \/ Plus(b) \/ Minus(b) \/ Negate \/ Times(b) \/ TimesInt(k)
         \/ DivideInt(k) \/ Divide(b)
  PROVE  acc' \in Values /\ fits' \in BOOLEAN
<1>1. total(acc) \in Int /\ total(b) \in Int /\ fits \in BOOLEAN /\ acc \in Values
  BY TotalInt DEF IInv
<1>2. CASE Plus(b) \/ Minus(b) \/ Negate \/ TimesInt(k)
  <2>1. /\ total(acc) + total(b) \in Int /\ total(acc) - total(b) \in Int
        /\ -total(acc) \in Int /\ total(acc) * k \in Int
    BY <1>1
  <2> QED BY <1>1, <1>2, <2>1, StoreValues DEF Plus, Minus, Negate, TimesInt
<1>3. CASE Times(b) \/ DivideInt(k) \/ Divide(b)
  <2>1. total(acc) * total(b) \in Int /\ total(acc) * kNano \in Int /\ kNano \in Int \ {0}
    BY <1>1, PowersPositive
  <2>2. PICK num \in Int, den \in Int \ {0} : Store(div_round(num, den))
    BY <1>1, <1>3, <2>1 DEF Times, DivideInt, Divide
  <2> QED BY <1>1, <2>2, DivRoundNearest, StoreValues
<1>4. CASE FromDouble(v, 4 * kNano)
  <2>1. PICK f \in Int \ {0} : f = 4 * kNano
    BY PowersPositive
  <2>2. PICK u \in Int : u = Quot(v, f)
    BY <2>1, QuotTruncates
  <2>3. PICK num \in Int : num = (v - u * f) * kNano
    BY <2>1, <2>2, PowersPositive
  <2>4. PICK r \in Int : r = div_round(num, f)
    BY <2>1, DivRoundNearest
  <2>5. Store(u * kNano + r)
    BY <1>4, <2>1, <2>2, <2>3, <2>4 DEF FromDouble
  <2>6. u * kNano + r \in Int
    BY PowersPositive
  <2> QED BY <1>1, <2>5, <2>6, StoreValues
<1>5. CASE Construct(units, nano)
  BY <1>1, <1>5, NormalizeExact DEF Construct, Values
<1>6. CASE Wire
  <2>1. acc.units \in Int /\ acc.nano \in Int
    BY <1>1 DEF Values
  <2> QED BY <1>1, <1>6, <2>1, NormalizeExact DEF Wire, Values
<1> QED BY <1>2, <1>3, <1>4, <1>5, <1>6

LEMMA IInvHolds == Spec => []IInv
<1>1. ASSUME Init PROVE IInv
  <2>1. acc = [units |-> 0, nano |-> 0] /\ last = [op |-> "default", num |-> 0, den |-> 1]
        /\ fits = TRUE
    BY <1>1 DEF Init
  <2>2. acc \in Values /\ acc.units = 0 /\ acc.nano = 0
    BY <2>1 DEF Values
  <2>3. total(acc) = 0
    BY <2>2, PowersPositive DEF total
  <2>4. acc.units \in Units /\ Normal(acc)
    BY <2>2, PowersPositive DEF Units, Normal, Abs
  <2>5. Normalized
    BY <2>2, <2>4, NormalAgreesWith DEF Normalized
  <2>6. Nearest(0, 0, 1)
    BY DEF Nearest, Abs
  <2>7. ExactlyRounded
    BY <2>1, <2>3, <2>6 DEF ExactlyRounded
  <2> QED BY <2>1, <2>2, <2>5, <2>7 DEF IInv
<1>2. ASSUME IInv, [Next]_vars PROVE IInv'
  <2>1. CASE UNCHANGED vars
    BY <1>2, <2>1 DEF vars, IInv, ExactlyRounded, Normalized, total, Less, Normal, Operand,
       Values, Nearest, Truncated, Units
  <2>2. ASSUME NEW t \in Text, FromString(t) PROVE IInv'
    <3>1. acc' \in Values /\ ExactlyRounded' /\ Normalized'
      BY <2>2, ParseRounded
    <3>2. fits' \in BOOLEAN
      BY <1>2, <2>2 DEF FromString, IInv
    <3> QED BY <3>1, <3>2 DEF IInv, Values
  <2>3. ASSUME NEW b \in Values, NEW k \in Int, NEW v \in Int,
               NEW units \in Int, NEW nano \in Int,
               \/ Construct(units, nano) \/ FromDouble(v, 4 * kNano) \/ Wire
               \/ Plus(b) \/ Minus(b) \/ Negate \/ Times(b) \/ TimesInt(k)
               \/ DivideInt(k) \/ Divide(b)
        PROVE  IInv'
    <3>1. acc' \in Values /\ fits' \in BOOLEAN
      BY <1>2, <2>3, OperationValues
    <3>2. ExactlyRounded' /\ Normalized'
      BY <1>2, <2>3, OperationsRound DEF IInv
    <3> QED BY <3>1, <3>2 DEF IInv, Values
  <2>4. [units |-> 0, nano |-> 0] \in Values /\ 0 \in Int
    BY DEF Values
  <2> QED BY <1>2, <2>1, <2>2, <2>3, <2>4, OperandValues DEF Next
<1> QED BY <1>1, <1>2, PTL DEF Spec

(* Whatever is made of a Decimal by constructing, parsing and computing,   *)
(* every operation returns its exact result rounded to a nano, a half away *)
(* from zero (a text: cut off there), as long as no result was too large.  *)
THEOREM ArithmeticIsExact == Spec => []ExactlyRounded
<1>1. IInv => ExactlyRounded
  BY DEF IInv
<1> QED BY <1>1, IInvHolds, PTL

(* The value is normalized all the way, and equality agrees with the       *)
(* order.                                                                  *)
THEOREM AlwaysNormalized == Spec => []Normalized
<1>1. IInv => Normalized
  BY DEF IInv
<1> QED BY <1>1, IInvHolds, PTL

-----------------------------------------------------------------------------
(* to_string() *)
LEMMA DivUnique ==
  ASSUME NEW n \in Nat, NEW d \in Nat \ {0}, NEW q \in Nat, d * q <= n, n < d * q + d
  PROVE  n \div d = q
<1>1. PICK r \in Nat : r = n \div d /\ d * r <= n /\ n < d * r + d
  BY DivNat
<1>2. ~(r < q)
  <2>1. ASSUME r < q PROVE d * r + d <= d * q
    <3>1. d * (r + 1) <= d * q /\ d * (r + 1) = d * r + d
      BY <2>1
    <3> QED BY <3>1
  <2>2. PICK x \in Nat, y \in Nat : x = d * r /\ y = d * q
    OBVIOUS
  <2> QED BY <1>1, <2>1, <2>2
<1>3. ~(q < r)
  <2>1. ASSUME q < r PROVE d * q + d <= d * r
    <3>1. d * (q + 1) <= d * r /\ d * (q + 1) = d * q + d
      BY <2>1
    <3> QED BY <3>1
  <2>2. PICK x \in Nat, y \in Nat : x = d * r /\ y = d * q
    OBVIOUS
  <2> QED BY <1>1, <2>1, <2>2
<1> QED BY <1>1, <1>2, <1>3

LEMMA DivDiv ==
  ASSUME NEW x \in Nat, NEW p \in Nat \ {0}, NEW b \in Nat \ {0}
  PROVE  x \div (b * p) = (x \div p) \div b
<1>1. PICK y \in Nat : y = x \div p /\ p * y <= x /\ x < p * y + p
  BY DivNat
<1>2. PICK z \in Nat : z = y \div b /\ b * z <= y /\ y < b * z + b
  BY DivNat
<1>3. PICK w \in Nat : w = b * z
  OBVIOUS
<1>4. w <= y /\ y + 1 <= w + b
  BY <1>2, <1>3
<1>5. p * w <= p * y /\ p * (y + 1) <= p * (w + b)
  BY <1>4
<1>6. p * (y + 1) = p * y + p /\ p * (w + b) = p * w + p * b
  OBVIOUS
<1>7. p * w = (b * p) * z /\ p * b = b * p
  BY <1>3
<1>8. PICK d \in Nat \ {0} : d = b * p
  OBVIOUS
<1>9. d * z <= x /\ x < d * z + d
  <2>1. PICK i \in Nat, j \in Nat : i = p * y /\ j = p * w /\ j = d * z
    BY <1>7, <1>8
  <2>2. j <= i /\ i + p <= j + d
    BY <1>5, <1>6, <1>7, <1>8, <2>1
  <2> QED BY <1>1, <2>1, <2>2
<1>10. x \div d = z
  BY <1>9, DivUnique
<1> QED BY <1>1, <1>2, <1>8, <1>10

LEMMA DivMod ==
  ASSUME NEW y \in Nat, NEW b \in Nat \ {0}
  PROVE  y % b \in 0..(b - 1) /\ ((y \div b) * b) + (y % b) = y
BY SMT

LEMMA PowerSum ==
  ASSUME NEW b \in Nat \ {0}, NEW m \in Nat
  PROVE  \A n \in Nat : Power(b, m + n) = Power(b, m) * Power(b, n)
<1> SUFFICES ASSUME NEW n \in Nat PROVE Power(b, m + n) = Power(b, m) * Power(b, n)
  OBVIOUS
<1> DEFINE S == {i \in 0..n : Power(b, m + i) = Power(b, m) * Power(b, i)}
<1>1. 0 \in S
  <2>1. m + 0 = m /\ b \in Nat
    OBVIOUS
  <2>2. Power(b, m) \in Nat /\ Power(b, 0) = 1
    BY Zenon, <2>1, PowerSteps
  <2> QED BY <2>1, <2>2
<1>2. ASSUME NEW i \in 1..n, i - 1 \in S PROVE i \in S
  <2>1. PICK j \in Nat : j = i - 1 /\ i = j + 1 /\ m + i = (m + j) + 1 /\ m + j \in Nat
    OBVIOUS
  <2>2. Power(b, m + i) = b * Power(b, m + j) /\ Power(b, i) = b * Power(b, j)
    BY <2>1, PowerSteps
  <2>3. Power(b, m + j) = Power(b, m) * Power(b, j)
    BY <1>2, <2>1
  <2>4. PICK x \in Nat, y \in Nat : x = Power(b, m) /\ y = Power(b, j)
    BY Zenon, PowerSteps
  <2>5. b * (x * y) = x * (b * y)
    OBVIOUS
  <2> QED BY <2>2, <2>3, <2>4, <2>5
<1> HIDE DEF S
<1>3. n \in S
  <2>1. \A i \in 0..n : i \in S
    BY <1>1, <1>2, UpTo
  <2> QED BY <2>1
<1> QED BY <1>3 DEF S

(* The first n digits of x, in a field of len, are worth x without its     *)
(* last len - n digits.                                                    *)
LEMMA PrefixValue ==
  ASSUME NEW len \in Nat, NEW x \in Nat, x < Power(Base, len), NEW n \in 0..len,
         NEW d \in Seq(Digit), Len(d) = n,
         \A i \in 1..n : d[i] = DigitsOf(x, len)[i]
  PROVE  ValueOf(d) = x \div Power(Base, len - n)
<1>1. PICK v \in [0..n -> Nat] :
        /\ v[0] = 0 /\ \A i \in 1..n : v[i] = v[i - 1] * Base + d[i]
        /\ ValueOf(d) = v[n]
  BY ValueTrace
<1> DEFINE p(i) == Power(Base, i)
           S == {i \in 0..n : v[i] = x \div p(len - i)}
<1>2. /\ Base \in Nat \ {0}
      /\ \A i \in Nat : p(i) \in Nat \ {0} /\ p(i + 1) = Base * p(i)
  BY Zenon, DigitFacts, PowerPositive, PowerSteps
<1>3. ASSUME NEW i \in 1..n PROVE d[i] = (x \div p(len - i)) % Base
  <2>1. i \in 1..len
    OBVIOUS
  <2> QED BY <2>1, Zenon DEF DigitsOf
<1>4. x < p(len)
  OBVIOUS
<1> HIDE DEF p
<1>5. 0 \in S
  <2>a. len - 0 = len
    OBVIOUS
  <2>1. PICK P \in Nat \ {0} : P = p(len)
    BY Zenon, <1>2
  <2>2. x \div P = 0
    BY <1>4, <2>1, DivUnique
  <2> QED BY <1>1, <2>a, <2>1, <2>2
<1>6. ASSUME NEW i \in 1..n, i - 1 \in S PROVE i \in S
  <2>1. PICK k \in Nat : k = len - i /\ len - (i - 1) = k + 1
    OBVIOUS
  <2>2. PICK P \in Nat \ {0}, y \in Nat : P = p(k) /\ p(k + 1) = Base * P /\ y = x \div P
    BY Zenon, <1>2, DivNat
  <2>3. v[i - 1] = y \div Base
    <3>1. v[i - 1] = x \div (Base * P)
      BY <1>6, <2>1, <2>2
    <3>2. x \div (Base * P) = (x \div P) \div Base
      BY ZenonT(40), <1>2, DivDiv
    <3> QED BY <2>2, <3>1, <3>2, Zenon
  <2>4. v[i] = (v[i - 1] * Base) + (y % Base)
    <3>1. d[i] = y % Base
      BY <1>3, <2>1, <2>2
    <3> QED BY <1>1, <3>1, Zenon
  <2>5. v[i] = y
    <3>1. ((y \div Base) * Base) + (y % Base) = y
      BY Zenon, <1>2, <2>2, DivMod
    <3> QED BY <2>3, <2>4, <3>1, Zenon
  <2> QED BY <2>1, <2>2, <2>5
<1> HIDE DEF S
<1>7. n \in S
  <2>1. \A i \in 0..n : i \in S
    BY <1>5, <1>6, n \in Nat, UpTo
  <2> QED BY <2>1
<1> QED BY <1>1, <1>7 DEF S, p

LEMMA DigitsOfType ==
  ASSUME NEW x \in Nat, NEW len \in Nat
  PROVE  /\ DigitsOf(x, len) \in Seq(Digit) /\ Len(DigitsOf(x, len)) = len
         /\ \A i \in 1..len : DigitsOf(x, len)[i] = (x \div Power(Base, len - i)) % Base
<1>1. ASSUME NEW i \in 1..len PROVE (x \div Power(Base, len - i)) % Base \in Digit
  <2>1. PICK P \in Nat \ {0} : P = Power(Base, len - i)
    BY DigitFacts, PowerPositive, len - i \in Nat
  <2>2. PICK y \in Nat : y = x \div P
    BY DivNat
  <2>3. y % Base \in 0..(Base - 1)
    BY DigitFacts, DivMod
  <2> QED BY <2>1, <2>2, <2>3 DEF Digit
<1>2. DigitsOf(x, len) \in [1..len -> Digit]
  BY <1>1 DEF DigitsOf
<1>3. \A i \in 1..len : DigitsOf(x, len)[i] = (x \div Power(Base, len - i)) % Base
  BY Zenon DEF DigitsOf
<1> QED BY <1>2, <1>3

(* Digits of both parts, read back. *)
LEMMA WholeRoundTrip ==
  ASSUME NEW x \in Nat, NEW len \in Nat, x < Power(Base, len)
  PROVE  ValueOf(DigitsOf(x, len)) = x
<1>1. PICK d \in Seq(Digit) : d = DigitsOf(x, len) /\ Len(d) = len
  BY DigitsOfType
<1>2. ValueOf(d) = x \div Power(Base, len - len)
  BY <1>1, len \in 0..len, PrefixValue
<1>3. Power(Base, len - len) = 1
  BY DigitFacts, PowerSteps, len - len = 0
<1>4. x \div 1 = x
  BY DivUnique
<1> QED BY <1>1, <1>2, <1>3, <1>4

(* Digits that are all 0 at the end can be left out. *)
LEMMA ZerosAtTheEnd ==
  ASSUME NEW x \in Nat, NEW len \in Nat, NEW n \in 0..len,
         \A i \in (n + 1)..len : DigitsOf(x, len)[i] = 0
  PROVE  x = (x \div Power(Base, len - n)) * Power(Base, len - n)
<1> DEFINE p(i) == Power(Base, i)
           S == {j \in 0..(len - n) : x = (x \div p(j)) * p(j)}
<1>1. /\ Base \in Nat \ {0}
      /\ \A i \in Nat : p(i) \in Nat \ {0} /\ p(i + 1) = Base * p(i)
  BY DigitFacts, PowerPositive, PowerSteps
<1>2. 0 \in S
  <2>1. p(0) = 1
    BY DigitFacts, PowerSteps
  <2>2. x \div 1 = x
    BY DivUnique
  <2> QED BY <2>1, <2>2
<1>3. ASSUME NEW j \in 1..(len - n), j - 1 \in S PROVE j \in S
  <2>1. PICK k \in Nat, i \in 1..len :
          k = j - 1 /\ j = k + 1 /\ i = len - k /\ len - i = k /\ i \in (n + 1)..len
    <3>1. j - 1 \in Nat /\ len - (j - 1) \in 1..len /\ len - (j - 1) \in (n + 1)..len
      OBVIOUS
    <3> QED BY <3>1
  <2> HIDE DEF p
  <2>2. PICK P \in Nat \ {0}, y \in Nat : P = p(k) /\ p(j) = Base * P /\ y = x \div P
    BY Zenon, <1>1, <2>1, DivNat
  <2>3. x = y * P
    BY <1>3, <2>1, <2>2
  <2>4. y % Base = 0
    <3>1. DigitsOf(x, len)[i] = (x \div p(k)) % Base
      BY <2>1, DigitsOfType DEF p
    <3>2. DigitsOf(x, len)[i] = 0
      BY <2>1
    <3> QED BY <2>2, <3>1, <3>2
  <2>5. PICK z \in Nat : z = y \div Base /\ y = z * Base
    <3>1. PICK z \in Nat : z = y \div Base
      BY Zenon, <1>1, DivNat
    <3>2. (z * Base) + 0 = y
      BY <1>1, <2>4, <3>1, DivMod
    <3>3. z * Base \in Nat
      BY <1>1
    <3> QED BY <3>1, <3>2, <3>3
  <2>6. x \div (Base * P) = z
    <3>1. x \div (Base * P) = (x \div P) \div Base
      BY <1>1, DivDiv
    <3> QED BY <2>2, <2>5, <3>1
  <2>7. x = z * (Base * P)
    <3>1. (z * Base) * P = z * (Base * P)
      BY <1>1
    <3> QED BY <2>3, <2>5, <3>1, Zenon
  <2> QED BY <2>2, <2>6, <2>7
<1> HIDE DEF S
<1>4. len - n \in S
  <2>1. \A j \in 0..(len - n) : j \in S
    BY <1>2, <1>3, len - n \in Nat, UpTo
  <2> QED BY <2>1
<1> QED BY <1>4 DEF S

LEMMA FractionRoundTrip ==
  ASSUME NEW x \in Nat, x < kNano, NEW n \in 0..Digits,
         \A i \in (n + 1)..Digits : DigitsOf(x, Digits)[i] = 0,
         NEW d \in Seq(Digit), Len(d) = n,
         \A i \in 1..n : d[i] = DigitsOf(x, Digits)[i]
  PROVE  nano_of(d) = x
<1>1. PICK D \in Nat, K \in Nat \ {0}, k \in Nat :
        D = Digits /\ K = kNano /\ K = Power(Base, D) /\ k = D - n /\ n + k = D
  BY DecimalAssumption, PowersPositive DEF kNano
<1>2. PICK P \in Nat \ {0}, Q \in Nat \ {0} : P = Power(Base, n) /\ Q = Power(Base, k)
  BY Zenon, DigitFacts, PowerPositive, n \in Nat
<1>3. K = P * Q
  BY <1>1, <1>2, DigitFacts, PowerSum, n \in Nat
<1>4. PICK v \in Nat : v = x \div Q
  BY Zenon, DivNat
<1>5. ValueOf(d) = v
  BY SMTT(20), <1>1, <1>2, <1>4, PrefixValue
<1>6. x = v * Q
  <2>1. x = (x \div Power(Base, Digits - n)) * Power(Base, Digits - n)
    <3>1. Digits \in Nat
      BY DecimalAssumption
    <3> QED BY Zenon, <3>1, ZerosAtTheEnd
  <2>2. Power(Base, Digits - n) = Q
    BY <1>1, <1>2
  <2> QED BY <1>4, <2>1, <2>2, Zenon
<1>7. PICK m \in Nat : m = nano_of(d) /\ m * P <= v * K /\ v * K < (m + 1) * P
  BY <1>1, <1>2, <1>5, LoopsCompute
<1>8. v * K = x * P
  BY <1>3, <1>6
<1>9. ~(m < x)
  <2>1. ASSUME m < x PROVE (m + 1) * P <= x * P
    BY <2>1
  <2>2. PICK a \in Nat, b \in Nat : a = (m + 1) * P /\ b = x * P
    OBVIOUS
  <2> QED BY <1>7, <1>8, <2>1, <2>2
<1>10. ~(x < m)
  <2>1. ASSUME x < m PROVE x * P + P <= m * P
    <3>1. (x + 1) * P <= m * P /\ (x + 1) * P = x * P + P
      BY <2>1
    <3> QED BY <3>1
  <2>2. PICK a \in Nat, b \in Nat : a = m * P /\ b = x * P
    OBVIOUS
  <2> QED BY <1>7, <1>8, <2>1, <2>2
<1> QED BY <1>7, <1>9, <1>10

(* Width digits are enough for every |units|. *)
LEMMA WidthIsEnough ==
  ASSUME NEW u \in 0..Half
  PROVE  u < Power(Base, Width)
<1>1. \A n \in Nat : Power(2, n) <= Power(Base, n)
  <2> SUFFICES ASSUME NEW n \in Nat PROVE Power(2, n) <= Power(Base, n)
    OBVIOUS
  <2> DEFINE S == {i \in 0..n : Power(2, i) <= Power(Base, i)}
  <2>1. 0 \in S
    BY PowerSteps, DigitFacts
  <2>2. ASSUME NEW i \in 1..n, i - 1 \in S PROVE i \in S
    <3>1. PICK j \in Nat : j = i - 1 /\ i = j + 1
      OBVIOUS
    <3>2. PICK x \in Nat, y \in Nat : x = Power(2, j) /\ y = Power(Base, j) /\ x <= y
      BY Zenon, <2>2, <3>1, PowerSteps, DigitFacts
    <3>3. Power(2, i) = 2 * x /\ Power(Base, i) = Base * y
      BY <3>1, <3>2, PowerSteps, DigitFacts
    <3>4. PICK w \in Nat : w = Base * y /\ 2 * y <= w
      BY DigitFacts
    <3>5. 2 * x <= w
      BY <3>2, <3>4
    <3> QED BY <3>3, <3>4, <3>5
  <2> HIDE DEF S
  <2>3. \A i \in 0..n : i \in S
    BY <2>1, <2>2, UpTo
  <2> QED BY <2>3 DEF S
<1>2. PICK k \in Nat : k = Width - 1 /\ Width = k + 1
  BY DecimalAssumption
<1>3. Power(2, Width) = 2 * Half
  BY <1>2, PowerSteps DEF Half
<1>4. Power(2, Width) <= Power(Base, Width) /\ Power(Base, Width) \in Nat
  <2>1. Width \in Nat /\ Base \in Nat
    BY <1>2, DigitFacts
  <2> QED BY Zenon, <1>1, <2>1, PowerSteps
<1> QED BY <1>3, <1>4, PowersPositive

(* What to_string() writes for a normalized value. *)
LEMMA TextOf ==
  ASSUME NEW u \in 0..Half, NEW x \in Nat, x < kNano,
         NEW a, a.units \in Int, a.nano \in Int, u = Abs(a.units), x = Abs(a.nano)
  PROVE  /\ to_string(a).whole \in Seq(Digit) /\ to_string(a).whole # <<>>
         /\ to_string(a).frac \in Seq(Digit)
         /\ ValueOf(to_string(a).whole) = u
         /\ nano_of(to_string(a).frac) = x
<1>1. DEFINE W == {n \in 1..Width : u < Power(Base, n)}
             L == Min(W)
             f == DigitsOf(x, Digits)
             used == {i \in 1..Digits : f[i] # 0}
             frac == IF used = {} THEN <<>> ELSE SubSeq(f, 1, Max(used))
<1>2. to_string(a).whole = DigitsOf(u, L) /\ to_string(a).frac = frac
  BY DEF to_string
<1>3. L \in W
  <2>1. W # {} /\ W \in SUBSET Nat
    BY WidthIsEnough, DecimalAssumption
  <2>2. \E n \in W : \A k \in W : n <= k
    BY Zenon, <2>1, LeastNumber
  <2> HIDE DEF W
  <2> QED BY <2>2 DEF Min
<1>4. L \in Nat \ {0} /\ u < Power(Base, L)
  BY <1>3
<1> HIDE DEF L
<1>5. /\ DigitsOf(u, L) \in Seq(Digit) /\ DigitsOf(u, L) # <<>>
      /\ ValueOf(DigitsOf(u, L)) = u
  <2>1. DigitsOf(u, L) \in Seq(Digit) /\ Len(DigitsOf(u, L)) = L
    BY <1>4, DigitsOfType
  <2> QED BY <1>4, <2>1, WholeRoundTrip
<1>6. Digits \in Nat /\ f \in Seq(Digit) /\ Len(f) = Digits
  BY Zenon, DecimalAssumption, DigitsOfType
<1> HIDE DEF f
<1>7. CASE used = {}
  <2>1. <<>> \in Seq(Digit) /\ Len(<<>>) = 0
    OBVIOUS
  <2>2. \A i \in (0 + 1)..Digits : f[i] = 0
    BY <1>7
  <2>3. 0 \in 0..Digits
    BY <1>6
  <2>4. nano_of(<<>>) = x
    <3>1. PICK e \in Seq(Digit) : e = <<>> /\ Len(e) = 0
      BY Zenon, <2>1
    <3>2. \A i \in 1..0 : e[i] = f[i]
      OBVIOUS
    <3>3. nano_of(e) = x
      BY Zenon, <2>2, <2>3, <3>1, <3>2, FractionRoundTrip DEF f
    <3> QED BY <3>1, <3>3
  <2> QED BY <1>2, <1>5, <1>7, <2>1, <2>4
<1>8. CASE used # {}
  <2>1. PICK n \in 1..Digits : n = Max(used) /\ n \in used /\ \A i \in used : n >= i
    <3>1. \E n \in used : \A i \in used : n >= i
      <4> DEFINE T == {Digits - i : i \in used}
      <4>1. T # {} /\ T \in SUBSET Nat
        BY <1>6, <1>8
      <4>2. PICK t \in T : \A y \in T : t <= y
        BY Zenon, <4>1, LeastNumber
      <4>3. PICK n \in used : t = Digits - n
        BY <4>2
      <4>4. \A i \in used : Digits - n <= Digits - i
        BY <4>2, <4>3
      <4> QED BY <1>6, <4>4
    <3>2. Max(used) \in used /\ \A i \in used : Max(used) >= i
      <4> HIDE DEF used
      <4> QED BY <3>1 DEF Max
    <3> QED BY <3>2
  <2>2. PICK d : d = SubSeq(f, 1, n)
    BY Zenon
  <2>3. d \in Seq(Digit) /\ Len(d) = n /\ \A i \in 1..n : d[i] = f[i]
    <3>1. \A i \in 1..n : f[i] \in Digit
      BY <1>6, <2>1
    <3>2. /\ d \in Seq(Digit) /\ Len(d) = (IF 1 <= n THEN n - 1 + 1 ELSE 0)
          /\ \A i \in 1..(n - 1 + 1) : d[i] = f[1 + i - 1]
      BY <2>2, <3>1, SubSeqProperties, 1 \in Int, n \in Int
    <3>3. n - 1 + 1 = n /\ 1 <= n /\ \A i \in 1..n : 1 + i - 1 = i
      BY <2>1
    <3> QED BY <3>2, <3>3, Zenon
  <2>4. \A i \in (n + 1)..Digits : f[i] = 0
    BY <1>6, <2>1
  <2>5. nano_of(d) = x
    BY SMTT(20), <2>1, <2>3, <2>4, FractionRoundTrip, n \in 0..Digits DEF f
  <2> QED BY SMTT(20), <1>2, <1>5, <1>8, <2>1, <2>2, <2>3, <2>5
<1> QED BY <1>7, <1>8

(* from_string() reads back what to_string() wrote, for every value that   *)
(* the class can hold and whose |units| is an int64_t: all digits, both    *)
(* signs, also where only the nanos are negative, and fractions with zeros *)
(* in front and at the end.                                                *)
THEOREM TextsRoundTrip == Spec => []TextRoundTrip
<1>1. ASSUME IInv PROVE TextRoundTrip
  <2> SUFFICES ASSUME fits, Abs(acc.units) \in Units
               PROVE  Accepted(to_string(acc)) /\ from_string(to_string(acc)) = acc
    BY DEF TextRoundTrip
  <2>1. acc \in Values /\ Normal(acc) /\ acc.units \in Int /\ acc.nano \in Int
    BY <1>1 DEF IInv, Normalized, Values
  <2>2. PICK u \in 0..Half, x \in Nat : u = Abs(acc.units) /\ x = Abs(acc.nano) /\ x < kNano
    BY <2>1, PowersPositive DEF Units, Normal, Abs
  <2>3. PICK t : t = to_string(acc)
    OBVIOUS
  <2>4. /\ t.whole \in Seq(Digit) /\ t.whole # <<>> /\ t.frac \in Seq(Digit)
        /\ ValueOf(t.whole) = u /\ nano_of(t.frac) = x
    BY SMTT(20), <2>1, <2>2, <2>3, TextOf
  <2>5. t.rest = FALSE /\ t.sign = Sign(acc)
    BY Zenon, <2>3 DEF to_string
  <2>6. Accepted(t)
    BY <2>4, <2>5, ConcatEqualIffEmpty DEF Accepted
  <2>7. Negated(t, u) = acc.units /\ Negated(t, x) = acc.nano
    <3>1. PICK y \in Int, z \in Int : y = acc.units /\ z = acc.nano
      BY <2>1
    <3>2. (y > 0 => z >= 0) /\ (y < 0 => z <= 0) /\ u = Abs(y) /\ x = Abs(z)
      BY <2>1, <2>2, <3>1 DEF Normal
    <3>3. CASE y < 0 \/ z < 0
      <4>1. t.sign = "-"
        BY Zenon, <2>5, <3>1, <3>3 DEF Sign
      <4>2. -u = y /\ -x = z
        BY <3>2, <3>3 DEF Abs
      <4> QED BY <3>1, <4>1, <4>2 DEF Negated
    <3>4. CASE ~(y < 0 \/ z < 0)
      <4>1. t.sign # "-"
        BY Zenon, <2>5, <3>1, <3>4 DEF Sign
      <4>2. u = y /\ x = z
        BY <3>2, <3>4 DEF Abs
      <4> QED BY <3>1, <4>1, <4>2 DEF Negated
    <3> QED BY <3>3, <3>4
  <2>8. from_string(t) = New(acc.units, acc.nano)
    BY <2>4, <2>7 DEF from_string
  <2>9. New(acc.units, acc.nano) = acc
    <3>1. /\ New(acc.units, acc.nano) \in Values /\ Normal(New(acc.units, acc.nano))
          /\ total(New(acc.units, acc.nano)) = total(acc)
      BY <2>1, NormalizeExact DEF Values, total
    <3> QED BY <2>1, <3>1, NormalUnique
  <2> QED BY <2>3, <2>6, <2>8, <2>9
<1> QED BY <1>1, IInvHolds, PTL
=============================================================================
