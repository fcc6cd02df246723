--------------------------- MODULE StrategyProofs ---------------------------
(***************************************************************************)
(* The arithmetic of Rationals, with what the proofs need of numbers       *)
(* (induction by a least counterexample, the trace of a loop in place of   *)
(* its recursive definition); the indicators: their types, the sums and    *)
(* windows they keep, and how far a window reaches from its mean; and the  *)
(* strategies: what on_bar() returns after a history of bars.              *)
(***************************************************************************)
EXTENDS Strategies, WellFoundedInduction, TLAPS

-----------------------------------------------------------------------------
(* Induction over an interval, by a least counterexample. *)
LEMMA LeastNumber ==
  ASSUME NEW T \in SUBSET Nat, T # {}
  PROVE  \E x \in T : \A y \in T : x <= y
<1>1. PICK x \in T : \A y \in T : ~(<<y, x>> \in OpToRel(<, Nat))
  BY Zenon, NatLessThanWellFounded, WFMin
<1>2. ASSUME NEW y \in T PROVE x <= y
  <2>1. <<y, x>> \in Nat \X Nat
    OBVIOUS
  <2>2. ~(<<y, x>>[1] < <<y, x>>[2])
    BY <1>1, <2>1, Zenon DEF OpToRel
  <2> QED BY <2>2
<1> QED BY <1>2

LEMMA UpTo ==
  ASSUME NEW k \in Nat, NEW S, 0 \in S, \A i \in 1..k : i - 1 \in S => i \in S
  PROVE  \A i \in 0..k : i \in S
<1> DEFINE Bad == (0..k) \ S
<1>1. ASSUME Bad # {} PROVE FALSE
  <2>1. PICK m \in Bad : \A i \in Bad : m <= i
    BY <1>1, LeastNumber, Bad \in SUBSET Nat
  <2>2. m \in 1..k /\ m \notin S
    OBVIOUS
  <2>3. m - 1 \in S
    BY <2>1, <2>2
  <2> QED BY <2>2, <2>3
<1> QED BY <1>1

(* A loop that starts with s0 and computes F[i][s] from s in its i-th pass *)
(* has a trace.                                                            *)
Loop(F, S, n) == F \in [1..n -> [S -> S]]

Runs(g, F, s0, S, n) ==
  g \in [0..n -> S] /\ g[0] = s0 /\ \A i \in 1..n : g[i] = F[i][g[i - 1]]

LEMMA Trace ==
  ASSUME NEW n \in Nat, NEW S, NEW s0 \in S, NEW F, Loop(F, S, n)
  PROVE  \E g : Runs(g, F, s0, S, n)
<1> USE DEF Loop
<1> DEFINE Traces(k) == {g \in [0..k -> S] :
                           g[0] = s0 /\ \A i \in 1..k : g[i] = F[i][g[i - 1]]}
           Good == {k \in 0..n : Traces(k) # {}}
<1>1. 0 \in Good
  <2>1. [i \in 0..0 |-> s0] \in Traces(0)
    OBVIOUS
  <2> QED BY <2>1
<1>2. ASSUME NEW k \in 1..n, k - 1 \in Good PROVE k \in Good
  <2>1. PICK g \in [0..(k - 1) -> S] :
               g[0] = s0 /\ \A i \in 1..(k - 1) : g[i] = F[i][g[i - 1]]
    BY <1>2
  <2>2. PICK x \in S : x = F[k][g[k - 1]]
    BY <2>1
  <2> DEFINE h == [i \in 0..k |-> IF i = k THEN x ELSE g[i]]
  <2>3. h \in [0..k -> S] /\ h[0] = s0 /\ h[k] = x
        /\ \A i \in 0..(k - 1) : h[i] = g[i]
    BY <2>1
  <2> HIDE DEF h
  <2>4. ASSUME NEW i \in 1..k PROVE h[i] = F[i][h[i - 1]]
    <3>1. CASE i = k
      BY <2>2, <2>3, <3>1
    <3>2. CASE i # k
      <4>1. i \in 1..(k - 1) /\ i \in 0..(k - 1) /\ i - 1 \in 0..(k - 1)
        BY <3>2
      <4> QED BY <2>1, <2>3, <4>1
    <3> QED BY <3>1, <3>2
  <2>5. h \in Traces(k)
    BY <2>3, <2>4
  <2> HIDE DEF Traces
  <2> QED BY <2>5
<1> HIDE DEF Traces, Good
<1>3. \A k \in 0..n : k \in Good
  BY Zenon, <1>1, <1>2, UpTo
<1>4. Traces(n) # {}
  BY <1>3 DEF Good
<1> QED BY <1>4 DEF Traces, Runs

(* Two traces of the same loop agree as far as both go. *)
Alike(g, h, n) ==
  g[0] = h[0] /\ \A i \in 1..n : g[i - 1] = h[i - 1] => g[i] = h[i]

LEMMA OneTrace ==
  ASSUME NEW n \in Nat, NEW g, NEW h, Alike(g, h, n)
  PROVE  \A i \in 0..n : g[i] = h[i]
<1> DEFINE S == {i \in 0..n : g[i] = h[i]}
<1>1. 0 \in S
  BY DEF Alike
<1>2. ASSUME NEW i \in 1..n, i - 1 \in S PROVE i \in S
  BY <1>2 DEF Alike
<1> HIDE DEF S
<1>3. \A i \in 0..n : i \in S
  BY <1>1, <1>2, UpTo
<1> QED BY <1>3 DEF S

-----------------------------------------------------------------------------
(* Strong induction. *)
LEMMA FromBelow ==
  ASSUME NEW S, \A n \in Nat : (\A m \in 0..(n - 1) : m \in S) => n \in S
  PROVE  \A n \in Nat : n \in S
<1> DEFINE Bad == Nat \ S
<1>1. ASSUME Bad # {} PROVE FALSE
  <2>1. PICK m \in Bad : \A i \in Bad : m <= i
    BY <1>1, LeastNumber, Bad \in SUBSET Nat
  <2>2. m \in Nat /\ m \notin S /\ \A i \in 0..(m - 1) : i \in S
    BY <2>1
  <2> QED BY <2>2
<1> QED BY <1>1

-----------------------------------------------------------------------------
(* The greatest common divisor: the recursive definition has a solution. *)
GcdOn(n, f) ==
  /\ f \in [0..n -> [Nat -> Nat]]
  /\ \A b \in 0..n, a \in Nat : f[b][a] = IF b = 0 THEN a ELSE f[a % b][b]

LEMMA ModLess ==
  ASSUME NEW a \in Nat, NEW b \in Nat \ {0}
  PROVE  a % b \in 0..(b - 1) /\ a % b \in Nat
BY SMT

LEMMA GcdOnFacts ==
  ASSUME NEW n, NEW f, GcdOn(n, f), NEW b \in 0..n
  PROVE  /\ f[b] \in [Nat -> Nat]
         /\ \A a \in Nat : f[b][a] \in Nat
         /\ b = 0 => \A a \in Nat : f[b][a] = a
         /\ b # 0 => \A a \in Nat : f[b][a] = f[a % b][b]
<1>1. f[b] \in [Nat -> Nat]
  BY Zenon DEF GcdOn
<1>2. \A a \in Nat : f[b][a] \in Nat
  BY Zenon, <1>1
<1>3. \A a \in Nat : f[b][a] = IF b = 0 THEN a ELSE f[a % b][b]
  BY Zenon DEF GcdOn
<1> QED BY Zenon, <1>1, <1>2, <1>3

LEMMA GcdOnExists ==
  ASSUME NEW n \in Nat
  PROVE  \E f : GcdOn(n, f)
<1> DEFINE S == {k \in 0..n : \E f : GcdOn(k, f)}
<1>1. 0 \in S
  <2>1. GcdOn(0, [b \in 0..0 |-> [a \in Nat |-> a]])
    BY DEF GcdOn
  <2> QED BY <2>1
<1>2. ASSUME NEW k \in 1..n, k - 1 \in S PROVE k \in S
  <2>1. PICK f : GcdOn(k - 1, f)
    BY <1>2
  <2> DEFINE h == [b \in 0..k |->
                     IF b = k THEN [a \in Nat |-> f[a % k][k]] ELSE f[b]]
  <2>2. ASSUME NEW a \in Nat PROVE f[a % k][k] \in Nat
    <3>1. a % k \in 0..(k - 1) /\ k \in Nat
      BY SMT, ModLess
    <3> QED BY Zenon, <2>1, <3>1, GcdOnFacts
  <2>3. h \in [0..k -> [Nat -> Nat]]
    <3>1. ASSUME NEW b \in 0..k PROVE h[b] \in [Nat -> Nat]
      <4>1. CASE b = k
        BY Zenon, <2>2, <4>1
      <4>2. CASE b # k
        <5>1. b \in 0..(k - 1) /\ 0 \in Nat
          BY SMT, <4>2
        <5> QED BY Zenon, <2>1, <4>2, <5>1, GcdOnFacts
      <4> QED BY Zenon, <4>1, <4>2
    <3> QED BY Zenon, <3>1
  <2>4. ASSUME NEW b \in 0..k, NEW a \in Nat
        PROVE  h[b][a] = IF b = 0 THEN a ELSE h[a % b][b]
    <3>1. CASE b = k
      <4>1. a % k \in 0..(k - 1) /\ a % k \in 0..k /\ a % k # k /\ b # 0
        BY SMT, <3>1, ModLess
      <4> QED BY Zenon, <3>1, <4>1
    <3>2. CASE b # k /\ b # 0
      <4>1. b \in 0..(k - 1) /\ a % b \in 0..(b - 1)
        BY <3>2, ModLess
      <4>2. a % b \in 0..(k - 1) /\ a % b \in 0..k /\ a % b # k
        BY <4>1
      <4>3. f[b][a] = f[a % b][b]
        BY Zenon, <2>1, <3>2, <4>1 DEF GcdOn
      <4> QED BY Zenon, <3>2, <4>1, <4>2, <4>3
    <3>3. CASE b # k /\ b = 0
      <4>1. b \in 0..(k - 1)
        BY <3>3
      <4> QED BY <2>1, <3>3, <4>1, GcdOnFacts
    <3> QED BY <3>1, <3>2, <3>3
  <2> HIDE DEF h
  <2>5. GcdOn(k, h)
    BY Zenon, <2>3, <2>4 DEF GcdOn
  <2> QED BY <2>5
<1> HIDE DEF S
<1>3. n \in S
  BY <1>1, <1>2, UpTo
<1> QED BY <1>3 DEF S

LEMMA GcdOnUnique ==
  ASSUME NEW n \in Nat, NEW m \in Nat, NEW f, NEW g, GcdOn(n, f), GcdOn(m, g)
  PROVE  \A b \in Nat : b <= n /\ b <= m => f[b] = g[b]
<1> DEFINE S == {b \in Nat : b <= n /\ b <= m => f[b] = g[b]}
<1>1. ASSUME NEW b \in Nat, \A c \in 0..(b - 1) : c \in S PROVE b \in S
  <2> SUFFICES ASSUME b <= n, b <= m PROVE f[b] = g[b]
    OBVIOUS
  <2> b \in 0..n /\ b \in 0..m /\ 0 \in Nat
    BY SMT
  <2>1. f[b] \in [Nat -> Nat] /\ g[b] \in [Nat -> Nat]
    BY Zenon, GcdOnFacts
  <2>2. ASSUME NEW a \in Nat PROVE f[b][a] = g[b][a]
    <3>1. CASE b = 0
      BY SMTT(20), <3>1, GcdOnFacts
    <3>2. CASE b # 0
      <4>1. a % b \in 0..(b - 1) /\ a % b \in Nat
        BY <3>2, ModLess
      <4>2. f[a % b] = g[a % b]
        BY SMT, <1>1, <4>1
      <4>3. f[b][a] = f[a % b][b]
        BY Zenon, <3>2 DEF GcdOn
      <4>4. g[b][a] = g[a % b][b]
        BY Zenon, <3>2 DEF GcdOn
      <4> QED BY Zenon, <4>2, <4>3, <4>4
    <3> QED BY <3>1, <3>2
  <2> QED BY <2>1, <2>2
<1> HIDE DEF S
<1>2. \A b \in Nat : b \in S
  BY <1>1, FromBelow
<1> QED BY <1>2 DEF S

LEMMA GcdDef ==
  gcd = [b \in Nat |-> [a \in Nat |-> IF b = 0 THEN a ELSE gcd[a % b][b]]]
<1> DEFINE Def(g) == [b \in Nat |-> [a \in Nat |-> IF b = 0 THEN a ELSE g[a % b][b]]]
           At(b)  == CHOOSE f : GcdOn(b, f)
           G == [b \in Nat |-> At(b)[b]]
<1>1. ASSUME NEW b \in Nat PROVE GcdOn(b, At(b))
  BY Zenon, GcdOnExists
<1> HIDE DEF At
<1>2. ASSUME NEW b \in Nat, NEW a \in Nat
      PROVE  /\ G[b] \in [Nat -> Nat]
             /\ G[b][a] = IF b = 0 THEN a ELSE G[a % b][b]
  <2>1. PICK f : f = At(b) /\ GcdOn(b, f) /\ G[b] = f[b]
    BY Zenon, <1>1
  <2>2. b \in 0..b
    OBVIOUS
  <2> HIDE DEF G
  <2>3. f[b] \in [Nat -> Nat] /\ (b = 0 => f[b][a] = a)
        /\ (b # 0 => f[b][a] = f[a % b][b])
    BY SMT, <2>1, <2>2, GcdOnFacts
  <2>4. ASSUME b # 0 PROVE f[a % b] = G[a % b]
    <3>1. PICK c \in Nat : c = a % b /\ c <= b /\ c <= c
      BY <2>4, ModLess
    <3>2. PICK h : h = At(c) /\ GcdOn(c, h) /\ G[c] = h[c]
      BY Zenon, <1>1 DEF G
    <3>3. f[c] = h[c]
      BY SMT, <2>1, <3>1, <3>2, GcdOnUnique
    <3> QED BY Zenon, <3>1, <3>2, <3>3
  <2> QED BY Zenon, <2>1, <2>3, <2>4
<1> HIDE DEF G
<1>3. G = Def(G)
  <2>1. ASSUME NEW b \in Nat PROVE G[b] = Def(G)[b]
    BY Zenon, <1>2, <2>1
  <2>2. G = [b \in Nat |-> G[b]]
    BY Zenon DEF G
  <2> QED BY Zenon, <2>1, <2>2
<1>4. gcd = CHOOSE g : g = Def(g)
  BY DEF gcd
<1> QED BY Zenon, <1>3, <1>4

LEMMA GcdRec ==
  ASSUME NEW a \in Nat, NEW b \in Nat
  PROVE  gcd[b][a] = IF b = 0 THEN a ELSE gcd[a % b][b]
BY Zenon, GcdDef

-----------------------------------------------------------------------------
(* Division with remainder *)
LEMMA ModParts ==
  ASSUME NEW a \in Int, NEW b \in Nat \ {0}
  PROVE  /\ a \div b \in Int /\ a % b \in 0..(b - 1)
         /\ a = b * (a \div b) + (a % b)
BY SMT

LEMMA SmallMultiple ==
  ASSUME NEW b \in Nat \ {0}, NEW p \in Int, b * p < b, -b < b * p
  PROVE  p = 0
<1>1. p >= 1 => b * p >= b
  BY SMT
<1>2. p <= -1 => b * p <= -b
  BY SMT
<1> QED BY SMT, <1>1, <1>2

LEMMA ModUnique ==
  ASSUME NEW a \in Int, NEW b \in Nat \ {0}, NEW q \in Int, NEW r \in 0..(b - 1),
         a = b * q + r
  PROVE  a \div b = q /\ a % b = r
<1>1. PICK Q1 \in Int, R1 \in 0..(b - 1) :
        Q1 = a \div b /\ R1 = a % b /\ a = b * Q1 + R1
  BY ModParts
<1>2. PICK p \in Int : p = q - Q1
  BY SMT
<1>3. b * p = R1 - r
  <2>1. b * p = b * q - b * Q1
    BY SMT, <1>2
  <2>2. PICK X \in Int, Y \in Int : X = b * q /\ Y = b * Q1
    BY SMT
  <2> QED BY SMT, <1>1, <2>1, <2>2
<1>4. p = 0
  <2>1. b * p < b /\ -b < b * p
    BY SMT, <1>1, <1>3
  <2> QED BY Zenon, <2>1, SmallMultiple
<1> QED BY SMT, <1>1, <1>2, <1>3, <1>4

LEMMA ModScale ==
  ASSUME NEW a \in Nat, NEW b \in Nat \ {0}, NEW k \in Nat \ {0}
  PROVE  (k * a) % (k * b) = k * (a % b)
<1>1. PICK q \in Int : \E r \in 0..(b - 1) : r = a % b /\ a = b * q + r
  <2>1. a \in Int
    OBVIOUS
  <2> QED BY Zenon, <2>1, ModParts
<1>1a. PICK r \in 0..(b - 1) : r = a % b /\ a = b * q + r
  BY <1>1
<1>2. k * a \in Int /\ k * b \in Nat \ {0} /\ k * r \in Int
  BY SMT
<1>3. k * r >= 0 /\ k * r < k * b
  BY SMT
<1>4. k * r \in 0..(k * b - 1)
  BY SMT, <1>2, <1>3
<1>5. k * a = (k * b) * q + k * r
  <2>1. b * q \in Int /\ r \in Int
    BY SMT
  <2>2. k * (b * q + r) = k * (b * q) + k * r
    BY SMT, <2>1
  <2>3. k * (b * q) = (k * b) * q
    BY SMT
  <2> QED BY Zenon, <1>1a, <2>2, <2>3
<1>6. (k * a) % (k * b) = k * r
  BY Zenon, <1>2, <1>4, <1>5, ModUnique
<1> QED BY Zenon, <1>1a, <1>6

-----------------------------------------------------------------------------
(* What gcd computes: a positive common divisor, and one that a common     *)
(* factor multiplies.                                                      *)
Divides(g, n) == \E q \in Nat : n = q * g

LEMMA DividesSum ==
  ASSUME NEW g \in Nat, NEW m \in Nat, NEW n \in Nat, NEW k \in Nat,
         Divides(g, m), Divides(g, n)
  PROVE  Divides(g, m * k + n)
<1>1. PICK p \in Nat, q \in Nat : m = p * g /\ n = q * g
  BY Zenon DEF Divides
<1>2. m * k + n = (p * k + q) * g /\ p * k + q \in Nat
  BY SMT, <1>1
<1> QED BY Zenon, <1>2 DEF Divides

GcdGood(a, b) ==
  /\ gcd[b][a] \in Nat
  /\ Divides(gcd[b][a], a) /\ Divides(gcd[b][a], b)
  /\ a # 0 \/ b # 0 => gcd[b][a] # 0

LEMMA GcdDivides ==
  ASSUME NEW a \in Nat, NEW b \in Nat
  PROVE  GcdGood(a, b)
<1> DEFINE S == {n \in Nat : \A m \in Nat : GcdGood(m, n)}
<1>1. ASSUME NEW n \in Nat, \A c \in 0..(n - 1) : c \in S PROVE n \in S
  <2> SUFFICES ASSUME NEW m \in Nat PROVE GcdGood(m, n)
    OBVIOUS
  <2>1. gcd[n][m] = IF n = 0 THEN m ELSE gcd[m % n][n]
    BY GcdRec
  <2>2. CASE n = 0
    <3>1. m = 1 * m /\ 0 = 0 * m /\ 1 \in Nat /\ 0 \in Nat
      BY SMT
    <3>2. Divides(m, m) /\ Divides(m, 0)
      BY <3>1 DEF Divides
    <3> QED BY <2>1, <2>2, <3>2 DEF GcdGood
  <2>3. CASE n # 0
    <3>1. PICK c \in 0..(n - 1) : \E k \in Nat : c = m % n /\ m = n * k + c
      <4>1. m \div n \in Nat /\ m \in Int /\ n \in Nat \ {0}
        BY SMT, <2>3
      <4> QED BY Zenon, <2>3, <4>1, ModParts
    <3>2. GcdGood(n, c) /\ c \in Nat
      BY <1>1, <3>1
    <3>3. PICK g : g = gcd[c][n] /\ g = gcd[n][m]
      BY <2>1, <2>3, <3>1
    <3>4. g \in Nat /\ Divides(g, n) /\ Divides(g, c) /\ g # 0
      BY <2>3, <3>2, <3>3 DEF GcdGood
    <3>5. Divides(g, m)
      BY Zenon, <3>1, <3>2, <3>4, DividesSum
    <3> QED BY <3>3, <3>4, <3>5 DEF GcdGood
  <2> QED BY <2>2, <2>3
<1> HIDE DEF S
<1>2. \A n \in Nat : n \in S
  BY <1>1, FromBelow
<1> QED BY <1>2 DEF S

LEMMA GcdScale ==
  ASSUME NEW a \in Nat, NEW b \in Nat, NEW k \in Nat \ {0}
  PROVE  gcd[k * b][k * a] = k * gcd[b][a]
<1> DEFINE S == {n \in Nat : \A m \in Nat : gcd[k * n][k * m] = k * gcd[n][m]}
<1>1. ASSUME NEW n \in Nat, \A c \in 0..(n - 1) : c \in S PROVE n \in S
  <2> SUFFICES ASSUME NEW m \in Nat PROVE gcd[k * n][k * m] = k * gcd[n][m]
    OBVIOUS
  <2>1. k * n \in Nat /\ k * m \in Nat /\ (k * n = 0 <=> n = 0)
    BY SMT
  <2>2. gcd[n][m] = IF n = 0 THEN m ELSE gcd[m % n][n]
    BY GcdRec
  <2>3. gcd[k * n][k * m] = IF k * n = 0 THEN k * m ELSE gcd[(k * m) % (k * n)][k * n]
    BY Zenon, <2>1, GcdRec
  <2>4. CASE n = 0
    BY Zenon, <2>1, <2>2, <2>3, <2>4
  <2>5. CASE n # 0
    <3>1. (k * m) % (k * n) = k * (m % n)
      BY Zenon, <2>5, ModScale
    <3>2. m % n \in 0..(n - 1)
      BY <2>5, ModParts
    <3>3. gcd[k * (m % n)][k * n] = k * gcd[m % n][n]
      BY <1>1, <3>2
    <3> QED BY Zenon, <2>1, <2>2, <2>3, <2>5, <3>1, <3>3
  <2> QED BY Zenon, <2>4, <2>5
<1> HIDE DEF S
<1>2. \A n \in Nat : n \in S
  BY <1>1, FromBelow
<1> QED BY <1>2 DEF S

-----------------------------------------------------------------------------
(* Integers: products *)
LEMMA MulInt ==
  ASSUME NEW x \in Int, NEW y \in Int, NEW z \in Int
  PROVE  /\ x * y \in Int /\ x * y = y * x /\ (x * y) * z = x * (y * z)
         /\ x * (y + z) = x * y + x * z /\ x * (y - z) = x * y - x * z
         /\ x * 1 = x /\ 1 * x = x /\ x * 0 = 0 /\ 0 * x = 0
BY SMT

LEMMA MulNat ==
  ASSUME NEW x \in Nat \ {0}, NEW y \in Nat \ {0}
  PROVE  x * y \in Nat \ {0} /\ x \in Int /\ y \in Int
BY SMT

LEMMA MulMonotone ==
  ASSUME NEW x \in Int, NEW y \in Int, NEW k \in Nat \ {0}
  PROVE  (x < y <=> k * x < k * y) /\ (x <= y <=> k * x <= k * y)
         /\ (x = y <=> k * x = k * y)
<1>1. k * (y - x) = k * y - k * x
  BY SMT
<1>2. /\ y - x > 0 => k * (y - x) > 0
      /\ y - x < 0 => k * (y - x) < 0
      /\ y - x = 0 => k * (y - x) = 0
  BY SMT
<1>3. PICK X \in Int, Y \in Int : X = k * x /\ Y = k * y
  BY SMT
<1> QED BY SMT, <1>1, <1>2, <1>3

(* Swapping factors *)
LEMMA MulSwap ==
  ASSUME NEW a \in Int, NEW b \in Int, NEW c \in Int, NEW d \in Int
  PROVE  (a * b) * (c * d) = (a * c) * (b * d)
         /\ (a * b) * (c * d) = (a * d) * (b * c)
BY SMT

-----------------------------------------------------------------------------
(* Fractions *)
LEMMA DivExact ==
  ASSUME NEW n \in Int, NEW g \in Nat \ {0}
  PROVE  (n * g) \div g = n
<1>1. n * g \in Int /\ 0 \in 0..(g - 1) /\ n * g = g * n + 0
  BY SMT
<1> QED BY Zenon, <1>1, ModUnique

LEMMA MagnitudeFacts ==
  ASSUME NEW n \in Int
  PROVE  /\ Magnitude(n) \in Nat
         /\ Magnitude(n) = 0 <=> n = 0
         /\ n >= 0 => n = Magnitude(n)
         /\ n < 0 => n = -Magnitude(n)
BY SMT DEF Magnitude

LEMMA MagnitudeScale ==
  ASSUME NEW n \in Int, NEW k \in Nat \ {0}
  PROVE  Magnitude(k * n) = k * Magnitude(n)
<1>1. n < 0 => k * n < 0 /\ k * (-n) = -(k * n)
  BY SMT
<1>2. n >= 0 => k * n >= 0
  BY SMT
<1> QED BY SMT, <1>1, <1>2 DEF Magnitude

FracParts(n, d, g, N, D) ==
  /\ g = gcd[d][Magnitude(n)]
  /\ n = N * g /\ d = D * g
  /\ Frac(n, d) = [num |-> N, den |-> D]

LEMMA FracReduced ==
  ASSUME NEW n \in Int, NEW d \in Nat \ {0}
  PROVE  \E g \in Nat \ {0}, N \in Int, D \in Nat \ {0} : FracParts(n, d, g, N, D)
<1>1. Magnitude(n) \in Nat /\ Magnitude(d) = d /\ d \in Nat /\ d \in Int /\ ~(d < 0)
  BY SMT DEF Magnitude
<1>2. PICK g : g = gcd[d][Magnitude(n)]
  BY Zenon
<1>3. g \in Nat \ {0} /\ Divides(g, d) /\ Divides(g, Magnitude(n))
  BY <1>1, <1>2, GcdDivides DEF GcdGood
<1>4. PICK D \in Nat : d = D * g
  BY <1>3 DEF Divides
<1>5. D # 0
  BY SMT, <1>3, <1>4
<1>6. PICK N \in Int : n = N * g
  <2>1. PICK q \in Nat : Magnitude(n) = q * g
    BY <1>3 DEF Divides
  <2>2. n = q * g \/ n = -(q * g)
    BY SMT, <1>1, <2>1, MagnitudeFacts
  <2>3. (-q) * g = -(q * g) /\ q \in Int /\ -q \in Int
    BY SMT, <1>3
  <2> QED BY Zenon, <2>2, <2>3
<1>7. (1 * n) \div g = N /\ (1 * d) \div g = D
  <2>1. 1 * n = n /\ 1 * d = d /\ D \in Int
    BY SMT, <1>1
  <2> QED BY Zenon, <1>3, <1>4, <1>6, <2>1, DivExact
<1>8. Frac(n, d) = [num |-> N, den |-> D]
  BY Zenon, <1>1, <1>2, <1>7 DEF Frac
<1> QED BY Zenon, <1>2, <1>3, <1>4, <1>5, <1>6, <1>8 DEF FracParts

LEMMA FracScale ==
  ASSUME NEW n \in Int, NEW d \in Nat \ {0}, NEW k \in Nat \ {0}
  PROVE  Frac(k * n, k * d) = Frac(n, d)
<1>1. PICK g \in Nat \ {0}, N \in Int, D \in Nat \ {0} : FracParts(n, d, g, N, D)
  BY Zenon, FracReduced
<1>2. k * n \in Int /\ k * d \in Nat \ {0}
  BY SMT
<1>3. PICK h \in Nat \ {0}, M \in Int, E \in Nat \ {0} : FracParts(k * n, k * d, h, M, E)
  BY Zenon, <1>2, FracReduced
<1>4. h = k * g
  <2>1. Magnitude(k * n) = k * Magnitude(n) /\ Magnitude(n) \in Nat /\ d \in Nat
    BY MagnitudeScale, MagnitudeFacts
  <2>2. gcd[k * d][k * Magnitude(n)] = k * gcd[d][Magnitude(n)]
    BY Zenon, <2>1, GcdScale
  <2> QED BY Zenon, <1>1, <1>3, <2>1, <2>2 DEF FracParts
<1>5. ASSUME NEW x \in Int, NEW y \in Int, k * (x * g) = y * h PROVE x = y
  <2>1. k * (x * g) = h * x /\ y * h = h * y
    BY SMT, <1>4
  <2> QED BY <1>5, <2>1, MulMonotone
<1>6. N = M /\ D = E
  <2>1. k * (N * g) = M * h /\ k * (D * g) = E * h /\ D \in Int /\ E \in Int
    BY <1>1, <1>3 DEF FracParts
  <2> QED BY Zenon, <1>5, <2>1
<1> QED BY Zenon, <1>1, <1>3, <1>6 DEF FracParts

(* Fractions with the same value are the same. *)
LEMMA FracEq ==
  ASSUME NEW n \in Int, NEW d \in Nat \ {0}, NEW m \in Int, NEW e \in Nat \ {0},
         n * e = m * d
  PROVE  Frac(n, d) = Frac(m, e)
<1>1. Frac(e * n, e * d) = Frac(n, d) /\ Frac(d * m, d * e) = Frac(m, e)
  BY Zenon, FracScale
<1>2. e * n = n * e /\ d * m = m * d /\ e * d = d * e
  BY SMT
<1> QED BY Zenon, <1>1, <1>2

(* x is n / d. *)
Is(x, n, d) ==
  /\ x.num \in Int /\ x.den \in Nat \ {0} /\ x.num * d = n * x.den
  /\ x = Frac(x.num, x.den) /\ x = Frac(n, d) /\ x \in Rat

LEMMA FracIs ==
  ASSUME NEW n \in Int, NEW d \in Nat \ {0}
  PROVE  Is(Frac(n, d), n, d)
<1>1. PICK g \in Nat \ {0}, N \in Int, D \in Nat \ {0} : FracParts(n, d, g, N, D)
  BY Zenon, FracReduced
<1>2. PICK x : x = Frac(n, d)
  BY Zenon
<1>3. x = [num |-> N, den |-> D] /\ n = N * g /\ d = D * g
  BY Zenon, <1>1, <1>2 DEF FracParts
<1>4. x.num = N /\ x.den = D /\ x \in [num : Int, den : Nat \ {0}]
  BY <1>3
<1>5. N * d = n * D
  <2>1. N * (D * g) = (N * g) * D
    BY SMT
  <2> QED BY Zenon, <1>3, <2>1
<1>6. Frac(N, D) = Frac(n, d)
  BY <1>5, FracEq
<1>7. x = Frac(x.num, x.den)
  BY Zenon, <1>2, <1>4, <1>6
<1>8. x \in Rat
  BY Zenon, <1>4, <1>7 DEF Rat
<1> QED BY Zenon, <1>2, <1>4, <1>5, <1>7, <1>8 DEF Is

LEMMA FracWitness ==
  ASSUME NEW n \in Int, NEW d \in Nat \ {0}
  PROVE  \E N \in Int, D \in Nat \ {0} :
           N = Frac(n, d).num /\ D = Frac(n, d).den /\ N * d = n * D
BY Zenon, FracIs DEF Is

LEMMA RatIs ==
  ASSUME NEW x \in Rat
  PROVE  x.num \in Int /\ x.den \in Nat \ {0} /\ x = Frac(x.num, x.den)
BY Zenon DEF Rat

LEMMA QIs ==
  ASSUME NEW n \in Int
  PROVE  Q(n) = Frac(n, 1) /\ Q(n) \in Rat
<1>1. PICK g \in Nat \ {0}, N \in Int, D \in Nat \ {0} : FracParts(n, 1, g, N, D)
  BY 1 \in Nat \ {0}, FracReduced
<1>2. D * g = 1 /\ n = N * g
  BY Zenon, <1>1 DEF FracParts
<1>3. (D >= 2 => D * g >= 2 * g) /\ (g >= 2 => D * g >= 2 * D)
  BY SMT
<1>4. g = 1 /\ D = 1
  BY SMT, <1>2, <1>3
<1>5. N = n
  BY SMT, <1>2, <1>4
<1>6. Frac(n, 1) = [num |-> n, den |-> 1]
  BY Zenon, <1>1, <1>4, <1>5 DEF FracParts
<1>7. Q(n) = Frac(n, 1)
  BY Zenon, <1>6 DEF Q
<1> QED BY <1>7, FracIs DEF Is

LEMMA FracAdd ==
  ASSUME NEW n \in Int, NEW d \in Nat \ {0}, NEW m \in Int, NEW e \in Nat \ {0}
  PROVE  /\ Frac(n, d) ++ Frac(m, e) = Frac(n * e + m * d, d * e)
         /\ Frac(n, d) -- Frac(m, e) = Frac(n * e - m * d, d * e)
<1>1. PICK N \in Int, D \in Nat \ {0} :
        N = Frac(n, d).num /\ D = Frac(n, d).den /\ N * d = n * D
  BY Zenon, FracWitness
<1>2. PICK M \in Int, E \in Nat \ {0} :
        M = Frac(m, e).num /\ E = Frac(m, e).den /\ M * e = m * E
  BY Zenon, FracWitness
<1>3. (N * E) * (d * e) = (n * e) * (D * E)
  <2>1. (N * E) * (d * e) = (N * d) * (E * e)
    BY MulSwap, MulNat
  <2>2. (n * D) * (E * e) = (n * e) * (D * E)
    BY MulSwap, MulNat
  <2> QED BY Zenon, <1>1, <2>1, <2>2
<1>4. (M * D) * (d * e) = (m * d) * (D * E)
  <2>1. (M * D) * (d * e) = (M * e) * (D * d)
    BY MulSwap, MulNat
  <2>2. (m * E) * (D * d) = (m * d) * (D * E)
    BY SMT
  <2> QED BY Zenon, <1>2, <2>1, <2>2
<1>5. PICK A \in Int, B \in Int, C \in Int, F \in Int, S \in Nat \ {0}, T \in Nat \ {0} :
        /\ A = N * E /\ B = M * D /\ C = n * e /\ F = m * d
        /\ S = D * E /\ T = d * e
  <2>1. /\ N * E \in Int /\ M * D \in Int /\ n * e \in Int /\ m * d \in Int
        /\ D * E \in Nat \ {0} /\ d * e \in Nat \ {0}
    BY MulInt, MulNat
  <2> QED BY <2>1
<1>6. A * T = C * S /\ B * T = F * S
  BY Zenon, <1>3, <1>4, <1>5
<1>7. (A + B) * T = (C + F) * S /\ (A - B) * T = (C - F) * S
  <2>1. /\ (A + B) * T = A * T + B * T /\ (A - B) * T = A * T - B * T
        /\ (C + F) * S = C * S + F * S /\ (C - F) * S = C * S - F * S
    BY SMT
  <2> QED BY Zenon, <1>6, <2>1
<1>8. Frac(A + B, S) = Frac(C + F, T) /\ Frac(A - B, S) = Frac(C - F, T)
  <2>1. A + B \in Int /\ A - B \in Int /\ C + F \in Int /\ C - F \in Int
    BY SMT
  <2> QED BY SMT, <1>7, <2>1, FracEq
<1> QED BY Zenon, <1>1, <1>2, <1>5, <1>8 DEF ++, --

LEMMA FracMul ==
  ASSUME NEW n \in Int, NEW d \in Nat \ {0}, NEW m \in Int, NEW e \in Nat \ {0}
  PROVE  Frac(n, d) ** Frac(m, e) = Frac(n * m, d * e)
<1>1. PICK N \in Int, D \in Nat \ {0} :
        N = Frac(n, d).num /\ D = Frac(n, d).den /\ N * d = n * D
  BY Zenon, FracWitness
<1>2. PICK M \in Int, E \in Nat \ {0} :
        M = Frac(m, e).num /\ E = Frac(m, e).den /\ M * e = m * E
  BY Zenon, FracWitness
<1>3. (N * M) * (d * e) = (n * m) * (D * E)
  <2>1. (N * M) * (d * e) = (N * d) * (M * e)
    BY MulSwap, MulNat
  <2>2. (n * D) * (m * E) = (n * m) * (D * E)
    BY MulSwap, MulNat
  <2> QED BY Zenon, <1>1, <1>2, <2>1, <2>2
<1>4. /\ N * M \in Int /\ n * m \in Int
      /\ D * E \in Nat \ {0} /\ d * e \in Nat \ {0}
  BY MulInt, MulNat
<1>5. Frac(N * M, D * E) = Frac(n * m, d * e)
  BY SMT, <1>3, <1>4, FracEq
<1> QED BY Zenon, <1>1, <1>2, <1>5 DEF **

LEMMA FracDiv ==
  ASSUME NEW n \in Int, NEW d \in Nat \ {0}, NEW m \in Nat \ {0}, NEW e \in Nat \ {0}
  PROVE  Frac(n, d) // Frac(m, e) = Frac(n * e, d * m)
<1>1. PICK N \in Int, D \in Nat \ {0} :
        N = Frac(n, d).num /\ D = Frac(n, d).den /\ N * d = n * D
  BY Zenon, FracWitness
<1>2. PICK M \in Int, E \in Nat \ {0} :
        M = Frac(m, e).num /\ E = Frac(m, e).den /\ M * e = m * E
  BY FracWitness, MulNat
<1>3. M \in Nat \ {0}
  <2>1. m * E > 0
    BY SMT
  <2>2. M <= 0 => M * e <= 0
    BY SMT
  <2> QED BY SMT, <1>2, <2>1, <2>2
<1>4. (N * E) * (d * m) = (n * e) * (D * M)
  <2>1. (N * E) * (d * m) = (N * d) * (m * E)
    BY SMT
  <2>2. (n * D) * (M * e) = (n * e) * (D * M)
    BY SMT, <1>3
  <2> QED BY Zenon, <1>1, <1>2, <2>1, <2>2
<1>5. /\ N * E \in Int /\ n * e \in Int
      /\ D * M \in Nat \ {0} /\ d * m \in Nat \ {0}
  BY <1>3, MulInt, MulNat
<1>6. Frac(N * E, D * M) = Frac(n * e, d * m)
  BY SMT, <1>4, <1>5, FracEq
<1> QED BY Zenon, <1>1, <1>2, <1>6 DEF //

LEMMA FracOrder ==
  ASSUME NEW n \in Int, NEW d \in Nat \ {0}, NEW m \in Int, NEW e \in Nat \ {0}
  PROVE  /\ Frac(n, d) \prec Frac(m, e) <=> n * e < m * d
         /\ Frac(n, d) \preceq Frac(m, e) <=> n * e <= m * d
<1>1. PICK N \in Int, D \in Nat \ {0} :
        N = Frac(n, d).num /\ D = Frac(n, d).den /\ N * d = n * D
  BY Zenon, FracWitness
<1>2. PICK M \in Int, E \in Nat \ {0} :
        M = Frac(m, e).num /\ E = Frac(m, e).den /\ M * e = m * E
  BY Zenon, FracWitness
<1>3. PICK S \in Nat \ {0}, T \in Nat \ {0} : S = D * E /\ T = d * e
  BY MulNat
<1>4. PICK A \in Int, B \in Int, C \in Int, F \in Int :
        A = N * E /\ B = M * D /\ C = n * e /\ F = m * d
  BY MulInt, MulNat
<1>5. T * A = S * C
  <2>1. (d * e) * (N * E) = (N * d) * (E * e)
    BY SMT
  <2>2. (n * D) * (E * e) = (D * E) * (n * e)
    BY SMT
  <2> QED BY Zenon, <1>1, <1>3, <1>4, <2>1, <2>2
<1>6. T * B = S * F
  <2>1. (d * e) * (M * D) = (M * e) * (D * d)
    BY SMT
  <2>2. (m * E) * (D * d) = (D * E) * (m * d)
    BY SMT
  <2> QED BY Zenon, <1>2, <1>3, <1>4, <2>1, <2>2
<1>7. (A < B <=> C < F) /\ (A <= B <=> C <= F)
  <2>1. (A < B <=> T * A < T * B) /\ (A <= B <=> T * A <= T * B)
    BY Zenon, MulMonotone
  <2>2. (C < F <=> S * C < S * F) /\ (C <= F <=> S * C <= S * F)
    BY Zenon, MulMonotone
  <2> QED BY Zenon, <1>5, <1>6, <2>1, <2>2
<1> QED BY Zenon, <1>1, <1>2, <1>4, <1>7 DEF \prec, \preceq

-----------------------------------------------------------------------------
(* Over a common denominator, sums and comparisons are those of integers.  *)
LEMMA SameDen ==
  ASSUME NEW a \in Int, NEW b \in Int, NEW d \in Nat \ {0}
  PROVE  /\ Frac(a, d) ++ Frac(b, d) = Frac(a + b, d)
         /\ Frac(a, d) -- Frac(b, d) = Frac(a - b, d)
         /\ Frac(a, d) \prec Frac(b, d) <=> a < b
         /\ Frac(a, d) \preceq Frac(b, d) <=> a <= b
         /\ Frac(a, d) = Frac(b, d) <=> a = b
<1>1. /\ a * d + b * d = d * (a + b) /\ a * d - b * d = d * (a - b)
      /\ a * d = d * a /\ b * d = d * b
      /\ a + b \in Int /\ a - b \in Int
  BY SMT
<1>2. /\ Frac(d * (a + b), d * d) = Frac(a + b, d)
      /\ Frac(d * (a - b), d * d) = Frac(a - b, d)
  BY Zenon, <1>1, FracScale
<1>3. /\ Frac(a, d) \prec Frac(b, d) <=> a < b
      /\ Frac(a, d) \preceq Frac(b, d) <=> a <= b
  <2>1. (a < b <=> d * a < d * b) /\ (a <= b <=> d * a <= d * b)
    BY Zenon, MulMonotone
  <2>2. /\ Frac(a, d) \prec Frac(b, d) <=> a * d < b * d
        /\ Frac(a, d) \preceq Frac(b, d) <=> a * d <= b * d
    BY Zenon, FracOrder
  <2> QED BY Zenon, <1>1, <2>1, <2>2
<1>4. Frac(a, d) = Frac(b, d) <=> a = b
  <2>1. ASSUME Frac(a, d) = Frac(b, d) PROVE a <= b /\ b <= a
    <3>1. Frac(a, d) \preceq Frac(a, d)
      BY FracOrder
    <3>2. Frac(a, d) \preceq Frac(b, d) /\ Frac(b, d) \preceq Frac(a, d)
      BY Zenon, <2>1, <3>1
    <3>3. Frac(b, d) \preceq Frac(a, d) <=> b * d <= a * d
      BY Zenon, FracOrder
    <3>4. b <= a <=> d * b <= d * a
      BY Zenon, MulMonotone
    <3> QED BY Zenon, <1>1, <1>3, <3>2, <3>3, <3>4
  <2> QED BY <2>1
<1>5. /\ Frac(a, d) ++ Frac(b, d) = Frac(a * d + b * d, d * d)
      /\ Frac(a, d) -- Frac(b, d) = Frac(a * d - b * d, d * d)
  BY Zenon, FracAdd
<1> QED BY Zenon, <1>1, <1>2, <1>3, <1>4, <1>5

LEMMA CommonDen ==
  ASSUME NEW x \in Rat, NEW y \in Rat
  PROVE  \E d \in Nat \ {0}, a \in Int, b \in Int : x = Frac(a, d) /\ y = Frac(b, d)
<1>1. PICK n \in Int, d \in Nat \ {0} : x = Frac(n, d)
  BY Zenon, RatIs
<1>1a. PICK m \in Int, e \in Nat \ {0} : y = Frac(m, e)
  BY Zenon, RatIs
<1>2. Frac(e * n, e * d) = x /\ Frac(d * m, d * e) = y
  BY Zenon, <1>1, <1>1a, FracScale
<1>3. e * n \in Int /\ d * m \in Int /\ e * d \in Nat \ {0} /\ e * d = d * e
  BY SMT
<1> QED BY Zenon, <1>2, <1>3

Over(d, x, a, y, b, z, c) == x = Frac(a, d) /\ y = Frac(b, d) /\ z = Frac(c, d)

LEMMA CommonDen3 ==
  ASSUME NEW x \in Rat, NEW y \in Rat, NEW z \in Rat
  PROVE  \E d \in Nat \ {0}, a \in Int, b \in Int, c \in Int : Over(d, x, a, y, b, z, c)
<1>1. PICK d \in Nat \ {0}, a \in Int, b \in Int : x = Frac(a, d) /\ y = Frac(b, d)
  BY CommonDen
<1>2. PICK c \in Int, e \in Nat \ {0} : z = Frac(c, e)
  BY Zenon, RatIs
<1>3. Frac(e * a, e * d) = x /\ Frac(e * b, e * d) = y /\ Frac(d * c, d * e) = z
  BY Zenon, <1>1, <1>2, FracScale
<1>4. /\ e * a \in Int /\ e * b \in Int /\ d * c \in Int
      /\ e * d \in Nat \ {0} /\ e * d = d * e
  BY SMT
<1> QED BY Zenon, <1>3, <1>4 DEF Over

LEMMA FracRat ==
  ASSUME NEW n \in Int, NEW d \in Nat \ {0}
  PROVE  Frac(n, d) \in Rat
BY Zenon, FracIs DEF Is

LEMMA ZeroOne ==
  /\ Q(0) \in Rat /\ Q(1) \in Rat
  /\ \A d \in Nat \ {0} : Q(0) = Frac(0, d) /\ Q(1) = Frac(d, d)
  /\ Q(0) \prec Q(1)
<1>1. Q(0) \in Rat /\ Q(1) \in Rat /\ Q(0) = Frac(0, 1) /\ Q(1) = Frac(1, 1)
  BY QIs
<1>2. ASSUME NEW d \in Nat \ {0} PROVE Q(0) = Frac(0, d) /\ Q(1) = Frac(d, d)
  <2>1. /\ 0 \in Int /\ 1 \in Int /\ d \in Int /\ 1 \in Nat \ {0}
        /\ 0 * d = 0 * 1 /\ 1 * d = d * 1
    BY SMT
  <2> QED BY SMT, <1>1, <2>1, FracEq
<1>3. Q(0) \prec Q(1)
  BY DEF Q, \prec
<1> QED BY <1>1, <1>2, <1>3

LEMMA Positive ==
  ASSUME NEW x \in Rat, Q(0) \prec x
  PROVE  \E n \in Nat \ {0}, d \in Nat \ {0} : x = Frac(n, d)
<1>1. x.num \in Int /\ x.den \in Nat \ {0} /\ x = Frac(x.num, x.den)
  BY RatIs
<1>2. 0 * x.den < x.num * 1
  BY DEF Q, \prec
<1>3. x.num \in Nat \ {0}
  BY SMT, <1>1, <1>2
<1> QED BY Zenon, <1>1, <1>3

LEMMA PositiveFrac ==
  ASSUME NEW n \in Nat \ {0}, NEW d \in Nat \ {0}
  PROVE  Frac(n, d) \in Rat /\ Q(0) \prec Frac(n, d)
<1>1. Q(0) = Frac(0, d) /\ 0 < n /\ n \in Int /\ 0 \in Int
  BY ZeroOne
<1>2. Frac(0, d) \prec Frac(n, d) <=> 0 < n
  BY Zenon, <1>1, SameDen
<1>3. Frac(n, d) \in Rat
  BY Zenon, <1>1, FracRat
<1> QED BY Zenon, <1>1, <1>2, <1>3

-----------------------------------------------------------------------------
(* The laws of arithmetic *)
LEMMA RatSums ==
  ASSUME NEW x \in Rat, NEW y \in Rat
  PROVE  /\ x ++ y \in Rat /\ x -- y \in Rat
         /\ x ++ y = y ++ x
         /\ x ++ Q(0) = x /\ x -- Q(0) = x /\ x -- x = Q(0)
         /\ (x ++ y) -- y = x /\ (x -- y) ++ y = x
<1>1. PICK d \in Nat \ {0}, a \in Int, b \in Int : x = Frac(a, d) /\ y = Frac(b, d)
  BY CommonDen
<1>2. Q(0) = Frac(0, d)
  BY ZeroOne
<1>3. /\ 0 \in Int /\ a + b \in Int /\ a - b \in Int /\ a + b = b + a
      /\ a + 0 = a /\ a - 0 = a /\ a - a = 0 /\ (a + b) - b = a /\ (a - b) + b = a
  BY SMT
<1>4. /\ x ++ y = Frac(a + b, d) /\ y ++ x = Frac(b + a, d)
      /\ x -- y = Frac(a - b, d) /\ x -- x = Frac(a - a, d)
      /\ x ++ Q(0) = Frac(a + 0, d) /\ x -- Q(0) = Frac(a - 0, d)
  BY SMT, <1>1, <1>2, <1>3, SameDen
<1>5. (x ++ y) -- y = Frac((a + b) - b, d) /\ (x -- y) ++ y = Frac((a - b) + b, d)
  BY SMTT(20), <1>1, <1>3, <1>4, SameDen
<1> QED BY Zenon, <1>1, <1>2, <1>3, <1>4, <1>5, FracRat

LEMMA RatSums3 ==
  ASSUME NEW x \in Rat, NEW y \in Rat, NEW z \in Rat
  PROVE  /\ (x ++ y) ++ z = x ++ (y ++ z)
         /\ (x ++ y) -- z = x ++ (y -- z)
         /\ (x ++ y) -- z = (x -- z) ++ y
         /\ x -- (y ++ z) = (x -- y) -- z
         /\ x -- (y -- z) = (x -- y) ++ z
         /\ (x ++ z) -- (y ++ z) = x -- y
<1>1. PICK d \in Nat \ {0}, a \in Int, b \in Int, c \in Int : Over(d, x, a, y, b, z, c)
  BY Zenon, CommonDen3
<1> DEFINE F(n) == Frac(n, d)
<1>0. \A m, n \in Int : F(m) ++ F(n) = F(m + n) /\ F(m) -- F(n) = F(m - n)
  BY SameDen
<1>2. /\ a + b \in Int /\ b + c \in Int /\ b - c \in Int /\ a - c \in Int
      /\ a - b \in Int /\ a + c \in Int
  BY SMT
<1> HIDE DEF F
<1>3. /\ F(a) ++ F(b) = F(a + b) /\ F(b) ++ F(c) = F(b + c) /\ F(b) -- F(c) = F(b - c)
      /\ F(a) -- F(c) = F(a - c) /\ F(a) -- F(b) = F(a - b) /\ F(a) ++ F(c) = F(a + c)
  BY SMT, <1>0
<1>4. /\ F(a + b) ++ F(c) = F((a + b) + c) /\ F(a) ++ F(b + c) = F(a + (b + c))
      /\ F(a + b) -- F(c) = F((a + b) - c) /\ F(a) ++ F(b - c) = F(a + (b - c))
      /\ F(a - c) ++ F(b) = F((a - c) + b)
      /\ F(a) -- F(b + c) = F(a - (b + c)) /\ F(a - b) -- F(c) = F((a - b) - c)
      /\ F(a) -- F(b - c) = F(a - (b - c)) /\ F(a - b) ++ F(c) = F((a - b) + c)
      /\ F(a + c) -- F(b + c) = F((a + c) - (b + c))
  BY SMT, <1>0, <1>2
<1>5. /\ (a + b) + c = a + (b + c) /\ (a + b) - c = a + (b - c)
      /\ (a + b) - c = (a - c) + b /\ a - (b + c) = (a - b) - c
      /\ a - (b - c) = (a - b) + c /\ (a + c) - (b + c) = a - b
  BY SMT
<1>6. x = F(a) /\ y = F(b) /\ z = F(c)
  BY Zenon, <1>1 DEF Over, F
<1> QED BY SMT, <1>3, <1>4, <1>5, <1>6

LEMMA RatProducts ==
  ASSUME NEW x \in Rat, NEW y \in Rat
  PROVE  /\ x ** y \in Rat /\ x ** y = y ** x
         /\ x ** Q(1) = x /\ Q(1) ** x = x
         /\ x ** Q(0) = Q(0) /\ Q(0) ** x = Q(0)
<1>1. PICK d \in Nat \ {0}, a \in Int, b \in Int : x = Frac(a, d) /\ y = Frac(b, d)
  BY CommonDen
<1>2. /\ Q(0) = Frac(0, 1) /\ Q(1) = Frac(1, 1) /\ Q(0) = Frac(0, d)
      /\ 0 \in Int /\ 1 \in Int /\ 1 \in Nat \ {0}
  BY ZeroOne, QIs
<1>3. /\ x ** y = Frac(a * b, d * d) /\ y ** x = Frac(b * a, d * d)
      /\ x ** Q(1) = Frac(a * 1, d * 1) /\ Q(1) ** x = Frac(1 * a, 1 * d)
      /\ x ** Q(0) = Frac(a * 0, d * 1) /\ Q(0) ** x = Frac(0 * a, 1 * d)
  BY SMT, <1>1, <1>2, FracMul
<1>4. /\ a * b \in Int /\ a * b = b * a /\ d * d \in Nat \ {0}
      /\ a * 1 = a /\ 1 * a = a /\ a * 0 = 0 /\ 0 * a = 0 /\ d * 1 = d /\ 1 * d = d
  BY SMT
<1> QED BY Zenon, <1>1, <1>2, <1>3, <1>4, FracRat

LEMMA RatProducts3 ==
  ASSUME NEW x \in Rat, NEW y \in Rat, NEW z \in Rat
  PROVE  /\ (x ** y) ** z = x ** (y ** z)
         /\ x ** (y ++ z) = (x ** y) ++ (x ** z)
         /\ x ** (y -- z) = (x ** y) -- (x ** z)
         /\ (y ++ z) ** x = (y ** x) ++ (z ** x)
         /\ (y -- z) ** x = (y ** x) -- (z ** x)
<1>1. PICK d \in Nat \ {0}, a \in Int, b \in Int, c \in Int : Over(d, x, a, y, b, z, c)
  BY Zenon, CommonDen3
<1>0. \A m, n \in Int : \A e, f \in Nat \ {0} :
        Frac(m, e) ** Frac(n, f) = Frac(m * n, e * f)
  BY FracMul
<1>1a. \A m, n \in Int : \A e \in Nat \ {0} :
         Frac(m, e) ++ Frac(n, e) = Frac(m + n, e) /\ Frac(m, e) -- Frac(n, e) = Frac(m - n, e)
  BY SameDen
<1>2. /\ a * b \in Int /\ b * c \in Int /\ a * c \in Int /\ b + c \in Int /\ b - c \in Int
      /\ d * d \in Nat \ {0}
  BY SMT
<1>3. /\ Frac(a, d) ** Frac(b, d) = Frac(a * b, d * d)
      /\ Frac(b, d) ** Frac(c, d) = Frac(b * c, d * d)
      /\ Frac(a, d) ** Frac(c, d) = Frac(a * c, d * d)
  BY ZenonT(40), <1>0
<1>4. /\ Frac(a * b, d * d) ** Frac(c, d) = Frac((a * b) * c, (d * d) * d)
      /\ Frac(a, d) ** Frac(b * c, d * d) = Frac(a * (b * c), d * (d * d))
      /\ Frac(a, d) ** Frac(b + c, d) = Frac(a * (b + c), d * d)
      /\ Frac(a, d) ** Frac(b - c, d) = Frac(a * (b - c), d * d)
  <2>1. Frac(a * b, d * d) ** Frac(c, d) = Frac((a * b) * c, (d * d) * d)
    BY SMT, <1>0, <1>2
  <2>2. Frac(a, d) ** Frac(b * c, d * d) = Frac(a * (b * c), d * (d * d))
    BY SMT, <1>0, <1>2
  <2>3. Frac(a, d) ** Frac(b + c, d) = Frac(a * (b + c), d * d)
    BY SMT, <1>0, <1>2
  <2>4. Frac(a, d) ** Frac(b - c, d) = Frac(a * (b - c), d * d)
    BY SMT, <1>0, <1>2
  <2> QED BY Zenon, <2>1, <2>2, <2>3, <2>4
<1>4a. /\ Frac(b, d) ++ Frac(c, d) = Frac(b + c, d)
       /\ Frac(b, d) -- Frac(c, d) = Frac(b - c, d)
  BY Zenon, <1>1a
<1>4b. /\ Frac(a * b, d * d) ++ Frac(a * c, d * d) = Frac(a * b + a * c, d * d)
       /\ Frac(a * b, d * d) -- Frac(a * c, d * d) = Frac(a * b - a * c, d * d)
  BY ZenonT(40), <1>1a, <1>2
<1>5. /\ (a * b) * c = a * (b * c) /\ (d * d) * d = d * (d * d)
      /\ a * (b + c) = a * b + a * c /\ a * (b - c) = a * b - a * c
  BY SMT
<1>6. x = Frac(a, d) /\ y = Frac(b, d) /\ z = Frac(c, d)
  BY Zenon, <1>1 DEF Over
<1>7. /\ (x ** y) ** z = x ** (y ** z)
      /\ x ** (y ++ z) = (x ** y) ++ (x ** z)
      /\ x ** (y -- z) = (x ** y) -- (x ** z)
  BY SMT, <1>3, <1>4, <1>4a, <1>4b, <1>5, <1>6
<1>8. /\ y ++ z \in Rat /\ y -- z \in Rat /\ x ** y = y ** x /\ x ** z = z ** x
  BY Zenon, RatSums, RatProducts
<1>9. (y ++ z) ** x = x ** (y ++ z) /\ (y -- z) ** x = x ** (y -- z)
  BY Zenon, <1>8, RatProducts
<1> QED BY SMT, <1>7, <1>8, <1>9

LEMMA RatOrder ==
  ASSUME NEW x \in Rat, NEW y \in Rat
  PROVE  /\ x \prec y <=> ~(y \preceq x)
         /\ x \preceq y <=> x \prec y \/ x = y
         /\ x \preceq y /\ y \preceq x => x = y
         /\ x \preceq x /\ ~(x \prec x)
         /\ x \preceq y <=> Q(0) \preceq y -- x
         /\ x \prec y <=> Q(0) \prec y -- x
<1>1. PICK d \in Nat \ {0}, a \in Int, b \in Int : x = Frac(a, d) /\ y = Frac(b, d)
  BY CommonDen
<1>2. /\ x \prec y <=> a < b
      /\ x \preceq y <=> a <= b
      /\ y \preceq x <=> b <= a
      /\ x = y <=> a = b
      /\ x \preceq x <=> a <= a
      /\ x \prec x <=> a < a
  BY Zenon, <1>1, SameDen
<1>2a. y -- x = Frac(b - a, d)
  BY SMT, <1>1, SameDen
<1>3. /\ Q(0) \preceq y -- x <=> 0 <= b - a
      /\ Q(0) \prec y -- x <=> 0 < b - a
  <2>1. Q(0) = Frac(0, d) /\ 0 \in Int /\ b - a \in Int
    BY ZeroOne
  <2>2. /\ Frac(0, d) \preceq Frac(b - a, d) <=> 0 <= b - a
        /\ Frac(0, d) \prec Frac(b - a, d) <=> 0 < b - a
    BY Zenon, <2>1, SameDen
  <2> QED BY Zenon, <1>2a, <2>1, <2>2
<1> QED BY SMT, <1>2, <1>3

LEMMA RatTransitive ==
  ASSUME NEW x \in Rat, NEW y \in Rat, NEW z \in Rat
  PROVE  /\ x \preceq y /\ y \preceq z => x \preceq z
         /\ x \prec y /\ y \preceq z => x \prec z
         /\ x \preceq y /\ y \prec z => x \prec z
         /\ x \preceq y <=> x ++ z \preceq y ++ z
         /\ x \prec y <=> x ++ z \prec y ++ z
         /\ x \preceq y <=> x -- z \preceq y -- z
         /\ x \preceq y <=> z -- y \preceq z -- x
<1>1. PICK d \in Nat \ {0}, a \in Int, b \in Int, c \in Int : Over(d, x, a, y, b, z, c)
  BY Zenon, CommonDen3
<1> DEFINE F(n) == Frac(n, d)
<1>2. x = F(a) /\ y = F(b) /\ z = F(c)
  BY Zenon, <1>1 DEF Over
<1>3. \A m, n \in Int : /\ F(m) ++ F(n) = F(m + n) /\ F(m) -- F(n) = F(m - n)
                        /\ F(m) \prec F(n) <=> m < n
                        /\ F(m) \preceq F(n) <=> m <= n
  BY SameDen
<1> HIDE DEF F
<1>4. /\ a + c \in Int /\ b + c \in Int /\ a - c \in Int /\ b - c \in Int
      /\ c - a \in Int /\ c - b \in Int
  BY SMT
<1>5. /\ x \preceq y <=> a <= b
      /\ y \preceq z <=> b <= c
      /\ x \preceq z <=> a <= c
      /\ x \prec y <=> a < b
      /\ y \prec z <=> b < c
      /\ x \prec z <=> a < c
  BY Zenon, <1>2, <1>3
<1>6. /\ x ++ z = F(a + c) /\ y ++ z = F(b + c) /\ x -- z = F(a - c) /\ y -- z = F(b - c)
      /\ z -- y = F(c - b) /\ z -- x = F(c - a)
  BY SMT, <1>2, <1>3
<1>7. /\ x ++ z \preceq y ++ z <=> a + c <= b + c
      /\ x ++ z \prec y ++ z <=> a + c < b + c
      /\ x -- z \preceq y -- z <=> a - c <= b - c
      /\ z -- y \preceq z -- x <=> c - b <= c - a
  <2>1. /\ F(a + c) \preceq F(b + c) <=> a + c <= b + c
        /\ F(a + c) \prec F(b + c) <=> a + c < b + c
    BY Zenon, <1>3, <1>4
  <2>2. F(a - c) \preceq F(b - c) <=> a - c <= b - c
    BY Zenon, <1>3, <1>4
  <2>3. F(c - b) \preceq F(c - a) <=> c - b <= c - a
    BY Zenon, <1>3, <1>4
  <2> QED BY Zenon, <1>6, <2>1, <2>2, <2>3
<1> QED BY SMT, <1>5, <1>7

LEMMA RatScaled ==
  ASSUME NEW x \in Rat, NEW y \in Rat, NEW z \in Rat, Q(0) \prec z
  PROVE  /\ x \prec y <=> x ** z \prec y ** z
         /\ x \preceq y <=> x ** z \preceq y ** z
<1>1. PICK d \in Nat \ {0}, a \in Int, b \in Int : x = Frac(a, d) /\ y = Frac(b, d)
  BY CommonDen
<1>2. PICK n \in Nat \ {0}, e \in Nat \ {0} : z = Frac(n, e)
  BY Positive
<1>3. n \in Int /\ a * n \in Int /\ b * n \in Int /\ d * e \in Nat \ {0}
      /\ a * n = n * a /\ b * n = n * b
  BY SMT
<1>4. x ** z = Frac(a * n, d * e) /\ y ** z = Frac(b * n, d * e)
  BY SMT, <1>1, <1>2, <1>3, FracMul
<1>5. /\ Frac(a * n, d * e) \prec Frac(b * n, d * e) <=> a * n < b * n
      /\ Frac(a * n, d * e) \preceq Frac(b * n, d * e) <=> a * n <= b * n
  BY Zenon, <1>3, SameDen
<1>6. (a < b <=> n * a < n * b) /\ (a <= b <=> n * a <= n * b)
  BY Zenon, MulMonotone
<1>7. (x \prec y <=> a < b) /\ (x \preceq y <=> a <= b)
  BY Zenon, <1>1, SameDen
<1> QED BY Zenon, <1>3, <1>4, <1>5, <1>6, <1>7

LEMMA RatQuotients ==
  ASSUME NEW x \in Rat, NEW y \in Rat, Q(0) \prec y
  PROVE  /\ x // y \in Rat /\ (x // y) ** y = x /\ (x ** y) // y = x
         /\ x // Q(1) = x
<1>1. PICK n \in Int, d \in Nat \ {0} : x = Frac(n, d)
  BY Zenon, RatIs
<1>2. PICK m \in Nat \ {0}, e \in Nat \ {0} : y = Frac(m, e)
  BY Positive
<1>3. /\ n * e \in Int /\ n * m \in Int /\ m \in Int /\ e \in Int
      /\ d * m \in Nat \ {0} /\ d * e \in Nat \ {0}
      /\ (d * m) * e \in Nat \ {0} /\ (d * e) * m \in Nat \ {0}
      /\ (n * e) * m \in Int /\ (n * m) * e \in Int
  BY MulInt, MulNat
<1>4. x // y = Frac(n * e, d * m) /\ x ** y = Frac(n * m, d * e)
  BY SMT, <1>1, <1>2, <1>3, FracDiv, FracMul
<1>5. Frac(n * e, d * m) ** y = Frac((n * e) * m, (d * m) * e)
  BY SMT, <1>2, <1>3, FracMul
<1>6. Frac(n * m, d * e) // y = Frac((n * m) * e, (d * e) * m)
  BY SMT, <1>2, <1>3, FracDiv
<1>7. ((n * e) * m) * d = n * ((d * m) * e) /\ ((n * m) * e) * d = n * ((d * e) * m)
  BY SMT
<1>8. Frac((n * e) * m, (d * m) * e) = x
  BY SMT, <1>1, <1>3, <1>7, FracEq
<1>9. Frac((n * m) * e, (d * e) * m) = x
  BY SMT, <1>1, <1>3, <1>7, FracEq
<1>10. x // Q(1) = x
  <2>1. Q(1) = Frac(1, 1) /\ 1 \in Nat \ {0} /\ n * 1 = n /\ d * 1 = d
    BY QIs
  <2>2. Frac(n, d) // Frac(1, 1) = Frac(n * 1, d * 1)
    BY Zenon, <2>1, FracDiv
  <2> QED BY SMT, <1>1, <2>1, <2>2
<1> QED BY SMT, <1>3, <1>4, <1>5, <1>6, <1>8, <1>9, <1>10, FracRat

LEMMA QOrder ==
  ASSUME NEW m \in Int, NEW n \in Int
  PROVE  /\ Q(m) \in Rat /\ (Q(m) \prec Q(n) <=> m < n) /\ (Q(m) \preceq Q(n) <=> m <= n)
         /\ Q(m) ++ Q(n) = Q(m + n) /\ Q(m) -- Q(n) = Q(m - n)
<1>1. /\ Q(m) = Frac(m, 1) /\ Q(n) = Frac(n, 1) /\ Q(m) \in Rat /\ 1 \in Nat \ {0}
      /\ Q(m + n) = Frac(m + n, 1) /\ Q(m - n) = Frac(m - n, 1)
  BY QIs
<1>2. /\ Frac(m, 1) \prec Frac(n, 1) <=> m < n
      /\ Frac(m, 1) \preceq Frac(n, 1) <=> m <= n
      /\ Frac(m, 1) ++ Frac(n, 1) = Frac(m + n, 1)
      /\ Frac(m, 1) -- Frac(n, 1) = Frac(m - n, 1)
  BY ZenonT(40), <1>1, SameDen
<1> QED BY Zenon, <1>1, <1>2

LEMMA PositiveClosed ==
  ASSUME NEW x \in Rat, NEW y \in Rat, Q(0) \prec x, Q(0) \prec y
  PROVE  /\ x ** y \in Rat /\ Q(0) \prec x ** y
         /\ x // y \in Rat /\ Q(0) \prec x // y
<1>1. Q(0) \in Rat /\ Q(0) ** y = Q(0) /\ x ** y \in Rat
  BY Zenon, ZeroOne, RatProducts
<1>2. x // y \in Rat /\ (x // y) ** y = x
  BY Zenon, RatQuotients
<1>3. Q(0) ** y \prec x ** y
  BY Zenon, <1>1, RatScaled
<1>4. Q(0) \prec x // y <=> Q(0) ** y \prec (x // y) ** y
  BY Zenon, <1>1, <1>2, RatScaled
<1> QED BY Zenon, <1>1, <1>2, <1>3, <1>4

(* A quotient is the only solution of its equation. *)
LEMMA RatSolve ==
  ASSUME NEW x \in Rat, NEW y \in Rat, NEW z \in Rat, Q(0) \prec y, z ** y = x
  PROVE  z = x // y
<1>1. (z ** y) // y = z
  BY Zenon, RatQuotients
<1> QED BY Zenon, <1>1

LEMMA RatTelescope ==
  ASSUME NEW e \in Rat, NEW p \in Rat, NEW q \in Rat, Q(0) \prec e, Q(0) \prec p
  PROVE  (p // e) ** (q // p) = q // e
<1>1. /\ p // e \in Rat /\ (p // e) ** e = p
      /\ q // p \in Rat /\ (q // p) ** p = q
  BY Zenon, RatQuotients
<1>2. PICK u \in Rat, v \in Rat : u = p // e /\ v = q // p
  BY Zenon, <1>1
<1>3. u ** e = p /\ v ** p = q
  BY Zenon, <1>1, <1>2
<1>4. u ** v = v ** u /\ (v ** u) ** e = v ** (u ** e) /\ u ** v \in Rat
  <2>1. u ** v = v ** u /\ u ** v \in Rat
    BY Zenon, RatProducts
  <2>2. (v ** u) ** e = v ** (u ** e)
    BY SMT, RatProducts3
  <2> QED BY Zenon, <2>1, <2>2
<1>5. (u ** v) ** e = q
  BY Zenon, <1>3, <1>4
<1>6. u ** v = q // e
  BY Zenon, <1>4, <1>5, RatSolve
<1> QED BY Zenon, <1>2, <1>6

(* The loss from a peak p to e: it grows with the peak. *)
LEMMA LossIs ==
  ASSUME NEW p \in Rat, NEW e \in Rat, Q(0) \prec p
  PROVE  (p -- e) // p \in Rat /\ (p -- e) // p = Q(1) -- (e // p)
<1>1. p -- e \in Rat /\ Q(1) \in Rat
  BY Zenon, RatSums, ZeroOne
<1>2. PICK u \in Rat : u = e // p /\ u ** p = e
  BY Zenon, RatQuotients
<1>3. Q(1) -- u \in Rat /\ (Q(1) -- u) ** p = (Q(1) ** p) -- (u ** p) /\ Q(1) ** p = p
  <2>1. Q(1) -- u \in Rat /\ Q(1) ** p = p
    BY Zenon, <1>1, RatSums, RatProducts
  <2>2. (Q(1) -- u) ** p = (Q(1) ** p) -- (u ** p)
    BY SMT, <1>1, RatProducts3
  <2> QED BY Zenon, <2>1, <2>2
<1>4. (Q(1) -- u) ** p = p -- e
  BY Zenon, <1>2, <1>3
<1>5. Q(1) -- u = (p -- e) // p
  BY Zenon, <1>1, <1>3, <1>4, RatSolve
<1> QED BY Zenon, <1>2, <1>3, <1>5

LEMMA LossMonotone ==
  ASSUME NEW p \in Rat, NEW q \in Rat, NEW e \in Rat,
         Q(0) \prec p, Q(0) \prec e, p \preceq q
  PROVE  (p -- e) // p \preceq (q -- e) // q
<1>1. Q(0) \in Rat /\ Q(1) \in Rat
  BY ZeroOne
<1>2. Q(0) \prec q
  BY Zenon, <1>1, RatTransitive
<1>3. PICK u \in Rat : u = e // p /\ u ** p = e /\ Q(0) \prec u
  BY Zenon, RatQuotients, PositiveClosed
<1>4. PICK v \in Rat : v = e // q /\ v ** q = e
  BY Zenon, <1>2, RatQuotients
<1>5. u ** p \preceq u ** q
  <2>1. p ** u = u ** p /\ q ** u = u ** q
    BY Zenon, RatProducts
  <2>2. p ** u \preceq q ** u
    BY Zenon, <1>3, RatScaled
  <2> QED BY Zenon, <2>1, <2>2
<1>6. v ** q \preceq u ** q
  BY Zenon, <1>3, <1>4, <1>5
<1>7. v \preceq u
  BY Zenon, <1>2, <1>6, RatScaled
<1>8. Q(1) -- u \preceq Q(1) -- v
  BY SMT, <1>1, <1>7, RatTransitive
<1>9. (p -- e) // p = Q(1) -- u /\ (q -- e) // q = Q(1) -- v
  BY Zenon, <1>2, <1>3, <1>4, LossIs
<1> QED BY Zenon, <1>8, <1>9

-----------------------------------------------------------------------------
(* Inequalities *)
LEMMA RatAdds ==
  ASSUME NEW x \in Rat, NEW y \in Rat, NEW u \in Rat, NEW v \in Rat,
         x \preceq y, u \preceq v
  PROVE  x ++ u \in Rat /\ y ++ v \in Rat /\ x ++ u \preceq y ++ v
<1>1. x ++ u \in Rat /\ y ++ u \in Rat /\ y ++ v \in Rat
  BY Zenon, RatSums
<1>2. x ++ u \preceq y ++ u
  BY Zenon, RatTransitive
<1>3. u ++ y \preceq v ++ y
  BY Zenon, RatTransitive
<1>4. u ++ y = y ++ u /\ v ++ y = y ++ v
  BY Zenon, RatSums
<1>5. y ++ u \preceq y ++ v
  BY Zenon, <1>3, <1>4
<1>6. PICK l \in Rat, m \in Rat, h \in Rat : l = x ++ u /\ m = y ++ u /\ h = y ++ v
  BY Zenon, <1>1
<1>7. l \preceq m /\ m \preceq h
  BY Zenon, <1>2, <1>5, <1>6
<1>8. l \preceq h
  BY Zenon, <1>7, RatTransitive
<1> QED BY Zenon, <1>1, <1>6, <1>8

LEMMA RatGrown ==
  ASSUME NEW x \in Rat, NEW y \in Rat, NEW z \in Rat, Q(0) \preceq z, x \preceq y
  PROVE  x ** z \preceq y ** z
<1>1. Q(0) \in Rat
  BY ZeroOne
<1>2. CASE Q(0) \prec z
  BY Zenon, <1>2, RatScaled
<1>3. CASE Q(0) = z
  <2>1. x ** z = Q(0) /\ y ** z = Q(0)
    BY Zenon, <1>3, RatProducts
  <2>2. Q(0) \preceq Q(0)
    BY Zenon, <1>1, RatOrder
  <2> QED BY Zenon, <2>1, <2>2
<1> QED BY Zenon, <1>1, <1>2, <1>3, RatOrder

(* A weighted mean of two numbers is not below the smaller one and not     *)
(* above the larger one.                                                   *)
LEMMA RatConvex ==
  ASSUME NEW x \in Rat, NEW v \in Rat, NEW k \in Rat, NEW b \in Rat,
         Q(0) \preceq k, k \preceq Q(1)
  PROVE  /\ (v ** k) ++ (x ** (Q(1) -- k)) \in Rat
         /\ b \preceq x /\ b \preceq v => b \preceq (v ** k) ++ (x ** (Q(1) -- k))
         /\ x \preceq b /\ v \preceq b => (v ** k) ++ (x ** (Q(1) -- k)) \preceq b
<1>1. Q(0) \in Rat /\ Q(1) \in Rat
  BY ZeroOne
<1>2. PICK l \in Rat : l = Q(1) -- k
  BY Zenon, <1>1, RatSums
<1>3. Q(0) \preceq l
  <2>1. k \preceq Q(1) <=> Q(0) \preceq Q(1) -- k
    BY ZenonT(40), <1>1, RatOrder
  <2> QED BY Zenon, <1>2, <2>1
<1>4. k ++ l = Q(1)
  <2>1. l ++ k = Q(1)
    BY Zenon, <1>1, <1>2, RatSums
  <2> QED BY Zenon, <2>1, RatSums
<1>5. (b ** k) ++ (b ** l) = b
  <2>1. b ** (k ++ l) = (b ** k) ++ (b ** l)
    BY SMT, RatProducts3
  <2>2. b ** Q(1) = b
    BY Zenon, RatProducts
  <2> QED BY Zenon, <1>4, <2>1, <2>2
<1>6. v ** k \in Rat /\ x ** l \in Rat /\ b ** k \in Rat /\ b ** l \in Rat
  BY Zenon, RatProducts
<1>7. ASSUME b \preceq x, b \preceq v PROVE b \preceq (v ** k) ++ (x ** l)
  <2>1. b ** k \preceq v ** k /\ b ** l \preceq x ** l
    BY Zenon, <1>3, <1>7, RatGrown
  <2>2. PICK p \in Rat, q \in Rat, r \in Rat, t \in Rat :
          p = v ** k /\ q = x ** l /\ r = b ** k /\ t = b ** l
    BY Zenon, <1>6
  <2>3. r ++ t \preceq p ++ q
    BY Zenon, <2>1, <2>2, RatAdds
  <2> QED BY Zenon, <1>5, <2>2, <2>3
<1>8. ASSUME x \preceq b, v \preceq b PROVE (v ** k) ++ (x ** l) \preceq b
  <2>1. v ** k \preceq b ** k /\ x ** l \preceq b ** l
    BY Zenon, <1>3, <1>8, RatGrown
  <2>2. PICK p \in Rat, q \in Rat, r \in Rat, t \in Rat :
          p = v ** k /\ q = x ** l /\ r = b ** k /\ t = b ** l
    BY Zenon, <1>6
  <2>3. p ++ q \preceq r ++ t
    BY Zenon, <2>1, <2>2, RatAdds
  <2> QED BY Zenon, <1>5, <2>2, <2>3
<1> QED BY Zenon, <1>2, <1>6, <1>7, <1>8, RatSums

(* A square lies above each of its tangents. *)
LEMMA RatTangent ==
  ASSUME NEW x \in Rat, NEW c \in Rat
  PROVE  ((c ++ c) ** x) -- (c ** c) \preceq x ** x
<1>1. PICK d \in Nat \ {0}, a \in Int, b \in Int : x = Frac(a, d) /\ c = Frac(b, d)
  BY CommonDen
<1>2. PICK e \in Nat \ {0}, s \in Int, p \in Int, q \in Int, r \in Int :
        e = d * d /\ s = b + b /\ p = s * a /\ q = b * b /\ r = a * a
  BY SMT
<1>3. c ++ c = Frac(s, d)
  BY SMT, <1>1, <1>2, SameDen
<1>4. (c ++ c) ** x = Frac(p, e)
  BY SMT, <1>1, <1>2, <1>3, FracMul
<1>5. c ** c = Frac(q, e) /\ x ** x = Frac(r, e)
  BY SMT, <1>1, <1>2, FracMul
<1>6. ((c ++ c) ** x) -- (c ** c) = Frac(p - q, e)
  BY SMT, <1>4, <1>5, SameDen
<1>7. p - q \in Int /\ p - q <= r
  <2>1. PICK t \in Int : t = a - b
    BY SMT
  <2>2. t * t >= 0
    BY SMT
  <2>3. t * t = r - p + q
    BY SMT, <1>2, <2>1
  <2> QED BY SMT, <2>2, <2>3
<1>8. Frac(p - q, e) \preceq Frac(r, e)
  BY Zenon, <1>7, SameDen
<1> QED BY Zenon, <1>5, <1>6, <1>8

LEMMA RatSquareSwap ==
  ASSUME NEW x \in Rat, NEW y \in Rat
  PROVE  (x -- y) ** (x -- y) = (y -- x) ** (y -- x)
<1>1. PICK d \in Nat \ {0}, a \in Int, b \in Int : x = Frac(a, d) /\ y = Frac(b, d)
  BY CommonDen
<1>2. PICK s \in Int, t \in Int : s = a - b /\ t = b - a
  BY SMT
<1>3. x -- y = Frac(s, d) /\ y -- x = Frac(t, d)
  BY SMT, <1>1, <1>2, SameDen
<1>4. Frac(s, d) ** Frac(s, d) = Frac(s * s, d * d)
  BY SMT, FracMul
<1>5. Frac(t, d) ** Frac(t, d) = Frac(t * t, d * d)
  BY SMT, FracMul
<1>6. s * s = t * t
  BY SMT, <1>2
<1> QED BY Zenon, <1>3, <1>4, <1>5, <1>6

-----------------------------------------------------------------------------
(* Types of the indicators *)
SmaType  == [period : Period, window : Seq(Rat), sum : Rat]
EmaType  == [k : Rat, seed : SmaType, ready : BOOLEAN, value : Rat]
RsiType  == [period : Period, prev : Rat, has_prev : BOOLEAN, warmup : Nat,
             gain : Rat, loss : Rat]
MacdType == [fast : EmaType, slow : EmaType, signal : EmaType]
BandType == [period : Period, mult : Rat, window : Seq(Rat)]
DonType  == [period : Period, highs : Seq(Rat), lows : Seq(Rat)]

LEMMA QPositive ==
  ASSUME NEW n \in Period
  PROVE  Q(n) \in Rat /\ Q(0) \prec Q(n)
<1>1. n \in Int /\ 0 \in Int /\ 0 < n
  BY SMT DEF Period
<1> QED BY Zenon, <1>1, QOrder

(* The window after a push. *)
LEMMA SlideFacts ==
  ASSUME NEW S, NEW w \in Seq(S), NEW v \in S, NEW period \in Period
  PROVE  /\ Slide(w, v, period) \in Seq(S) /\ Len(Slide(w, v, period)) >= 1
         /\ Len(w) < period => Slide(w, v, period) = Append(w, v)
         /\ Len(w) >= period => Slide(w, v, period) = Tail(Append(w, v))
<1>1. Append(w, v) \in Seq(S) /\ Len(Append(w, v)) = Len(w) + 1 /\ Len(w) \in Nat
  OBVIOUS
<1>2. CASE Len(w) < period
  <2>1. Slide(w, v, period) = Append(w, v)
    BY SMT, <1>1, <1>2 DEF Slide, Period
  <2> QED BY SMT, <1>1, <1>2, <2>1 DEF Period
<1>3. CASE Len(w) >= period
  <2>1. Slide(w, v, period) = Tail(Append(w, v))
    BY SMT, <1>1, <1>3 DEF Slide, Period
  <2>2. Append(w, v) # <<>> /\ Len(w) >= 1
    BY SMT, <1>1, <1>3 DEF Period
  <2>3. Tail(Append(w, v)) \in Seq(S) /\ Len(Tail(Append(w, v))) = Len(w)
    BY <1>1, <2>2
  <2> QED BY SMT, <1>1, <1>3, <2>1, <2>2, <2>3 DEF Period
<1> QED BY SMT, <1>1, <1>2, <1>3 DEF Period

LEMMA SmaPushType ==
  ASSUME NEW s \in SmaType, NEW v \in Rat
  PROVE  /\ SmaPush(s, v) \in SmaType /\ SmaPush(s, v).period = s.period
         /\ Len(SmaPush(s, v).window) \in Period
         /\ SmaValue(SmaPush(s, v)) \in Rat
<1>1. s.period \in Period /\ s.window \in Seq(Rat) /\ s.sum \in Rat
  BY DEF SmaType
<1>2. Slide(s.window, v, s.period) \in Seq(Rat) /\ Len(Slide(s.window, v, s.period)) >= 1
  BY Zenon, <1>1, SlideFacts
<1>3. Len(s.window) = s.period => Head(s.window) \in Rat
  BY SMT, <1>1 DEF Period
<1> DEFINE u == IF Len(s.window) = s.period THEN (s.sum ++ v) -- Head(s.window) ELSE s.sum ++ v
<1>4. u \in Rat
  <2>1. s.sum ++ v \in Rat
    BY Zenon, <1>1, RatSums
  <2> QED BY Zenon, <1>3, <2>1, RatSums
<1>5. SmaPush(s, v) = [s EXCEPT !.window = Slide(s.window, v, s.period), !.sum = u]
  BY Zenon DEF SmaPush
<1> HIDE DEF u
<1>6. SmaPush(s, v) \in SmaType /\ SmaPush(s, v).period = s.period
      /\ SmaPush(s, v).window = Slide(s.window, v, s.period)
      /\ SmaPush(s, v).sum = u
  BY Zenon, <1>1, <1>2, <1>4, <1>5 DEF SmaType
<1>7. Len(SmaPush(s, v).window) \in Period
  BY SMT, <1>2, <1>6 DEF Period
<1>8. SmaValue(SmaPush(s, v)) \in Rat
  BY Zenon, <1>4, <1>6, <1>7, QPositive, RatQuotients DEF SmaValue
<1> QED BY Zenon, <1>6, <1>7, <1>8

LEMMA EmaPushType ==
  ASSUME NEW e \in EmaType, NEW v \in Rat
  PROVE  EmaPush(e, v) \in EmaType
<1>1. e.k \in Rat /\ e.seed \in SmaType /\ e.ready \in BOOLEAN /\ e.value \in Rat
  BY DEF EmaType
<1> DEFINE seed == SmaPush(e.seed, v)
<1>2. seed \in SmaType /\ SmaValue(seed) \in Rat
  BY Zenon, <1>1, SmaPushType
<1>3. CASE e.ready
  <2>1. Q(1) \in Rat
    BY ZeroOne
  <2>2. v ** e.k \in Rat /\ Q(1) -- e.k \in Rat
    BY Zenon, <1>1, <2>1, RatSums, RatProducts
  <2>3. e.value ** (Q(1) -- e.k) \in Rat
    BY Zenon, <1>1, <2>2, RatProducts
  <2>4. (v ** e.k) ++ (e.value ** (Q(1) -- e.k)) \in Rat
    BY Zenon, <2>2, <2>3, RatSums
  <2>5. EmaPush(e, v) = [e EXCEPT !.value = (v ** e.k) ++ (e.value ** (Q(1) -- e.k))]
    BY Zenon, <1>3 DEF EmaPush
  <2> QED BY <2>4, <2>5 DEF EmaType
<1>4. CASE ~e.ready
  <2>1. EmaPush(e, v) = [e EXCEPT !.seed = seed, !.ready = SmaReady(seed),
                            !.value = IF SmaReady(seed) THEN SmaValue(seed) ELSE e.value]
    BY Zenon, <1>4 DEF EmaPush
  <2>2. SmaReady(seed) \in BOOLEAN
    BY DEF SmaReady
  <2> HIDE DEF seed
  <2> QED BY Zenon, <1>1, <1>2, <2>1, <2>2 DEF EmaType
<1> QED BY Zenon, <1>1, <1>3, <1>4

LEMMA RsiPushType ==
  ASSUME NEW r \in RsiType, NEW v \in Rat
  PROVE  RsiPush(r, v) \in RsiType
<1>1. /\ r.period \in Period /\ r.prev \in Rat /\ r.has_prev \in BOOLEAN
      /\ r.warmup \in Nat /\ r.gain \in Rat /\ r.loss \in Rat
  BY DEF RsiType
<1>2. Q(0) \in Rat
  BY ZeroOne
<1>3. ASSUME NEW avg \in Rat, NEW d \in Rat PROVE Averaged(r, avg, d) \in Rat
  <2>1. Q(r.period) \in Rat /\ Q(0) \prec Q(r.period) /\ Q(r.period - 1) \in Rat
    <3>1. r.period - 1 \in Int
      BY SMT, <1>1 DEF Period
    <3> QED BY Zenon, <1>1, <3>1, QPositive, QOrder
  <2>2. avg ** Q(r.period - 1) \in Rat /\ avg ++ d \in Rat
    BY Zenon, <2>1, RatSums, RatProducts
  <2>3. (avg ** Q(r.period - 1)) ++ d \in Rat
    BY Zenon, <2>2, RatSums
  <2>4. /\ ((avg ** Q(r.period - 1)) ++ d) // Q(r.period) \in Rat
        /\ (avg ++ d) // Q(r.period) \in Rat
    BY Zenon, <2>1, <2>2, <2>3, RatQuotients
  <2> QED BY Zenon, <2>2, <2>4 DEF Averaged
<1> DEFINE delta == v -- r.prev
           rise == IF Q(0) \prec delta THEN delta ELSE Q(0)
           fall == IF delta \prec Q(0) THEN Q(0) -- delta ELSE Q(0)
<1>4. delta \in Rat
  BY Zenon, <1>1, RatSums
<1> HIDE DEF delta
<1>5. Q(0) -- delta \in Rat
  BY Zenon, <1>2, <1>4, RatSums
<1>6. rise \in Rat /\ fall \in Rat
  BY Zenon, <1>2, <1>4, <1>5
<1> DEFINE warmup == IF RsiReady(r) THEN r.warmup ELSE r.warmup + 1
           gain == Averaged(r, r.gain, rise)
           loss == Averaged(r, r.loss, fall)
<1>7. warmup \in Nat
  BY <1>1
<1>8. gain \in Rat /\ loss \in Rat
  BY Zenon, <1>1, <1>3, <1>6
<1>9. RsiPush(r, v) =
        IF ~r.has_prev THEN [r EXCEPT !.prev = v, !.has_prev = TRUE]
        ELSE [r EXCEPT !.prev = v, !.warmup = warmup, !.gain = gain, !.loss = loss]
  BY Zenon DEF RsiPush, delta
<1> HIDE DEF warmup, gain, loss
<1>10. [r EXCEPT !.prev = v, !.has_prev = TRUE] \in RsiType
  BY Zenon DEF RsiType
<1>11. [r EXCEPT !.prev = v, !.warmup = warmup, !.gain = gain, !.loss = loss] \in RsiType
  BY Zenon, <1>7, <1>8 DEF RsiType
<1> QED BY Zenon, <1>9, <1>10, <1>11

LEMMA MacdPushType ==
  ASSUME NEW m \in MacdType, NEW v \in Rat
  PROVE  MacdPush(m, v) \in MacdType
<1>1. m.fast \in EmaType /\ m.slow \in EmaType /\ m.signal \in EmaType
  BY DEF MacdType
<1>2. PICK f \in EmaType, s \in EmaType : f = EmaPush(m.fast, v) /\ s = EmaPush(m.slow, v)
  BY Zenon, <1>1, EmaPushType
<1>3. PICK p : p = [m EXCEPT !.fast = f, !.slow = s]
  BY Zenon
<1>4. p \in MacdType /\ p.fast = f /\ p.slow = s /\ p.signal = m.signal
  BY Zenon, <1>3 DEF MacdType
<1>5. MacdLine(p) \in Rat
  BY <1>4, RatSums DEF MacdLine, EmaType
<1>6. PICK g \in EmaType : g = EmaPush(p.signal, MacdLine(p))
  BY Zenon, <1>1, <1>4, <1>5, EmaPushType
<1>7. [p EXCEPT !.signal = g] \in MacdType
  BY Zenon, <1>4 DEF MacdType
<1>8. MacdPush(m, v) = IF p.fast.ready /\ p.slow.ready THEN [p EXCEPT !.signal = g] ELSE p
  BY Zenon, <1>2, <1>3, <1>6 DEF MacdPush
<1> QED BY Zenon, <1>4, <1>7, <1>8

LEMMA BollingerPushType ==
  ASSUME NEW b \in BandType, NEW v \in Rat
  PROVE  BollingerPush(b, v) \in BandType
<1>1. b.period \in Period /\ b.window \in Seq(Rat)
  BY DEF BandType
<1>2. Slide(b.window, v, b.period) \in Seq(Rat)
  BY Zenon, <1>1, SlideFacts
<1> QED BY Zenon, <1>2 DEF BollingerPush, BandType

LEMMA DonchianPushType ==
  ASSUME NEW d \in DonType, NEW high \in Rat, NEW low \in Rat
  PROVE  DonchianPush(d, high, low) \in DonType
<1>1. d.period \in Period /\ d.highs \in Seq(Rat) /\ d.lows \in Seq(Rat)
  BY DEF DonType
<1>2. Slide(d.highs, high, d.period) \in Seq(Rat) /\ Slide(d.lows, low, d.period) \in Seq(Rat)
  BY Zenon, <1>1, SlideFacts
<1> QED BY Zenon, <1>2 DEF DonchianPush, DonType

LEMMA SmaMade ==
  ASSUME NEW p \in Period
  PROVE  Sma(p) \in SmaType /\ Sma(p).period = p
BY ZeroOne DEF Sma, SmaType

LEMMA EmaMade ==
  ASSUME NEW p \in Period
  PROVE  Ema(p) \in EmaType
<1>1. Frac(2, p + 1) \in Rat
  BY FracRat DEF Period
<1>2. Sma(p) \in SmaType /\ Q(0) \in Rat
  BY SmaMade, ZeroOne
<1> QED BY <1>1, <1>2 DEF Ema, EmaType

-----------------------------------------------------------------------------
(* Windows and their totals *)
Sums(g, w) ==
  /\ g \in [0 .. Len(w) -> Rat] /\ g[0] = Q(0)
  /\ \A i \in 1 .. Len(w) : g[i] = g[i - 1] ++ w[i]

LEMMA TotalTrace ==
  ASSUME NEW w \in Seq(Rat)
  PROVE  \E g : Sums(g, w) /\ Total(w) = g[Len(w)]
<1>1. PICK n \in Nat : n = Len(w)
  OBVIOUS
<1>2. \A i \in 1 .. n : w[i] \in Rat
  BY <1>1
<1> DEFINE Def(p) == [i \in 0 .. n |-> IF i = 0 THEN Q(0) ELSE p[i - 1] ++ w[i]]
           P == CHOOSE p : p = Def(p)
<1>3. PICK g \in [0 .. n -> Rat] :
        g[0] = Q(0) /\ \A i \in 1 .. n : g[i] = g[i - 1] ++ w[i]
  <2> DEFINE F == [i \in 1 .. n |-> [x \in Rat |-> x ++ w[i]]]
  <2>1. Loop(F, Rat, n)
    <3>1. ASSUME NEW i \in 1 .. n, NEW x \in Rat PROVE x ++ w[i] \in Rat
      BY Zenon, <1>2, RatSums
    <3> QED BY Zenon, <3>1 DEF Loop
  <2>2. \A i \in 1 .. n, x \in Rat : F[i][x] = x ++ w[i]
    BY Zenon
  <2> HIDE DEF F
  <2>3. PICK g : Runs(g, F, Q(0), Rat, n)
    BY Zenon, <2>1, ZeroOne, Trace
  <2>4. g \in [0 .. n -> Rat] /\ g[0] = Q(0)
    BY Zenon, <2>3 DEF Runs
  <2>5. ASSUME NEW i \in 1 .. n PROVE g[i] = g[i - 1] ++ w[i]
    <3>1. g[i] = F[i][g[i - 1]]
      BY Zenon, <2>3 DEF Runs
    <3>2. g[i - 1] \in Rat
      BY <2>4
    <3> QED BY <2>2, <3>1, <3>2, Zenon
  <2> QED BY Zenon, <2>4, <2>5
<1>4. g = Def(g)
  BY <1>3
<1>5. P = Def(P)
  BY Zenon, <1>4
<1>6. Total(w) = P[n]
  BY <1>1 DEF Total
<1> HIDE DEF P
<1>7. P[0] = Q(0) /\ \A i \in 1 .. n : P[i] = P[i - 1] ++ w[i]
  BY <1>5
<1>8. \A i \in 0 .. n : P[i] = g[i]
  <2>1. Alike(P, g, n)
    BY <1>3, <1>7 DEF Alike
  <2> QED BY ZenonT(40), <2>1, OneTrace
<1>9. Sums(g, w)
  BY Zenon, <1>1, <1>3 DEF Sums
<1> QED BY <1>1, <1>6, <1>8, <1>9

LEMMA TotalRat ==
  ASSUME NEW w \in Seq(Rat)
  PROVE  Total(w) \in Rat /\ (w = <<>> => Total(w) = Q(0))
<1>1. PICK g : Sums(g, w) /\ Total(w) = g[Len(w)]
  BY Zenon, TotalTrace
<1>2. Len(w) \in 0 .. Len(w)
  OBVIOUS
<1>3. w = <<>> => Len(w) = 0
  OBVIOUS
<1> QED BY Zenon, <1>1, <1>2, <1>3 DEF Sums

LEMMA TotalAppend ==
  ASSUME NEW w \in Seq(Rat), NEW v \in Rat
  PROVE  Total(Append(w, v)) = Total(w) ++ v
<1> DEFINE b == Append(w, v)
<1>1. PICK n \in Nat : n = Len(w)
  OBVIOUS
<1>2. /\ b \in Seq(Rat) /\ Len(b) = n + 1 /\ b[n + 1] = v
      /\ \A i \in 1 .. n : b[i] = w[i]
  BY <1>1
<1> HIDE DEF b
<1>3. PICK g : Sums(g, w) /\ Total(w) = g[n]
  BY Zenon, <1>1, TotalTrace
<1>4. PICK h : Sums(h, b) /\ Total(b) = h[n + 1]
  BY Zenon, <1>2, TotalTrace
<1>5. g[0] = Q(0) /\ \A i \in 1 .. n : g[i] = g[i - 1] ++ w[i]
  BY Zenon, <1>1, <1>3 DEF Sums
<1>6. h[0] = Q(0) /\ \A i \in 1 .. n + 1 : h[i] = h[i - 1] ++ b[i]
  BY Zenon, <1>2, <1>4 DEF Sums
<1>7. Alike(h, g, n)
  <2>1. ASSUME NEW i \in 1 .. n, h[i - 1] = g[i - 1] PROVE h[i] = g[i]
    <3>1. i \in 1 .. n + 1
      OBVIOUS
    <3> QED BY Zenon, <1>2, <1>5, <1>6, <2>1, <3>1
  <2> QED BY Zenon, <1>5, <1>6, <2>1 DEF Alike
<1>8. h[n] = g[n]
  <2>1. n \in 0 .. n
    OBVIOUS
  <2> QED BY Zenon, <1>7, <2>1, OneTrace
<1>9. h[n + 1] = h[n] ++ v
  <2>1. n + 1 \in 1 .. n + 1 /\ (n + 1) - 1 = n
    OBVIOUS
  <2>2. h[n + 1] = h[(n + 1) - 1] ++ b[n + 1]
    BY Zenon, <1>6, <2>1
  <2> QED BY <1>2, <2>1, <2>2
<1> QED BY <1>3, <1>4, <1>8, <1>9 DEF b

LEMMA TotalTail ==
  ASSUME NEW w \in Seq(Rat), w # <<>>
  PROVE  Total(Tail(w)) = Total(w) -- Head(w)
<1> DEFINE b == Tail(w)
<1>1. PICK n \in Nat : n + 1 = Len(w)
  <2>1. Len(w) \in Nat /\ Len(w) # 0
    OBVIOUS
  <2>2. Len(w) - 1 \in Nat /\ (Len(w) - 1) + 1 = Len(w)
    BY SMT, <2>1
  <2> QED BY Zenon, <2>2
<1>2. /\ b \in Seq(Rat) /\ Len(b) = n /\ Head(w) = w[1] /\ w[1] \in Rat
      /\ \A i \in 1 .. n : b[i] = w[i + 1] /\ b[i] \in Rat
  BY <1>1
<1> HIDE DEF b
<1>3. PICK g : Sums(g, w) /\ Total(w) = g[n + 1]
  BY Zenon, <1>1, TotalTrace
<1>4. PICK h : Sums(h, b) /\ Total(b) = h[n]
  BY Zenon, <1>2, TotalTrace
<1>5. g[0] = Q(0) /\ \A i \in 1 .. n + 1 : g[i] = g[i - 1] ++ w[i]
  BY Zenon, <1>1, <1>3 DEF Sums
<1>6. /\ h \in [0 .. n -> Rat] /\ h[0] = Q(0)
      /\ \A i \in 1 .. n : h[i] = h[i - 1] ++ b[i]
  BY Zenon, <1>2, <1>4 DEF Sums
<1> DEFINE S == {i \in 0 .. n : g[i + 1] = h[i] ++ w[1]}
<1>7. 0 \in S
  <2>1. 1 \in 1 .. n + 1 /\ 1 - 1 = 0 /\ 0 \in 0 .. n /\ 0 + 1 = 1
    OBVIOUS
  <2>2. g[1] = Q(0) ++ w[1]
    BY <1>5, <2>1
  <2> QED BY <1>6, <2>1, <2>2
<1>8. ASSUME NEW i \in 1 .. n, i - 1 \in S PROVE i \in S
  <2>1. i + 1 \in 1 .. n + 1 /\ (i + 1) - 1 = i /\ (i - 1) + 1 = i /\ i - 1 \in 0 .. n
    OBVIOUS
  <2>2. g[i + 1] = g[i] ++ w[i + 1]
    BY <1>5, <2>1
  <2>3. g[i] = h[i - 1] ++ w[1]
    BY <1>8, <2>1
  <2>4. h[i] = h[i - 1] ++ b[i] /\ b[i] = w[i + 1] /\ b[i] \in Rat /\ h[i - 1] \in Rat
    BY <1>2, <1>6, <2>1
  <2>5. PICK x \in Rat, y \in Rat, z \in Rat : x = h[i - 1] /\ y = w[1] /\ z = b[i]
    BY Zenon, <1>2, <2>4
  <2>6. (x ++ y) ++ z = (x ++ z) ++ y
    <3>1. (x ++ y) ++ z = x ++ (y ++ z)
      BY SMT, RatSums3
    <3>2. (x ++ z) ++ y = x ++ (z ++ y)
      BY SMT, RatSums3
    <3>3. y ++ z = z ++ y
      BY Zenon, RatSums
    <3> QED BY <3>1, <3>2, <3>3
  <2> QED BY <2>2, <2>3, <2>4, <2>5, <2>6
<1> HIDE DEF S
<1>9. n \in S
  BY SMTT(20), <1>7, <1>8, UpTo
<1>10. g[n + 1] = h[n] ++ w[1] /\ h[n] \in Rat
  BY <1>6, <1>9 DEF S
<1>11. (h[n] ++ w[1]) -- w[1] = h[n]
  BY Zenon, <1>2, <1>10, RatSums
<1> QED BY SMTT(20), <1>2, <1>3, <1>4, <1>10, <1>11 DEF b

(* The last p values of v, or as many as there are. *)
Least(n, p) == IF n < p THEN n ELSE p

Recent(v, p) == [j \in 1 .. Least(Len(v), p) |-> v[Len(v) - Least(Len(v), p) + j]]

LEMMA SeqEqual ==
  ASSUME NEW S, NEW s \in Seq(S), NEW t \in Seq(S), Len(s) = Len(t),
         \A i \in 1 .. Len(s) : s[i] = t[i]
  PROVE  s = t
BY SMT

LEMMA RecentFacts ==
  ASSUME NEW S, NEW v \in Seq(S), NEW p \in Period
  PROVE  /\ Recent(v, p) \in Seq(S) /\ Len(Recent(v, p)) = Least(Len(v), p)
         /\ Least(Len(v), p) \in 0 .. Len(v)
         /\ \A j \in 1 .. Least(Len(v), p) :
              Recent(v, p)[j] = v[Len(v) - Least(Len(v), p) + j]
<1>1. PICK n \in Nat : n = Len(v)
  OBVIOUS
<1>2. PICK m \in Nat : m = Least(n, p)
  BY DEF Least, Period
<1>3. m \in 0 .. n
  BY <1>2 DEF Least, Period
<1>4. \A j \in 1 .. m : v[n - m + j] \in S
  BY <1>1, <1>3
<1>5. Recent(v, p) = [j \in 1 .. m |-> v[n - m + j]]
  BY Zenon, <1>1, <1>2 DEF Recent
<1> QED BY <1>1, <1>2, <1>3, <1>4, <1>5

LEMMA SlideRecent ==
  ASSUME NEW S, NEW v \in Seq(S), NEW x \in S, NEW p \in Period
  PROVE  Slide(Recent(v, p), x, p) = Recent(Append(v, x), p)
<1> DEFINE r == Recent(v, p)
           b == Append(v, x)
           q == Recent(b, p)
           s == Slide(r, x, p)
<1>1. PICK n \in Nat : n = Len(v)
  OBVIOUS
<1>2. /\ b \in Seq(S) /\ Len(b) = n + 1 /\ b[n + 1] = x
      /\ \A i \in 1 .. n : b[i] = v[i]
  BY <1>1
<1>3. /\ r \in Seq(S) /\ Len(r) = Least(n, p)
      /\ \A j \in 1 .. Least(n, p) : r[j] = v[n - Least(n, p) + j]
  BY Zenon, <1>1, RecentFacts
<1> HIDE DEF b
<1>4. /\ q \in Seq(S) /\ Len(q) = Least(n + 1, p)
      /\ \A j \in 1 .. Least(n + 1, p) : q[j] = b[(n + 1) - Least(n + 1, p) + j]
  <2>1. /\ q \in Seq(S) /\ Len(q) = Least(Len(b), p)
        /\ \A j \in 1 .. Least(Len(b), p) : q[j] = b[Len(b) - Least(Len(b), p) + j]
    BY Zenon, <1>2, RecentFacts
  <2> HIDE DEF q
  <2> QED BY <1>2, <2>1
<1>5. /\ s \in Seq(S)
      /\ Len(r) < p => s = Append(r, x)
      /\ Len(r) >= p => s = Tail(Append(r, x))
  BY ZenonT(40), <1>3, SlideFacts
<1> HIDE DEF r, q, s
<1>6. CASE n < p
  <2>1. Least(n, p) = n /\ Least(n + 1, p) = n + 1 /\ Len(r) < p
    <3>1. Least(n, p) = n /\ Least(n + 1, p) = n + 1
      BY SMT, <1>6 DEF Least, Period
    <3> QED BY SMT, <1>3, <1>6, <3>1
  <2>2. s = Append(r, x) /\ Len(r) = n /\ Len(q) = n + 1
    BY <1>3, <1>4, <1>5, <2>1
  <2>3. Len(s) = n + 1 /\ s[n + 1] = x /\ \A j \in 1 .. n : s[j] = r[j]
    BY <1>3, <2>2
  <2>4. ASSUME NEW j \in 1 .. n + 1 PROVE s[j] = q[j]
    <3>1. q[j] = b[j]
      <4>1. (n + 1) - (n + 1) + j = j
        OBVIOUS
      <4> QED BY <1>4, <2>1, <4>1
    <3>2. CASE j = n + 1
      BY <1>2, <2>3, <3>1, <3>2
    <3>3. CASE j # n + 1
      <4>1. j \in 1 .. n /\ n - n + j = j
        BY <3>3
      <4> QED BY <1>2, <1>3, <2>1, <2>3, <3>1, <4>1
    <3> QED BY Zenon, <3>2, <3>3
  <2> QED BY <1>4, <1>5, <2>2, <2>3, <2>4, SeqEqual DEF q, s, r, b
<1>7. CASE n >= p
  <2>1. Least(n, p) = p /\ Least(n + 1, p) = p /\ Len(r) >= p /\ p \in Nat /\ p >= 1
    BY <1>3, <1>7 DEF Least, Period
  <2>2. s = Tail(Append(r, x)) /\ Len(r) = p /\ Len(q) = p
    BY Zenon, <1>3, <1>4, <1>5, <2>1
  <2>3. Len(s) = p /\ s[p] = x /\ \A j \in 1 .. p - 1 : s[j] = r[j + 1]
    <3>1. PICK c : c = Append(r, x)
      BY Zenon
    <3>2. c \in Seq(S) /\ Len(c) = p + 1 /\ c[p + 1] = x /\ \A j \in 1 .. p : c[j] = r[j]
      BY <1>3, <2>2, <3>1
    <3>3. c # <<>>
      BY <2>1, <3>2
    <3>4. Len(Tail(c)) = p /\ \A j \in 1 .. p : Tail(c)[j] = c[j + 1]
      BY <2>1, <3>2, <3>3
    <3> QED BY <2>1, <2>2, <3>1, <3>2, <3>4
  <2>4. ASSUME NEW j \in 1 .. p PROVE s[j] = q[j]
    <3>1. q[j] = b[(n + 1) - p + j]
      BY <1>4, <2>1
    <3>2. CASE j = p
      <4>1. (n + 1) - p + j = n + 1
        BY <2>1, <3>2
      <4> QED BY <1>2, <2>3, <3>1, <3>2, <4>1
    <3>3. CASE j # p
      <4>1. /\ j \in 1 .. p - 1 /\ j + 1 \in 1 .. p /\ (n + 1) - p + j = n - p + (j + 1)
            /\ n - p + (j + 1) \in 1 .. n
        BY <1>7, <2>1, <3>3
      <4>2. s[j] = v[n - p + (j + 1)]
        BY <1>3, <2>1, <2>3, <4>1
      <4> QED BY <1>2, <3>1, <4>1, <4>2
    <3> QED BY Zenon, <3>2, <3>3
  <2> QED BY <1>4, <1>5, <2>2, <2>3, <2>4, SeqEqual DEF q, s, r, b
<1> QED BY <1>6, <1>7 DEF Period

LEMMA SlideLast ==
  ASSUME NEW w \in Seq(Rat), NEW x \in Rat, NEW p \in Period
  PROVE  Slide(w, x, p)[Len(Slide(w, x, p))] = x
<1>1. PICK c \in Seq(Rat) : c = Append(w, x) /\ Len(c) = Len(w) + 1 /\ c[Len(w) + 1] = x
  <2>1. /\ Append(w, x) \in Seq(Rat) /\ Len(Append(w, x)) = Len(w) + 1
        /\ Append(w, x)[Len(w) + 1] = x
    OBVIOUS
  <2> QED BY Zenon, <2>1
<1>2. Slide(w, x, p) = c \/ (Len(w) >= 1 /\ Slide(w, x, p) = Tail(c))
  <2>1. /\ Len(w) < p => Slide(w, x, p) = c
        /\ Len(w) >= p => Slide(w, x, p) = Tail(c)
    BY ZenonT(40), <1>1, SlideFacts
  <2> QED BY <2>1 DEF Period
<1>3. Len(w) >= 1 => Tail(c)[Len(Tail(c))] = x
  <2>1. PICK n \in Nat : n = Len(w)
    OBVIOUS
  <2>2. ASSUME n >= 1 PROVE Len(Tail(c)) = n /\ Tail(c)[n] = c[n + 1]
    BY <1>1, <2>1, <2>2
  <2> QED BY <1>1, <2>1, <2>2
<1> QED BY <1>1, <1>2, <1>3

(* What a moving average keeps of the values it was given. *)
SmaTracks(s, v) == s.window = Recent(v, s.period) /\ s.sum = Total(s.window)

LEMMA SmaTracksPush ==
  ASSUME NEW s \in SmaType, NEW v \in Seq(Rat), NEW x \in Rat, SmaTracks(s, v)
  PROVE  SmaTracks(SmaPush(s, x), Append(v, x))
<1>1. s.period \in Period /\ s.window \in Seq(Rat) /\ s.sum \in Rat
  BY DEF SmaType
<1>2. SmaPush(s, x).period = s.period
  BY Zenon, SmaPushType
<1>3. /\ SmaPush(s, x).window = Slide(s.window, x, s.period)
      /\ SmaPush(s, x).sum = IF Len(s.window) = s.period
                             THEN (s.sum ++ x) -- Head(s.window) ELSE s.sum ++ x
  BY DEF SmaPush, SmaType
<1>4. Slide(s.window, x, s.period) = Recent(Append(v, x), s.period)
  BY Zenon, <1>1, SlideRecent DEF SmaTracks
<1>5. Len(s.window) <= s.period /\ Len(s.window) \in Nat
  <2>1. Len(s.window) = Least(Len(v), s.period)
    BY Zenon, <1>1, RecentFacts DEF SmaTracks
  <2> QED BY <1>1, <2>1 DEF Least, Period
<1>6. Total(Append(s.window, x)) = s.sum ++ x
  BY Zenon, <1>1, TotalAppend DEF SmaTracks
<1>7. CASE Len(s.window) = s.period
  <2>1. Slide(s.window, x, s.period) = Tail(Append(s.window, x))
    <3>1. Len(s.window) >= s.period
      BY <1>5, <1>7
    <3> QED BY Zenon, <1>1, <3>1, SlideFacts
  <2>2. s.window # <<>>
    BY <1>1, <1>7 DEF Period
  <2>3. /\ Append(s.window, x) \in Seq(Rat) /\ Append(s.window, x) # <<>>
        /\ Head(Append(s.window, x)) = Head(s.window)
    BY <1>1, <2>2
  <2>4. Total(Tail(Append(s.window, x))) = Total(Append(s.window, x)) -- Head(Append(s.window, x))
    BY Zenon, <2>3, TotalTail
  <2> QED BY <1>2, <1>3, <1>4, <1>6, <1>7, <2>1, <2>3, <2>4 DEF SmaTracks
<1>8. CASE Len(s.window) # s.period
  <2>1. Slide(s.window, x, s.period) = Append(s.window, x)
    <3>1. Len(s.window) < s.period
      BY <1>1, <1>5, <1>8 DEF Period
    <3> QED BY Zenon, <1>1, <3>1, SlideFacts
  <2> QED BY <1>2, <1>3, <1>4, <1>6, <1>8, <2>1 DEF SmaTracks
<1> QED BY Zenon, <1>7, <1>8

(* What bounds the values bounds the sum. *)
LEMMA TotalBetween ==
  ASSUME NEW w \in Seq(Rat), NEW lo \in Rat, NEW hi \in Rat,
         \A i \in 1 .. Len(w) : lo \preceq w[i] /\ w[i] \preceq hi
  PROVE  lo ** Q(Len(w)) \preceq Total(w) /\ Total(w) \preceq hi ** Q(Len(w))
<1>1. PICK n \in Nat : n = Len(w)
  OBVIOUS
<1>2. PICK g : Sums(g, w) /\ Total(w) = g[n]
  BY Zenon, <1>1, TotalTrace
<1>3. /\ g \in [0 .. n -> Rat] /\ g[0] = Q(0)
      /\ \A i \in 1 .. n : g[i] = g[i - 1] ++ w[i]
  BY Zenon, <1>1, <1>2 DEF Sums
<1> DEFINE S == {i \in 0 .. n : lo ** Q(i) \preceq g[i] /\ g[i] \preceq hi ** Q(i)}
<1>4. 0 \in S
  <2>1. 0 \in 0 .. n /\ Q(0) \in Rat
    BY ZeroOne
  <2>2. lo ** Q(0) = Q(0) /\ hi ** Q(0) = Q(0) /\ Q(0) \preceq Q(0)
    BY Zenon, <2>1, RatProducts, RatOrder
  <2> QED BY Zenon, <1>3, <2>1, <2>2
<1>5. ASSUME NEW i \in 1 .. n, i - 1 \in S PROVE i \in S
  <2>1. i - 1 \in 0 .. n /\ i \in 0 .. n /\ i - 1 \in Int /\ 1 \in Int /\ (i - 1) + 1 = i
    OBVIOUS
  <2>2. /\ lo ** Q(i - 1) \preceq g[i - 1] /\ g[i - 1] \preceq hi ** Q(i - 1)
        /\ g[i] = g[i - 1] ++ w[i] /\ lo \preceq w[i] /\ w[i] \preceq hi
    BY Zenon, <1>1, <1>3, <1>5
  <2>3. w[i] \in Rat /\ g[i - 1] \in Rat /\ Q(1) \in Rat
    BY <1>1, <1>3, <2>1, ZeroOne
  <2>4. Q(i - 1) \in Rat /\ Q(i - 1) ++ Q(1) = Q((i - 1) + 1)
    BY Zenon, <2>1, QOrder
  <2>5. ASSUME NEW b \in Rat PROVE b ** Q(i) = (b ** Q(i - 1)) ++ b /\ b ** Q(i - 1) \in Rat
    <3>1. b ** (Q(i - 1) ++ Q(1)) = (b ** Q(i - 1)) ++ (b ** Q(1))
      BY SMT, <2>3, <2>4, RatProducts3
    <3>2. b ** Q(1) = b /\ b ** Q(i - 1) \in Rat
      BY Zenon, <2>4, RatProducts
    <3> QED BY <2>1, <2>4, <3>1, <3>2
  <2>6. PICK l \in Rat, h \in Rat, x \in Rat, y \in Rat :
          l = lo ** Q(i - 1) /\ h = hi ** Q(i - 1) /\ x = g[i - 1] /\ y = w[i]
    BY Zenon, <2>3, <2>5
  <2>7. l ++ lo \preceq x ++ y /\ x ++ y \preceq h ++ hi
    BY Zenon, <2>2, <2>6, RatAdds
  <2> QED BY Zenon, <2>1, <2>2, <2>5, <2>6, <2>7
<1> HIDE DEF S
<1>6. n \in S
  <2>1. n \in 0 .. n
    OBVIOUS
  <2>2. \A i \in 0 .. n : i \in S
    BY Zenon, <1>4, <1>5, UpTo
  <2> QED BY Zenon, <2>1, <2>2
<1>7. lo ** Q(n) \preceq g[n] /\ g[n] \preceq hi ** Q(n)
  BY Zenon, <1>6 DEF S
<1> QED BY Zenon, <1>1, <1>2, <1>7

(* A sequence has a smallest and a largest value. *)
LEMMA Extremes ==
  ASSUME NEW w \in Seq(Rat), Len(w) >= 1
  PROVE  \E l, h \in 1 .. Len(w) :
           \A i \in 1 .. Len(w) : w[l] \preceq w[i] /\ w[i] \preceq w[h]
<1>1. PICK n \in Nat : n = Len(w) /\ n >= 1
  OBVIOUS
<1>2. \A i \in 1 .. n : w[i] \in Rat
  BY <1>1
<1> DEFINE Good(k, l, h) == \A i \in 1 .. k : w[l] \preceq w[i] /\ w[i] \preceq w[h]
           S == {k \in 0 .. n : k = 0 \/ \E l, h \in 1 .. k : Good(k, l, h)}
<1>3. 0 \in S
  OBVIOUS
<1>4. ASSUME NEW k \in 1 .. n, k - 1 \in S PROVE k \in S
  <2>1. k \in 0 .. n /\ k \in 1 .. k /\ w[k] \in Rat /\ w[k] \preceq w[k]
    BY <1>2, RatOrder
  <2>2. CASE k = 1
    <3>1. \A i \in 1 .. k : i = k
      BY <2>2
    <3> QED BY Zenon, <2>1, <3>1
  <2>3. CASE k # 1
    <3>1. PICK l \in 1 .. k - 1, h \in 1 .. k - 1 : Good(k - 1, l, h)
      BY <1>4, <2>3
    <3>2. /\ l \in 1 .. k /\ h \in 1 .. k /\ w[l] \in Rat /\ w[h] \in Rat
          /\ \A i \in 1 .. k : i \in 1 .. k - 1 \/ i = k
          /\ \A i \in 1 .. k - 1 : i \in 1 .. n
      BY <1>2
    <3>3. PICK m \in 1 .. k : (m = k \/ m = l) /\ w[m] \preceq w[k] /\ w[m] \preceq w[l]
      BY Zenon, <2>1, <3>2, RatOrder
    <3>4. PICK j \in 1 .. k : (j = k \/ j = h) /\ w[k] \preceq w[j] /\ w[h] \preceq w[j]
      BY Zenon, <2>1, <3>2, RatOrder
    <3>5. w[m] \in Rat /\ w[j] \in Rat
      BY <2>1, <3>2, <3>3, <3>4
    <3>6. ASSUME NEW i \in 1 .. k PROVE w[m] \preceq w[i] /\ w[i] \preceq w[j]
      <4>1. CASE i = k
        BY Zenon, <3>3, <3>4, <4>1
      <4>2. CASE i \in 1 .. k - 1
        <5>1. w[l] \preceq w[i] /\ w[i] \preceq w[h] /\ w[i] \in Rat
          BY Zenon, <1>2, <3>1, <3>2, <4>2
        <5>2. w[m] \preceq w[i]
          BY Zenon, <3>2, <3>3, <3>5, <5>1, RatTransitive
        <5>3. w[i] \preceq w[j]
          BY Zenon, <3>2, <3>4, <3>5, <5>1, RatTransitive
        <5> QED BY Zenon, <5>2, <5>3
      <4> QED BY Zenon, <3>2, <4>1, <4>2
    <3> QED BY Zenon, <2>1, <3>6
  <2> QED BY Zenon, <2>2, <2>3
<1> HIDE DEF S
<1>5. n \in S
  BY SMTT(20), <1>3, <1>4, UpTo
<1> QED BY <1>1, <1>5 DEF S

LEMMA MeanBetween ==
  ASSUME NEW w \in Seq(Rat), Len(w) >= 1
  PROVE  \E l, h \in 1 .. Len(w) :
           w[l] \preceq Total(w) // Q(Len(w)) /\ Total(w) // Q(Len(w)) \preceq w[h]
<1>1. PICK l \in 1 .. Len(w), h \in 1 .. Len(w) :
        \A i \in 1 .. Len(w) : w[l] \preceq w[i] /\ w[i] \preceq w[h]
  BY Zenon, Extremes
<1>2. PICK x \in Rat, y \in Rat : x = w[l] /\ y = w[h]
  OBVIOUS
<1>3. x ** Q(Len(w)) \preceq Total(w) /\ Total(w) \preceq y ** Q(Len(w))
  BY Zenon, <1>1, <1>2, TotalBetween
<1>4. PICK n \in Rat : n = Q(Len(w)) /\ Q(0) \prec n
  <2>1. Len(w) \in Period
    BY DEF Period
  <2> QED BY Zenon, <2>1, QPositive
<1>5. PICK m \in Rat : m = Total(w) // n /\ m ** n = Total(w)
  BY Zenon, <1>4, TotalRat, RatQuotients
<1>6. x ** n \preceq m ** n /\ m ** n \preceq y ** n
  BY Zenon, <1>3, <1>4, <1>5
<1>7. x \preceq m /\ m \preceq y
  BY Zenon, <1>4, <1>6, RatScaled
<1> QED BY Zenon, <1>2, <1>4, <1>5, <1>7

(* Sums of values that lie above a linear function of others. *)
LEMMA SumsAbove ==
  ASSUME NEW n \in Nat, NEW m \in 0 .. n, NEW w, NEW u, NEW g, NEW h,
         w \in Seq(Rat), u \in Seq(Rat), Len(w) = n, Len(u) = n, Sums(g, w), Sums(h, u),
         NEW a \in Rat, NEW e \in Rat,
         \A i \in 1 .. m : (a ** w[i]) -- e \preceq u[i]
  PROVE  (a ** g[m]) -- (e ** Q(m)) \preceq h[m]
<1>1. /\ g \in [0 .. n -> Rat] /\ g[0] = Q(0)
      /\ \A i \in 1 .. n : g[i] = g[i - 1] ++ w[i]
  BY Zenon DEF Sums
<1>2. /\ h \in [0 .. n -> Rat] /\ h[0] = Q(0)
      /\ \A i \in 1 .. n : h[i] = h[i - 1] ++ u[i]
  BY Zenon DEF Sums
<1> DEFINE S == {i \in 0 .. m : (a ** g[i]) -- (e ** Q(i)) \preceq h[i]}
<1>3. 0 \in S
  <2>1. 0 \in 0 .. m /\ Q(0) \in Rat
    BY ZeroOne
  <2>2. a ** Q(0) = Q(0) /\ e ** Q(0) = Q(0) /\ Q(0) -- Q(0) = Q(0) /\ Q(0) \preceq Q(0)
    BY Zenon, <2>1, RatProducts, RatSums, RatOrder
  <2> QED BY Zenon, <1>1, <1>2, <2>1, <2>2
<1>4. ASSUME NEW i \in 1 .. m, i - 1 \in S PROVE i \in S
  <2>1. /\ i - 1 \in 0 .. n /\ i \in 0 .. m /\ i \in 1 .. n /\ i - 1 \in Int /\ 1 \in Int
        /\ (i - 1) + 1 = i
    OBVIOUS
  <2>2. /\ (a ** g[i - 1]) -- (e ** Q(i - 1)) \preceq h[i - 1]
        /\ (a ** w[i]) -- e \preceq u[i]
        /\ g[i] = g[i - 1] ++ w[i] /\ h[i] = h[i - 1] ++ u[i]
    BY Zenon, <1>1, <1>2, <1>4, <2>1
  <2>3. Q(i - 1) \in Rat /\ Q(1) \in Rat /\ Q(i - 1) ++ Q(1) = Q((i - 1) + 1)
    BY Zenon, <2>1, QOrder
  <2>4. PICK x \in Rat, y \in Rat, p \in Rat, q \in Rat, k \in Rat :
          x = g[i - 1] /\ y = w[i] /\ p = h[i - 1] /\ q = u[i] /\ k = Q(i - 1)
    <3>1. g[i - 1] \in Rat /\ w[i] \in Rat /\ h[i - 1] \in Rat /\ u[i] \in Rat
      BY <1>1, <1>2, <2>1
    <3> QED BY Zenon, <2>3, <3>1
  <2>5. PICK ax \in Rat, ay \in Rat, ek \in Rat : ax = a ** x /\ ay = a ** y /\ ek = e ** k
    BY Zenon, RatProducts
  <2>6. a ** (x ++ y) = ax ++ ay
    BY SMT, <2>5, RatProducts3
  <2>7. e ** Q(i) = ek ++ e
    <3>1. e ** (k ++ Q(1)) = (e ** k) ++ (e ** Q(1))
      BY SMT, <2>3, RatProducts3
    <3>2. e ** Q(1) = e
      BY Zenon, <2>3, RatProducts
    <3> QED BY <2>1, <2>3, <2>4, <2>5, <3>1, <3>2
  <2>8. PICK s \in Rat, t \in Rat : s = ax -- ek /\ t = ay -- e
    BY Zenon, RatSums
  <2>9. (ax ++ ay) -- (ek ++ e) = s ++ t
    <3>1. PICK z \in Rat : z = ax ++ ay
      BY Zenon, RatSums
    <3>2. z -- (ek ++ e) = (z -- ek) -- e
      BY SMT, RatSums3
    <3>3. z -- ek = s ++ ay
      <4>1. (ax ++ ay) -- ek = (ax -- ek) ++ ay
        BY SMT, RatSums3
      <4> QED BY Zenon, <2>8, <3>1, <4>1
    <3>4. (s ++ ay) -- e = s ++ (ay -- e)
      BY SMT, RatSums3
    <3> QED BY Zenon, <2>8, <3>1, <3>2, <3>3, <3>4
  <2>10. s \preceq p /\ t \preceq q
    BY Zenon, <2>2, <2>4, <2>5, <2>8
  <2>11. s ++ t \preceq p ++ q
    BY Zenon, <2>10, RatAdds
  <2>12. (a ** g[i]) -- (e ** Q(i)) = s ++ t
    BY Zenon, <2>2, <2>4, <2>6, <2>7, <2>9
  <2> QED BY Zenon, <2>1, <2>2, <2>4, <2>11, <2>12
<1> HIDE DEF S
<1>5. m \in S
  <2>1. m \in Nat /\ m \in 0 .. m
    OBVIOUS
  <2>2. \A i \in 0 .. m : i \in S
    BY Zenon, <1>3, <1>4, <2>1, UpTo
  <2> QED BY Zenon, <2>1, <2>2
<1> QED BY Zenon, <1>5 DEF S

(* The identity behind it: with c = gap / m, a = 2 c and t the sum of the  *)
(* m other values, the linear bound at t is c * gap.                       *)
LEMMA BandIdentity ==
  ASSUME NEW mean \in Rat, NEW gap \in Rat, NEW c \in Rat, NEW m \in Rat,
         c ** m = gap
  PROVE  ((c ++ c) ** ((mean ** m) ++ gap)) -- ((((c ++ c) ** mean) ++ (c ** c)) ** m)
           = c ** gap
<1>1. PICK a \in Rat : a = c ++ c
  BY Zenon, RatSums
<1>2. PICK am \in Rat, ag \in Rat, cc \in Rat, cg \in Rat, mm \in Rat :
        am = a ** mean /\ ag = a ** gap /\ cc = c ** c /\ cg = c ** gap /\ mm = mean ** m
  BY Zenon, RatProducts
<1>3. PICK amm \in Rat : amm = am ** m
  BY Zenon, RatProducts
<1>4. a ** (mm ++ gap) = amm ++ ag
  <2>1. a ** (mm ++ gap) = (a ** mm) ++ (a ** gap)
    BY SMT, RatProducts3
  <2>2. (a ** mean) ** m = a ** (mean ** m)
    BY SMT, RatProducts3
  <2> QED BY Zenon, <1>2, <1>3, <2>1, <2>2
<1>5. (am ++ cc) ** m = amm ++ cg
  <2>1. (am ++ cc) ** m = (am ** m) ++ (cc ** m)
    BY SMT, RatProducts3
  <2>2. (c ** c) ** m = c ** (c ** m)
    BY SMT, RatProducts3
  <2> QED BY Zenon, <1>2, <1>3, <2>1, <2>2
<1>6. ag = cg ++ cg
  <2>1. (c ++ c) ** gap = (c ** gap) ++ (c ** gap)
    BY SMT, RatProducts3
  <2> QED BY Zenon, <1>1, <1>2, <2>1
<1>7. (amm ++ ag) -- (amm ++ cg) = cg
  <2>1. amm ++ ag = ag ++ amm /\ amm ++ cg = cg ++ amm
    BY Zenon, RatSums
  <2>2. (ag ++ amm) -- (cg ++ amm) = ag -- cg
    BY SMT, RatSums3
  <2>3. (cg ++ cg) -- cg = cg
    BY Zenon, RatSums
  <2> QED BY Zenon, <1>6, <2>1, <2>2, <2>3
<1> QED BY Zenon, <1>1, <1>2, <1>4, <1>5, <1>7

(* The last value of a window of m + 1 values is at most the square root   *)
(* of m standard deviations below the mean.                                *)
LEMMA BandHolds ==
  ASSUME NEW b \in BandType, NEW v \in Rat, NEW m \in Nat, Len(b.window) = m + 1,
         b.window[m + 1] = v, Q(0) \preceq b.mult, Q(m) \preceq b.mult ** b.mult
  PROVE  ~BelowLower(b, v)
<1> DEFINE w == b.window
           n == m + 1
           D(i) == w[i] -- BollingerMiddle(b)
           u == [i \in DOMAIN w |-> D(i) ** D(i)]
<1>1. w \in Seq(Rat) /\ Len(w) = n /\ w[n] = v /\ b.mult \in Rat
  BY DEF BandType
<1>2. /\ n \in Period /\ n \in Nat /\ m \in 0 .. n /\ n \in 1 .. n /\ n - 1 = m
      /\ m \in Int /\ 1 \in Int
      /\ \A i \in 1 .. m : i \in 1 .. n
  BY DEF Period
<1>3. PICK k \in Rat, one \in Rat, l \in Rat :
        /\ k = Q(n) /\ Q(0) \prec k /\ one = Q(1) /\ l = Q(m) /\ k = l ++ one
  <2>1. Q(n) \in Rat /\ Q(0) \prec Q(n)
    BY Zenon, <1>2, QPositive
  <2>2. Q(m) \in Rat /\ Q(1) \in Rat /\ Q(m) ++ Q(1) = Q(m + 1)
    BY Zenon, <1>2, QOrder
  <2> QED BY Zenon, <2>1, <2>2
<1>4. PICK mean \in Rat : mean = BollingerMiddle(b) /\ mean ** k = Total(w)
  <2>1. PICK t \in Rat : t = Total(w)
    BY Zenon, <1>1, TotalRat
  <2>2. t // k \in Rat /\ (t // k) ** k = t
    BY Zenon, <1>3, RatQuotients
  <2>3. BollingerMiddle(b) = t // k
    BY Zenon, <1>1, <1>3, <2>1 DEF BollingerMiddle
  <2> QED BY Zenon, <2>1, <2>2, <2>3
<1>5. PICK gap \in Rat : gap = mean -- v
  BY Zenon, RatSums
<1>6. \A i \in 1 .. n : w[i] \in Rat /\ w[i] -- mean \in Rat
  <2>1. \A i \in 1 .. n : w[i] \in Rat
    BY <1>1
  <2> QED BY Zenon, <2>1, RatSums
<1>7. /\ u \in Seq(Rat) /\ Len(u) = n
      /\ \A i \in 1 .. n : u[i] = (w[i] -- mean) ** (w[i] -- mean) /\ u[i] \in Rat
  <2>1. DOMAIN w = 1 .. n
    BY <1>1, <1>2
  <2>2. \A i \in 1 .. n : u[i] = (w[i] -- mean) ** (w[i] -- mean)
    BY Zenon, <1>4, <2>1
  <2>3. \A i \in 1 .. n : (w[i] -- mean) ** (w[i] -- mean) \in Rat
    BY Zenon, <1>6, RatProducts
  <2>4. u \in [1 .. n -> Rat]
    <3>1. DOMAIN u = 1 .. n /\ u = [i \in DOMAIN u |-> u[i]]
      BY Zenon, <2>1
    <3> HIDE DEF u
    <3> QED BY Zenon, <2>2, <2>3, <3>1
  <2> HIDE DEF u
  <2>5. u \in Seq(Rat) /\ Len(u) = n
    BY <1>2, <2>4
  <2> QED BY Zenon, <2>2, <2>3, <2>5
<1>8. PICK var \in Rat : var = BollingerVariance(b) /\ var ** k = Total(u)
  <2>1. BollingerVariance(b) = Total(u) // Q(n)
    BY Zenon, <1>1 DEF BollingerVariance
  <2> HIDE DEF u
  <2>2. PICK t \in Rat : t = Total(u)
    BY Zenon, <1>7, TotalRat
  <2>3. t // k \in Rat /\ (t // k) ** k = t
    BY Zenon, <1>3, RatQuotients
  <2> QED BY Zenon, <1>3, <2>1, <2>2, <2>3
<1> HIDE DEF u, w, n
<1>9. PICK g : Sums(g, w) /\ Total(w) = g[n]
  BY Zenon, <1>1, TotalTrace
<1>10. PICK h : Sums(h, u) /\ Total(u) = h[n]
  BY Zenon, <1>7, TotalTrace
<1>11. g[m] \in Rat /\ g[n] = g[m] ++ v /\ (m = 0 => g[m] = Q(0))
  <2>1. /\ g \in [0 .. n -> Rat] /\ g[0] = Q(0)
        /\ \A i \in 1 .. n : g[i] = g[i - 1] ++ w[i]
    BY Zenon, <1>1, <1>9 DEF Sums
  <2> QED BY Zenon, <1>1, <1>2, <2>1
<1>12. h[m] \in Rat /\ h[n] = h[m] ++ u[n]
  <2>1. h \in [0 .. n -> Rat] /\ \A i \in 1 .. n : h[i] = h[i - 1] ++ u[i]
    BY Zenon, <1>7, <1>10 DEF Sums
  <2> QED BY Zenon, <1>2, <2>1
<1>13. PICK ml \in Rat : ml = mean ** l
  BY Zenon, RatProducts
<1>14. g[m] = ml ++ gap
  <2>1. mean ** k = ml ++ mean
    <3>1. mean ** (l ++ one) = (mean ** l) ++ (mean ** one)
      BY SMT, RatProducts3
    <3>2. mean ** one = mean
      BY Zenon, <1>3, RatProducts
    <3> QED BY Zenon, <1>3, <1>13, <3>1, <3>2
  <2>2. (g[m] ++ v) -- v = g[m]
    BY Zenon, <1>11, RatSums
  <2>3. (ml ++ mean) -- v = ml ++ (mean -- v)
    BY SMT, RatSums3
  <2> QED BY Zenon, <1>4, <1>5, <1>9, <1>11, <2>1, <2>2, <2>3

<1>15. Q(0) \in Rat /\ ~(b.mult \prec Q(0))
  BY Zenon, <1>1, ZeroOne, RatOrder
<1>16. SUFFICES ASSUME Q(0) \prec gap, (b.mult ** b.mult) ** var \prec gap ** gap
                PROVE  FALSE
  BY Zenon, <1>4, <1>5, <1>8, <1>15 DEF BelowLower
<1>17. CASE m = 0
  <2>1. ml = Q(0)
    BY Zenon, <1>3, <1>13, <1>17, RatProducts
  <2>2. Q(0) ++ gap = gap ++ Q(0) /\ gap ++ Q(0) = gap
    BY Zenon, <1>15, RatSums
  <2>3. gap = Q(0)
    BY Zenon, <1>11, <1>14, <1>17, <2>1, <2>2
  <2> QED BY Zenon, <1>16, <1>15, <2>3, RatOrder
<1>18. CASE m # 0
  <2>1. Q(0) \prec l
    <3>1. m \in Period
      BY <1>18 DEF Period
    <3> QED BY Zenon, <1>3, <3>1, QPositive
  <2>2. PICK c \in Rat : c ** l = gap /\ Q(0) \prec c
    BY Zenon, <1>16, <2>1, RatQuotients, PositiveClosed
  <2>3. PICK a \in Rat, cc \in Rat, cg \in Rat, gg \in Rat :
          a = c ++ c /\ cc = c ** c /\ cg = c ** gap /\ gg = gap ** gap
    BY Zenon, RatSums, RatProducts
  <2>4. PICK am \in Rat : am = a ** mean
    BY Zenon, RatProducts
  <2>5. PICK e \in Rat : e = am ++ cc
    BY Zenon, RatSums
  <2>6. ASSUME NEW i \in 1 .. m PROVE (a ** w[i]) -- e \preceq u[i]
    <3>1. PICK x \in Rat, y \in Rat : x = w[i] /\ y = x -- mean /\ u[i] = y ** y
      BY Zenon, <1>2, <1>6, <1>7
    <3>2. PICK ax \in Rat : ax = a ** x
      BY Zenon, RatProducts
    <3>3. (a ** y) -- cc \preceq y ** y
      BY Zenon, <2>3, RatTangent
    <3>4. a ** y = ax -- am
      <4>1. a ** (x -- mean) = (a ** x) -- (a ** mean)
        BY SMT, RatProducts3
      <4> QED BY Zenon, <2>4, <3>1, <3>2, <4>1
    <3>5. ax -- (am ++ cc) = (ax -- am) -- cc
      BY SMT, RatSums3
    <3> QED BY Zenon, <2>5, <3>1, <3>2, <3>3, <3>4, <3>5
  <2>7. (a ** g[m]) -- (e ** l) \preceq h[m]
    BY Zenon, <1>1, <1>2, <1>3, <1>7, <1>9, <1>10, <2>6, SumsAbove
  <2>8. (a ** g[m]) -- (e ** l) = cg
    <3>1. ((c ++ c) ** ((mean ** l) ++ gap)) -- ((((c ++ c) ** mean) ++ (c ** c)) ** l)
            = c ** gap
      BY SMT, <2>2, BandIdentity
    <3> QED BY Zenon, <1>13, <1>14, <2>3, <2>4, <2>5, <3>1
  <2>9. u[n] = gg
    <3>1. (v -- mean) ** (v -- mean) = (mean -- v) ** (mean -- v)
      BY Zenon, RatSquareSwap
    <3> QED BY Zenon, <1>1, <1>2, <1>5, <1>7, <2>3, <3>1
  <2>10. gg = cg ** l
    <3>1. (c ** l) ** gap = c ** (l ** gap)
      BY SMTT(20), RatProducts3
    <3>2. (c ** gap) ** l = c ** (gap ** l)
      BY SMT, RatProducts3
    <3>3. l ** gap = gap ** l
      BY Zenon, RatProducts
    <3> QED BY Zenon, <2>2, <2>3, <3>1, <3>2, <3>3
  <2>11. cg ** k = cg ++ gg
    <3>1. cg ** (l ++ one) = (cg ** l) ++ (cg ** one)
      BY SMT, RatProducts3
    <3>2. cg ** one = cg /\ gg ++ cg = cg ++ gg
      BY Zenon, <1>3, RatProducts, RatSums
    <3> QED BY Zenon, <1>3, <2>10, <3>1, <3>2
  <2>12. cg ** k \preceq var ** k
    <3>1. gg \preceq gg
      BY Zenon, RatOrder
    <3>2. cg \preceq h[m]
      BY Zenon, <2>7, <2>8
    <3>3. cg ++ gg \preceq h[m] ++ gg
      BY Zenon, <1>12, <3>1, <3>2, RatAdds
    <3> QED BY Zenon, <1>8, <1>10, <1>12, <2>9, <2>11, <3>3
  <2>13. cg \preceq var
    BY Zenon, <1>3, <2>12, RatScaled
  <2>14. Q(0) \preceq var
    <3>1. Q(0) \prec cg
      BY Zenon, <1>16, <2>2, <2>3, PositiveClosed
    <3>2. Q(0) \prec var
      BY SMT, <1>15, <2>13, <3>1, RatTransitive
    <3> QED BY Zenon, <1>15, <3>2, RatOrder
  <2>15. gg \preceq var ** l
    BY Zenon, <2>1, <2>10, <2>13, RatScaled
  <2>16. PICK q \in Rat : q = b.mult ** b.mult /\ l \preceq q
    BY Zenon, <1>1, <1>3, RatProducts
  <2>17. l ** var \preceq q ** var
    BY Zenon, <2>14, <2>16, RatGrown
  <2>18. PICK x \in Rat, y \in Rat : x = var ** l /\ y = q ** var /\ x = l ** var
    BY Zenon, RatProducts
  <2>19. gg \preceq x /\ x \preceq y /\ y \prec gg
    BY Zenon, <1>16, <2>3, <2>15, <2>16, <2>17, <2>18
  <2>20. x \prec gg
    BY SMT, <2>19, RatTransitive
  <2> QED BY Zenon, <2>19, <2>20, RatOrder
<1> QED BY Zenon, <1>17, <1>18
-----------------------------------------------------------------------------
(* Types of the strategies *)
SmaCrossType  == [kind : {"sma_cross"}, fast : SmaType, slow : SmaType,
                  prev_above : BOOLEAN, has_prev : BOOLEAN]
EmaCrossType  == [kind : {"ema_cross"}, fast : EmaType, slow : EmaType,
                  prev_above : BOOLEAN, has_prev : BOOLEAN]
MacdCrossType == [kind : {"macd_cross"}, macd : MacdType,
                  prev_above : BOOLEAN, has_prev : BOOLEAN]
ReversionType == [kind : {"rsi"}, rsi : RsiType, lower : Rat, upper : Rat]
BollingerType == [kind : {"bollinger"}, bb : BandType]
DonchianType  == [kind : {"donchian"}, entry : DonType, exit : DonType]

StrategyType ==
  UNION {SmaCrossType, EmaCrossType, MacdCrossType, ReversionType, BollingerType,
         DonchianType, {UserStrategy}}

LEMMA BarFacts ==
  ASSUME NEW bar \in Bar
  PROVE  /\ bar.high \in Rat /\ bar.low \in Rat /\ bar.close \in Rat
         /\ Q(0) \prec bar.close /\ bar.low \preceq bar.high
BY Zenon DEF Bar

-----------------------------------------------------------------------------
(* What on_bar() does to the members that the crossing logic uses: nothing *)
(* during the warm-up, and a comparison with the previous one after it.    *)
Turn(s, t, a) ==
  \/ a = "hold" /\ t.prev_above = s.prev_above /\ t.has_prev = s.has_prev
  \/ /\ t.has_prev
     /\ a = CASE s.has_prev /\ t.prev_above /\ ~s.prev_above -> "buy"
              [] s.has_prev /\ ~t.prev_above /\ s.prev_above -> "sell"
              [] OTHER -> "hold"

LEMMA PrecBoolean ==
  ASSUME NEW x, NEW y
  PROVE  (x \prec y) \in BOOLEAN
BY DEF \prec

LEMMA SmaCrossOnBarType ==
  ASSUME NEW s \in SmaCrossType, NEW bar \in Bar
  PROVE  LET o == SmaCrossOnBar(s, bar)
         IN  o[1] \in SmaCrossType /\ o[2] \in Actions /\ Turn(s, o[1], o[2])
<1>1. s.fast \in SmaType /\ s.slow \in SmaType /\ bar.close \in Rat
  BY BarFacts DEF SmaCrossType
<1> DEFINE p == [s EXCEPT !.fast = SmaPush(@, bar.close), !.slow = SmaPush(@, bar.close)]
<1>2. SmaPush(s.fast, bar.close) \in SmaType /\ SmaPush(s.slow, bar.close) \in SmaType
  BY Zenon, <1>1, SmaPushType
<1>3. p.prev_above = s.prev_above /\ p.has_prev = s.has_prev
  BY SMT DEF SmaCrossType
<1>4. p \in SmaCrossType /\ p.prev_above = s.prev_above /\ p.has_prev = s.has_prev
  BY Zenon, <1>2, <1>3 DEF SmaCrossType
<1> DEFINE above == SmaValue(p.slow) \prec SmaValue(p.fast)
<1>5. above \in BOOLEAN
  BY Zenon, PrecBoolean
<1>6. SmaCrossOnBar(s, bar) = IF SmaReady(p.slow) THEN Crossed(p, above) ELSE <<p, "hold">>
  BY Zenon DEF SmaCrossOnBar
<1> HIDE DEF above, p
<1>7. PICK t : t = [p EXCEPT !.prev_above = above, !.has_prev = TRUE]
  BY Zenon
<1>8. t \in SmaCrossType /\ t.prev_above = above /\ t.has_prev = TRUE
  <2>1. t \in SmaCrossType
    BY Zenon, <1>4, <1>5, <1>7 DEF SmaCrossType
  <2>2. t.prev_above = above /\ t.has_prev = TRUE
    BY SMT, <1>4, <1>5, <1>7 DEF SmaCrossType
  <2> QED BY Zenon, <2>1, <2>2
<1>9. CASE SmaReady(p.slow)
  <2>1. SmaCrossOnBar(s, bar)[1] = t /\ SmaCrossOnBar(s, bar)[2] \in Actions
    BY <1>6, <1>7, <1>9 DEF Crossed, Actions
  <2>2. SmaCrossOnBar(s, bar)[2] =
          CASE s.has_prev /\ above /\ ~s.prev_above -> "buy"
            [] s.has_prev /\ ~above /\ s.prev_above -> "sell"
            [] OTHER -> "hold"
    BY <1>4, <1>6, <1>9 DEF Crossed
  <2> QED BY Zenon, <1>8, <2>1, <2>2 DEF Turn
<1>10. CASE ~SmaReady(p.slow)
  BY <1>4, <1>6, <1>10 DEF Turn, Actions
<1> QED BY Zenon, <1>9, <1>10

LEMMA EmaCrossOnBarType ==
  ASSUME NEW s \in EmaCrossType, NEW bar \in Bar
  PROVE  LET o == EmaCrossOnBar(s, bar)
         IN  o[1] \in EmaCrossType /\ o[2] \in Actions /\ Turn(s, o[1], o[2])
<1>1. s.fast \in EmaType /\ s.slow \in EmaType /\ bar.close \in Rat
  BY BarFacts DEF EmaCrossType
<1> DEFINE p == [s EXCEPT !.fast = EmaPush(@, bar.close), !.slow = EmaPush(@, bar.close)]
<1>2. EmaPush(s.fast, bar.close) \in EmaType /\ EmaPush(s.slow, bar.close) \in EmaType
  BY Zenon, <1>1, EmaPushType
<1>3. p.prev_above = s.prev_above /\ p.has_prev = s.has_prev
  BY SMT DEF EmaCrossType
<1>4. p \in EmaCrossType /\ p.prev_above = s.prev_above /\ p.has_prev = s.has_prev
  BY Zenon, <1>2, <1>3 DEF EmaCrossType
<1> DEFINE above == p.slow.value \prec p.fast.value
<1>5. above \in BOOLEAN
  BY Zenon, PrecBoolean
<1>6. EmaCrossOnBar(s, bar) =
        IF p.slow.ready /\ p.fast.ready THEN Crossed(p, above) ELSE <<p, "hold">>
  BY Zenon DEF EmaCrossOnBar
<1> HIDE DEF above, p
<1>7. PICK t : t = [p EXCEPT !.prev_above = above, !.has_prev = TRUE]
  BY Zenon
<1>8. t \in EmaCrossType /\ t.prev_above = above /\ t.has_prev = TRUE
  <2>1. t \in EmaCrossType
    BY Zenon, <1>4, <1>5, <1>7 DEF EmaCrossType
  <2>2. t.prev_above = above /\ t.has_prev = TRUE
    BY SMT, <1>4, <1>5, <1>7 DEF EmaCrossType
  <2> QED BY Zenon, <2>1, <2>2
<1>9. CASE p.slow.ready /\ p.fast.ready
  <2>1. EmaCrossOnBar(s, bar)[1] = t /\ EmaCrossOnBar(s, bar)[2] \in Actions
    BY <1>6, <1>7, <1>9 DEF Crossed, Actions
  <2>2. EmaCrossOnBar(s, bar)[2] =
          CASE s.has_prev /\ above /\ ~s.prev_above -> "buy"
            [] s.has_prev /\ ~above /\ s.prev_above -> "sell"
            [] OTHER -> "hold"
    BY <1>4, <1>6, <1>9 DEF Crossed
  <2> QED BY Zenon, <1>8, <2>1, <2>2 DEF Turn
<1>10. CASE ~(p.slow.ready /\ p.fast.ready)
  BY <1>4, <1>6, <1>10 DEF Turn, Actions
<1> QED BY Zenon, <1>9, <1>10

LEMMA MacdCrossOnBarType ==
  ASSUME NEW s \in MacdCrossType, NEW bar \in Bar
  PROVE  LET o == MacdCrossOnBar(s, bar)
         IN  o[1] \in MacdCrossType /\ o[2] \in Actions /\ Turn(s, o[1], o[2])
<1>1. s.macd \in MacdType /\ bar.close \in Rat
  BY BarFacts DEF MacdCrossType
<1> DEFINE p == [s EXCEPT !.macd = MacdPush(@, bar.close)]
<1>2. MacdPush(s.macd, bar.close) \in MacdType
  BY Zenon, <1>1, MacdPushType
<1>3. p.prev_above = s.prev_above /\ p.has_prev = s.has_prev
  BY SMT DEF MacdCrossType
<1>4. p \in MacdCrossType /\ p.prev_above = s.prev_above /\ p.has_prev = s.has_prev
  BY Zenon, <1>2, <1>3 DEF MacdCrossType
<1> DEFINE above == Q(0) \prec MacdHistogram(p.macd)
<1>5. above \in BOOLEAN
  BY Zenon, PrecBoolean
<1>6. MacdCrossOnBar(s, bar) =
        IF p.macd.signal.ready THEN Crossed(p, above) ELSE <<p, "hold">>
  BY Zenon DEF MacdCrossOnBar
<1> HIDE DEF above, p
<1>7. PICK t : t = [p EXCEPT !.prev_above = above, !.has_prev = TRUE]
  BY Zenon
<1>8. t \in MacdCrossType /\ t.prev_above = above /\ t.has_prev = TRUE
  <2>1. t \in MacdCrossType
    BY Zenon, <1>4, <1>5, <1>7 DEF MacdCrossType
  <2>2. t.prev_above = above /\ t.has_prev = TRUE
    BY SMT, <1>4, <1>5, <1>7 DEF MacdCrossType
  <2> QED BY Zenon, <2>1, <2>2
<1>9. CASE p.macd.signal.ready
  <2>1. MacdCrossOnBar(s, bar)[1] = t /\ MacdCrossOnBar(s, bar)[2] \in Actions
    BY <1>6, <1>7, <1>9 DEF Crossed, Actions
  <2>2. MacdCrossOnBar(s, bar)[2] =
          CASE s.has_prev /\ above /\ ~s.prev_above -> "buy"
            [] s.has_prev /\ ~above /\ s.prev_above -> "sell"
            [] OTHER -> "hold"
    BY <1>4, <1>6, <1>9 DEF Crossed
  <2> QED BY Zenon, <1>8, <2>1, <2>2 DEF Turn
<1>10. CASE ~p.macd.signal.ready
  BY <1>4, <1>6, <1>10 DEF Turn, Actions
<1> QED BY Zenon, <1>9, <1>10

LEMMA ReversionOnBarType ==
  ASSUME NEW s \in ReversionType, NEW bar \in Bar
  PROVE  RsiReversionOnBar(s, bar)[1] \in ReversionType
         /\ RsiReversionOnBar(s, bar)[2] \in Actions
<1>1. s.rsi \in RsiType /\ bar.close \in Rat
  BY BarFacts DEF ReversionType
<1>2. RsiPush(s.rsi, bar.close) \in RsiType
  BY Zenon, <1>1, RsiPushType
<1>3. [s EXCEPT !.rsi = RsiPush(@, bar.close)] \in ReversionType
  BY Zenon, <1>2 DEF ReversionType
<1> QED BY <1>3 DEF RsiReversionOnBar, Actions

LEMMA BollingerOnBarType ==
  ASSUME NEW s \in BollingerType, NEW bar \in Bar
  PROVE  BollingerReversionOnBar(s, bar)[1] \in BollingerType
         /\ BollingerReversionOnBar(s, bar)[2] \in Actions
<1>1. s.bb \in BandType /\ bar.close \in Rat
  BY BarFacts DEF BollingerType
<1>2. BollingerPush(s.bb, bar.close) \in BandType
  BY Zenon, <1>1, BollingerPushType
<1>3. [s EXCEPT !.bb = BollingerPush(@, bar.close)] \in BollingerType
  BY Zenon, <1>2 DEF BollingerType
<1> QED BY <1>3 DEF BollingerReversionOnBar, Actions

LEMMA DonchianOnBarType ==
  ASSUME NEW s \in DonchianType, NEW bar \in Bar
  PROVE  DonchianBreakoutOnBar(s, bar)[1] \in DonchianType
         /\ DonchianBreakoutOnBar(s, bar)[2] \in Actions
<1>1. s.entry \in DonType /\ s.exit \in DonType /\ bar.high \in Rat /\ bar.low \in Rat
  BY BarFacts DEF DonchianType
<1>2. /\ DonchianPush(s.entry, bar.high, bar.low) \in DonType
      /\ DonchianPush(s.exit, bar.high, bar.low) \in DonType
  BY Zenon, <1>1, DonchianPushType
<1>3. DonchianPushed(s, bar) \in DonchianType
  BY Zenon, <1>2 DEF DonchianType, DonchianPushed
<1>4. DonchianAction(s, bar) \in Actions
  BY DEF DonchianAction, Actions
<1> QED BY <1>3, <1>4 DEF DonchianBreakoutOnBar

(* on_bar() by kind *)
LEMMA OnBarIs ==
  ASSUME NEW s \in StrategyType, NEW bar
  PROVE  \/ /\ s = UserStrategy /\ s.kind = "user"
            /\ on_bar(s, bar) = {<<s, a>> : a \in Actions}
         \/ /\ s \in SmaCrossType /\ s.kind = "sma_cross"
            /\ on_bar(s, bar) = {SmaCrossOnBar(s, bar)}
         \/ /\ s \in EmaCrossType /\ s.kind = "ema_cross"
            /\ on_bar(s, bar) = {EmaCrossOnBar(s, bar)}
         \/ /\ s \in MacdCrossType /\ s.kind = "macd_cross"
            /\ on_bar(s, bar) = {MacdCrossOnBar(s, bar)}
         \/ /\ s \in ReversionType /\ s.kind = "rsi"
            /\ on_bar(s, bar) = {RsiReversionOnBar(s, bar)}
         \/ /\ s \in BollingerType /\ s.kind = "bollinger"
            /\ on_bar(s, bar) = {BollingerReversionOnBar(s, bar)}
         \/ /\ s \in DonchianType /\ s.kind = "donchian"
            /\ on_bar(s, bar) = {DonchianBreakoutOnBar(s, bar)}
<1>1. \/ s = UserStrategy \/ s \in SmaCrossType \/ s \in EmaCrossType \/ s \in MacdCrossType
      \/ s \in ReversionType \/ s \in BollingerType \/ s \in DonchianType
  BY DEF StrategyType
<1>2. /\ s = UserStrategy => s.kind = "user"
      /\ s \in SmaCrossType => s.kind = "sma_cross"
      /\ s \in EmaCrossType => s.kind = "ema_cross"
      /\ s \in MacdCrossType => s.kind = "macd_cross"
      /\ s \in ReversionType => s.kind = "rsi"
      /\ s \in BollingerType => s.kind = "bollinger"
      /\ s \in DonchianType => s.kind = "donchian"
  BY DEF UserStrategy, SmaCrossType, EmaCrossType, MacdCrossType, ReversionType,
         BollingerType, DonchianType
<1>3. /\ s.kind = "user" => on_bar(s, bar) = {<<s, a>> : a \in Actions}
      /\ s.kind = "sma_cross" => on_bar(s, bar) = {SmaCrossOnBar(s, bar)}
      /\ s.kind = "ema_cross" => on_bar(s, bar) = {EmaCrossOnBar(s, bar)}
      /\ s.kind = "macd_cross" => on_bar(s, bar) = {MacdCrossOnBar(s, bar)}
      /\ s.kind = "rsi" => on_bar(s, bar) = {RsiReversionOnBar(s, bar)}
      /\ s.kind = "bollinger" => on_bar(s, bar) = {BollingerReversionOnBar(s, bar)}
      /\ s.kind = "donchian" => on_bar(s, bar) = {DonchianBreakoutOnBar(s, bar)}
  BY SMT DEF on_bar
<1> QED BY Zenon, <1>1, <1>2, <1>3

Crossing == {"sma_cross", "ema_cross", "macd_cross"}

LEMMA OnBarType ==
  ASSUME NEW s \in StrategyType, NEW bar \in Bar, NEW o \in on_bar(s, bar)
  PROVE  /\ o[1] \in StrategyType /\ o[1].kind = s.kind /\ o[2] \in Actions
         /\ s.kind \in Crossing =>
              /\ s.prev_above \in BOOLEAN /\ s.has_prev \in BOOLEAN
              /\ o[1].prev_above \in BOOLEAN /\ o[1].has_prev \in BOOLEAN
              /\ Turn(s, o[1], o[2])
<1>1. CASE s = UserStrategy /\ s.kind = "user" /\ on_bar(s, bar) = {<<s, a>> : a \in Actions}
  BY <1>1 DEF StrategyType, Crossing
<1>2. CASE s \in SmaCrossType /\ s.kind = "sma_cross" /\ on_bar(s, bar) = {SmaCrossOnBar(s, bar)}
  <2>1. o[1] \in SmaCrossType /\ o[2] \in Actions /\ Turn(s, o[1], o[2])
    BY Zenon, <1>2, SmaCrossOnBarType
  <2>2. /\ o[1].kind = "sma_cross" /\ o[1].prev_above \in BOOLEAN /\ o[1].has_prev \in BOOLEAN
        /\ s.prev_above \in BOOLEAN /\ s.has_prev \in BOOLEAN
    BY <1>2, <2>1 DEF SmaCrossType
  <2> QED BY <1>2, <2>1, <2>2 DEF StrategyType
<1>3. CASE s \in EmaCrossType /\ s.kind = "ema_cross" /\ on_bar(s, bar) = {EmaCrossOnBar(s, bar)}
  <2>1. o[1] \in EmaCrossType /\ o[2] \in Actions /\ Turn(s, o[1], o[2])
    BY Zenon, <1>3, EmaCrossOnBarType
  <2>2. /\ o[1].kind = "ema_cross" /\ o[1].prev_above \in BOOLEAN /\ o[1].has_prev \in BOOLEAN
        /\ s.prev_above \in BOOLEAN /\ s.has_prev \in BOOLEAN
    BY <1>3, <2>1 DEF EmaCrossType
  <2> QED BY <1>3, <2>1, <2>2 DEF StrategyType
<1>4. CASE s \in MacdCrossType /\ s.kind = "macd_cross" /\ on_bar(s, bar) = {MacdCrossOnBar(s, bar)}
  <2>1. o[1] \in MacdCrossType /\ o[2] \in Actions /\ Turn(s, o[1], o[2])
    BY Zenon, <1>4, MacdCrossOnBarType
  <2>2. /\ o[1].kind = "macd_cross" /\ o[1].prev_above \in BOOLEAN /\ o[1].has_prev \in BOOLEAN
        /\ s.prev_above \in BOOLEAN /\ s.has_prev \in BOOLEAN
    BY <1>4, <2>1 DEF MacdCrossType
  <2> QED BY <1>4, <2>1, <2>2 DEF StrategyType
<1>5. CASE s \in ReversionType /\ s.kind = "rsi" /\ on_bar(s, bar) = {RsiReversionOnBar(s, bar)}
  <2>1. o[1] \in ReversionType /\ o[2] \in Actions
    BY Zenon, <1>5, ReversionOnBarType
  <2>2. o[1].kind = "rsi"
    BY <2>1 DEF ReversionType
  <2> QED BY <1>5, <2>1, <2>2 DEF StrategyType, Crossing
<1>6. CASE s \in BollingerType /\ s.kind = "bollinger"
           /\ on_bar(s, bar) = {BollingerReversionOnBar(s, bar)}
  <2>1. o[1] \in BollingerType /\ o[2] \in Actions
    BY Zenon, <1>6, BollingerOnBarType
  <2>2. o[1].kind = "bollinger"
    BY <2>1 DEF BollingerType
  <2> QED BY <1>6, <2>1, <2>2 DEF StrategyType, Crossing
<1>7. CASE s \in DonchianType /\ s.kind = "donchian"
           /\ on_bar(s, bar) = {DonchianBreakoutOnBar(s, bar)}
  <2>1. o[1] \in DonchianType /\ o[2] \in Actions
    BY Zenon, <1>7, DonchianOnBarType
  <2>2. o[1].kind = "donchian"
    BY <2>1 DEF DonchianType
  <2> QED BY <1>7, <2>1, <2>2 DEF StrategyType, Crossing
<1> QED BY ZenonT(40), <1>1, <1>2, <1>3, <1>4, <1>5, <1>6, <1>7, OnBarIs

(* A constructed strategy has the type of its kind. *)
LEMMA ConstructedType ==
  ASSUME NEW s, Constructed(s)
  PROVE  s \in StrategyType
<1>1. CASE s = UserStrategy
  BY <1>1 DEF StrategyType
<1>2. CASE /\ {s.fast.period, s.slow.period} \subseteq Period
           /\ s = SmaCross(s.fast.period, s.slow.period)
  <2>1. PICK p \in Period, q \in Period : s = SmaCross(p, q)
    BY Zenon, <1>2
  <2>2. s \in SmaCrossType
    BY <2>1, SmaMade DEF SmaCross, SmaCrossType
  <2> QED BY <2>2 DEF StrategyType
<1>3. CASE /\ {s.fast.seed.period, s.slow.seed.period} \subseteq Period
           /\ s = EmaCross(s.fast.seed.period, s.slow.seed.period)
  <2>1. PICK p \in Period, q \in Period : s = EmaCross(p, q)
    BY Zenon, <1>3
  <2>2. s \in EmaCrossType
    BY <2>1, EmaMade DEF EmaCross, EmaCrossType
  <2> QED BY <2>2 DEF StrategyType
<1>4. CASE /\ {s.macd.fast.seed.period, s.macd.slow.seed.period,
               s.macd.signal.seed.period} \subseteq Period
           /\ s = MacdCross(s.macd.fast.seed.period, s.macd.slow.seed.period,
                            s.macd.signal.seed.period)
  <2>1. PICK p \in Period, q \in Period, r \in Period : s = MacdCross(p, q, r)
    BY Zenon, <1>4
  <2>2. s \in MacdCrossType
    BY <2>1, EmaMade DEF MacdCross, MacdCrossType, Macd, MacdType
  <2> QED BY <2>2 DEF StrategyType
<1>5. CASE /\ s.rsi.period \in Period /\ {s.lower, s.upper} \subseteq Rat
           /\ s = RsiReversion(s.rsi.period, s.lower, s.upper)
  <2>1. PICK p \in Period, l \in Rat, u \in Rat : s = RsiReversion(p, l, u)
    BY Zenon, <1>5
  <2>2. s \in ReversionType
    BY <2>1, ZeroOne DEF RsiReversion, ReversionType, Rsi, RsiType
  <2> QED BY <2>2 DEF StrategyType
<1>6. CASE /\ s.bb.period \in Period /\ s.bb.mult \in Rat
           /\ s = BollingerReversion(s.bb.period, s.bb.mult)
  <2>1. PICK p \in Period, m \in Rat : s = BollingerReversion(p, m)
    BY Zenon, <1>6
  <2>2. s \in BollingerType
    BY <2>1 DEF BollingerReversion, BollingerType, Bollinger, BandType
  <2> QED BY <2>2 DEF StrategyType
<1>7. CASE /\ {s.entry.period, s.exit.period} \subseteq Period
           /\ s = DonchianBreakout(s.entry.period, s.exit.period)
  <2>1. PICK p \in Period, q \in Period : s = DonchianBreakout(p, q)
    BY Zenon, <1>7
  <2>2. s \in DonchianType
    BY <2>1 DEF DonchianBreakout, DonchianType, Donchian, DonType
  <2> QED BY <2>2 DEF StrategyType
<1> QED BY Zenon, <1>1, <1>2, <1>3, <1>4, <1>5, <1>6, <1>7 DEF Constructed

-----------------------------------------------------------------------------
LEMMA OnBarPair ==
  ASSUME NEW s \in StrategyType, NEW bar \in Bar, NEW o \in on_bar(s, bar)
  PROVE  o = <<o[1], o[2]>>
<1>1. CASE s = UserStrategy /\ on_bar(s, bar) = {<<s, a>> : a \in Actions}
  BY <1>1
<1>2. CASE on_bar(s, bar) = {SmaCrossOnBar(s, bar)}
  BY <1>2 DEF SmaCrossOnBar, Crossed
<1>3. CASE on_bar(s, bar) = {EmaCrossOnBar(s, bar)}
  BY <1>3 DEF EmaCrossOnBar, Crossed
<1>4. CASE on_bar(s, bar) = {MacdCrossOnBar(s, bar)}
  BY <1>4 DEF MacdCrossOnBar, Crossed
<1>5. CASE on_bar(s, bar) = {RsiReversionOnBar(s, bar)}
  BY <1>5 DEF RsiReversionOnBar
<1>6. CASE on_bar(s, bar) = {BollingerReversionOnBar(s, bar)}
  BY <1>6 DEF BollingerReversionOnBar
<1>7. CASE on_bar(s, bar) = {DonchianBreakoutOnBar(s, bar)}
  BY <1>7 DEF DonchianBreakoutOnBar
<1> QED BY Zenon, <1>1, <1>2, <1>3, <1>4, <1>5, <1>6, <1>7, OnBarIs

(* What CrossesAlternate says of one signal. *)
SignalAlternates(acts, s, i) ==
  /\ \A j \in i + 1 .. Len(acts) : acts[j] = acts[i] =>
       \E k \in i + 1 .. j - 1 : acts[k] \notin {acts[i], "hold"}
  /\ (\A j \in i + 1 .. Len(acts) : acts[j] = "hold") =>
       s.has_prev /\ s.prev_above = (acts[i] = "buy")

Flags(s) == s.has_prev \in BOOLEAN /\ s.prev_above \in BOOLEAN

Alternating(acts, s) ==
  \A i \in DOMAIN acts : acts[i] # "hold" => s.has_prev /\ SignalAlternates(acts, s, i)

LEMMA CrossStep ==
  ASSUME NEW acts \in Seq(Actions), NEW a \in Actions, NEW s, NEW t,
         Flags(s), Flags(t), Turn(s, t, a), Alternating(acts, s)
  PROVE  Alternating(Append(acts, a), t)
<1> SUFFICES ASSUME NEW i \in DOMAIN Append(acts, a), Append(acts, a)[i] # "hold"
             PROVE  t.has_prev /\ SignalAlternates(Append(acts, a), t, i)
  BY Zenon DEF Alternating
<1> DEFINE n == Len(acts)
           b == Append(acts, a)
<1>1. /\ n \in Nat /\ Len(b) = n + 1 /\ b[n + 1] = a
      /\ \A j \in 1 .. n : b[j] = acts[j] /\ b[j] \in Actions
      /\ DOMAIN acts = 1 .. n /\ DOMAIN b = 1 .. n + 1
  OBVIOUS
<1>2. /\ a = "hold" => \/ t.prev_above = s.prev_above /\ t.has_prev = s.has_prev
                       \/ t.has_prev /\ (s.has_prev => t.prev_above = s.prev_above)
      /\ a = "buy" => t.has_prev /\ t.prev_above /\ s.has_prev /\ ~s.prev_above
      /\ a = "sell" => t.has_prev /\ ~t.prev_above /\ s.has_prev /\ s.prev_above
  BY DEF Turn, Flags
<1> HIDE DEF b, n
<1>3. CASE i = n + 1
  <2>1. a # "hold" /\ b[i] = a
    BY <1>1, <1>3 DEF b
  <2>2. t.has_prev /\ t.prev_above = (a = "buy")
    BY <1>2, <2>1 DEF Actions, Flags
  <2>3. i + 1 .. Len(b) = {}
    BY <1>1, <1>3
  <2> QED BY <2>1, <2>2, <2>3 DEF SignalAlternates, b
<1>4. CASE i # n + 1
  <2>1. i \in 1 .. n /\ b[i] = acts[i] /\ acts[i] # "hold" /\ i \in DOMAIN acts
    BY <1>1, <1>4 DEF b
  <2>2. s.has_prev /\ SignalAlternates(acts, s, i)
    BY Zenon, <2>1 DEF Alternating
  <2>3. t.has_prev
    BY Zenon, <1>2, <2>2 DEF Actions, Flags
  <2>4. ASSUME NEW j \in i + 1 .. n + 1, b[j] = b[i]
        PROVE  \E k \in i + 1 .. j - 1 : b[k] \notin {b[i], "hold"}
    <3>1. CASE j # n + 1
      <4>1. j \in i + 1 .. n /\ acts[j] = acts[i]
        BY <1>1, <2>1, <2>4, <3>1
      <4>2. PICK k \in i + 1 .. j - 1 : acts[k] \notin {acts[i], "hold"}
        BY Zenon, <2>2, <4>1 DEF SignalAlternates, n
      <4>3. b[k] = acts[k]
        BY <1>1, <2>1, <4>1
      <4> QED BY <2>1, <4>2, <4>3
    <3>2. CASE j = n + 1
      <4>1. a = acts[i]
        BY <1>1, <2>1, <2>4, <3>2
      <4>2. ~(s.prev_above = (acts[i] = "buy"))
        BY <1>2, <2>1, <4>1 DEF Actions, Flags
      <4>3. PICK m \in i + 1 .. n : acts[m] # "hold"
        BY Zenon, <2>2, <4>2 DEF SignalAlternates, n
      <4>4. CASE acts[m] # acts[i]
        <5>1. m \in i + 1 .. j - 1 /\ b[m] = acts[m]
          BY <1>1, <2>1, <3>2
        <5> QED BY <2>1, <4>3, <4>4, <5>1
      <4>5. CASE acts[m] = acts[i]
        <5>1. PICK k \in i + 1 .. m - 1 : acts[k] \notin {acts[i], "hold"}
          BY Zenon, <2>2, <4>5 DEF SignalAlternates, n
        <5>2. k \in i + 1 .. j - 1 /\ b[k] = acts[k]
          BY <1>1, <2>1, <3>2
        <5> QED BY <2>1, <5>1, <5>2
      <4> QED BY Zenon, <4>4, <4>5
    <3> QED BY Zenon, <3>1, <3>2
  <2>5. ASSUME \A j \in i + 1 .. n + 1 : b[j] = "hold"
        PROVE  t.prev_above = (b[i] = "buy")
    <3>1. a = "hold" /\ \A j \in i + 1 .. n : acts[j] = "hold"
      BY <1>1, <2>1, <2>5
    <3>2. s.prev_above = (acts[i] = "buy")
      BY Zenon, <2>2, <3>1 DEF SignalAlternates, n
    <3>3. t.prev_above = s.prev_above
      BY Zenon, <1>2, <2>2, <3>1
    <3> QED BY <2>1, <3>2, <3>3
  <2> QED BY <1>1, <2>3, <2>4, <2>5 DEF SignalAlternates, b
<1> QED BY Zenon, <1>3, <1>4

(* The columns of a history of bars *)
Closes(b) == [i \in 1 .. Len(b) |-> b[i].close]
Highs(b)  == [i \in 1 .. Len(b) |-> b[i].high]
Lows(b)   == [i \in 1 .. Len(b) |-> b[i].low]

LEMMA ColumnFacts ==
  ASSUME NEW b \in Seq(Bar)
  PROVE  /\ Closes(b) \in Seq(Rat) /\ Highs(b) \in Seq(Rat) /\ Lows(b) \in Seq(Rat)
         /\ Len(Closes(b)) = Len(b) /\ Len(Highs(b)) = Len(b) /\ Len(Lows(b)) = Len(b)
<1>1. ASSUME NEW i \in 1 .. Len(b)
      PROVE  b[i].close \in Rat /\ b[i].high \in Rat /\ b[i].low \in Rat
  <2>1. b[i] \in Bar
    OBVIOUS
  <2> QED BY Zenon, <2>1, BarFacts
<1> QED BY <1>1 DEF Closes, Highs, Lows

LEMMA ColumnAppend ==
  ASSUME NEW b \in Seq(Bar), NEW bar \in Bar
  PROVE  /\ Closes(Append(b, bar)) = Append(Closes(b), bar.close)
         /\ Highs(Append(b, bar)) = Append(Highs(b), bar.high)
         /\ Lows(Append(b, bar)) = Append(Lows(b), bar.low)
<1> DEFINE c == Append(b, bar)
<1>1. PICK n \in Nat : n = Len(b)
  OBVIOUS
<1>2. /\ c \in Seq(Bar) /\ Len(c) = n + 1 /\ c[n + 1] = bar
      /\ \A i \in 1 .. n : c[i] = b[i]
  BY <1>1
<1>3. bar.close \in Rat /\ bar.high \in Rat /\ bar.low \in Rat
  BY Zenon, BarFacts
<1>4. /\ Closes(b) \in Seq(Rat) /\ Highs(b) \in Seq(Rat) /\ Lows(b) \in Seq(Rat)
      /\ Len(Closes(b)) = n /\ Len(Highs(b)) = n /\ Len(Lows(b)) = n
  BY <1>1, ColumnFacts
<1> HIDE DEF c
<1>5. /\ Closes(c) \in Seq(Rat) /\ Highs(c) \in Seq(Rat) /\ Lows(c) \in Seq(Rat)
      /\ Len(Closes(c)) = n + 1 /\ Len(Highs(c)) = n + 1 /\ Len(Lows(c)) = n + 1
  BY <1>2, ColumnFacts
<1>6. \A i \in 1 .. n : /\ Closes(b)[i] = b[i].close /\ Highs(b)[i] = b[i].high
                        /\ Lows(b)[i] = b[i].low
  BY <1>1 DEF Closes, Highs, Lows
<1>7. \A i \in 1 .. n + 1 : /\ Closes(c)[i] = c[i].close /\ Highs(c)[i] = c[i].high
                            /\ Lows(c)[i] = c[i].low
  BY <1>2 DEF Closes, Highs, Lows
<1>8. ASSUME NEW u \in Seq(Rat), NEW w \in Seq(Rat), NEW x \in Rat,
             Len(u) = n, Len(w) = n + 1, w[n + 1] = x, \A i \in 1 .. n : w[i] = u[i]
      PROVE  w = Append(u, x)
  <2>1. /\ Append(u, x) \in Seq(Rat) /\ Len(Append(u, x)) = n + 1
        /\ Append(u, x)[n + 1] = x /\ \A i \in 1 .. n : Append(u, x)[i] = u[i]
    BY <1>8
  <2>2. ASSUME NEW i \in 1 .. n + 1 PROVE w[i] = Append(u, x)[i]
    <3>1. i \in 1 .. n \/ i = n + 1
      OBVIOUS
    <3> QED BY Zenon, <1>8, <2>1, <3>1
  <2> QED BY <1>8, <2>1, <2>2, SeqEqual
<1>9. n + 1 \in 1 .. n + 1 /\ \A i \in 1 .. n : i \in 1 .. n + 1
  OBVIOUS
<1>10. /\ Closes(c)[n + 1] = bar.close /\ Highs(c)[n + 1] = bar.high
       /\ Lows(c)[n + 1] = bar.low
  BY Zenon, <1>2, <1>7, <1>9
<1>11. \A i \in 1 .. n : /\ Closes(c)[i] = Closes(b)[i] /\ Highs(c)[i] = Highs(b)[i]
                         /\ Lows(c)[i] = Lows(b)[i]
  BY Zenon, <1>2, <1>6, <1>7, <1>9
<1>12. Closes(c) = Append(Closes(b), bar.close)
  BY Zenon, <1>3, <1>4, <1>5, <1>8, <1>10, <1>11
<1>13. Highs(c) = Append(Highs(b), bar.high)
  BY Zenon, <1>3, <1>4, <1>5, <1>8, <1>10, <1>11
<1>14. Lows(c) = Append(Lows(b), bar.low)
  BY Zenon, <1>3, <1>4, <1>5, <1>8, <1>10, <1>11
<1> QED BY Zenon, <1>12, <1>13, <1>14 DEF c

-----------------------------------------------------------------------------
(* SmaCross: its two averages track the closes, and the comparison it      *)
(* remembers is the one of the means over the history.                     *)
MeanOf(b, i, p) ==
  Total([j \in 1 .. Least(i, p) |-> b[i - Least(i, p) + j].close]) // Q(Least(i, p))

Above(b, i, fast, slow) == MeanOf(b, i, slow) \prec MeanOf(b, i, fast)

SmaSignal(b, i, fast, slow) ==
  CASE i > slow /\ Above(b, i, fast, slow) /\ ~Above(b, i - 1, fast, slow) -> "buy"
    [] i > slow /\ ~Above(b, i, fast, slow) /\ Above(b, i - 1, fast, slow) -> "sell"
    [] OTHER -> "hold"

SmaKnows(s, b) ==
  /\ SmaTracks(s.fast, Closes(b)) /\ SmaTracks(s.slow, Closes(b))
  /\ s.has_prev <=> Len(b) >= s.slow.period
  /\ s.has_prev => (s.prev_above <=> Above(b, Len(b), s.fast.period, s.slow.period))

LEMMA MeanThen ==
  ASSUME NEW b \in Seq(Bar), NEW bar \in Bar, NEW p \in Period
  PROVE  MeanOf(Append(b, bar), Len(b), p) = MeanOf(b, Len(b), p)
<1>1. PICK n \in Nat : n = Len(b)
  OBVIOUS
<1>2. PICK m \in Nat : m = Least(n, p) /\ m <= n
  BY DEF Least, Period
<1>3. \A i \in 1 .. n : Append(b, bar)[i] = b[i]
  BY <1>1
<1>4. \A j \in 1 .. m : n - m + j \in 1 .. n
  BY <1>2
<1>5. [j \in 1 .. m |-> Append(b, bar)[n - m + j].close] = [j \in 1 .. m |-> b[n - m + j].close]
  BY Zenon, <1>3, <1>4
<1> QED BY Zenon, <1>1, <1>2, <1>5 DEF MeanOf

LEMMA MeanNow ==
  ASSUME NEW b \in Seq(Bar), NEW p \in Period
  PROVE  LET w == Recent(Closes(b), p)
         IN  MeanOf(b, Len(b), p) = Total(w) // Q(Len(w))
<1>1. PICK n \in Nat : n = Len(b)
  OBVIOUS
<1>2. PICK m \in Nat : m = Least(n, p) /\ m <= n
  BY DEF Least, Period
<1>3. /\ Closes(b) \in Seq(Rat) /\ Len(Closes(b)) = n
      /\ \A i \in 1 .. n : Closes(b)[i] = b[i].close
  BY <1>1, ColumnFacts DEF Closes
<1>4. \A j \in 1 .. m : n - m + j \in 1 .. n
  BY <1>2
<1>5. Recent(Closes(b), p) = [j \in 1 .. m |-> Closes(b)[n - m + j]]
  BY Zenon, <1>2, <1>3 DEF Recent
<1>6. [j \in 1 .. m |-> Closes(b)[n - m + j]] = [j \in 1 .. m |-> b[n - m + j].close]
  BY Zenon, <1>3, <1>4
<1>7. Len(Recent(Closes(b), p)) = m
  BY Zenon, <1>2, <1>3, RecentFacts
<1> QED BY Zenon, <1>1, <1>2, <1>5, <1>6, <1>7 DEF MeanOf

LEMMA SmaValueIs ==
  ASSUME NEW s \in SmaType, NEW b \in Seq(Bar), SmaTracks(s, Closes(b))
  PROVE  /\ SmaValue(s) = MeanOf(b, Len(b), s.period)
         /\ SmaReady(s) <=> Len(b) >= s.period
<1>1. s.period \in Period
  BY DEF SmaType
<1>2. Closes(b) \in Seq(Rat) /\ Len(Closes(b)) = Len(b) /\ Len(b) \in Nat
  BY ColumnFacts
<1>3. Len(s.window) = Least(Len(b), s.period)
  <2>1. Len(Recent(Closes(b), s.period)) = Least(Len(Closes(b)), s.period)
    BY Zenon, <1>1, <1>2, RecentFacts
  <2> QED BY Zenon, <1>2, <2>1 DEF SmaTracks
<1>4. SmaReady(s) <=> Len(b) >= s.period
  BY <1>1, <1>2, <1>3 DEF SmaReady, Least, Period
<1>5. SmaValue(s) = MeanOf(b, Len(b), s.period)
  BY Zenon, <1>1, MeanNow DEF SmaTracks, SmaValue
<1> QED BY Zenon, <1>4, <1>5

LEMMA SmaKnowsStep ==
  ASSUME NEW s \in SmaCrossType, NEW b \in Seq(Bar), NEW bar \in Bar, SmaKnows(s, b)
  PROVE  LET o == SmaCrossOnBar(s, bar)
             c == Append(b, bar)
         IN  /\ SmaKnows(o[1], c)
             /\ o[2] = SmaSignal(c, Len(c), o[1].fast.period, o[1].slow.period)
<1> DEFINE o == SmaCrossOnBar(s, bar)
           c == Append(b, bar)
           x == bar.close
           fast == SmaPush(s.fast, x)
           slow == SmaPush(s.slow, x)
           p == [s EXCEPT !.fast = SmaPush(@, x), !.slow = SmaPush(@, x)]
           f == s.fast.period
           l == s.slow.period
<1>1. /\ s.fast \in SmaType /\ s.slow \in SmaType /\ x \in Rat
      /\ s.has_prev \in BOOLEAN /\ s.prev_above \in BOOLEAN
      /\ f \in Period /\ l \in Period
  BY BarFacts DEF SmaCrossType, SmaType
<1>2. PICK n \in Nat : n = Len(b)
  OBVIOUS
<1>3. c \in Seq(Bar) /\ Len(c) = n + 1
  BY <1>2
<1>4. /\ fast \in SmaType /\ slow \in SmaType /\ fast.period = f /\ slow.period = l
  BY Zenon, <1>1, SmaPushType
<1>5. /\ SmaTracks(fast, Closes(c)) /\ SmaTracks(slow, Closes(c))
  <2>1. Closes(b) \in Seq(Rat) /\ Closes(c) = Append(Closes(b), x)
    BY Zenon, ColumnFacts, ColumnAppend
  <2> QED BY Zenon, <1>1, <2>1, SmaTracksPush DEF SmaKnows
<1>6. /\ p.fast = fast /\ p.slow = slow /\ p.has_prev = s.has_prev
      /\ p.prev_above = s.prev_above
  BY DEF SmaCrossType
<1>7. MeanOf(c, n, f) = MeanOf(b, n, f) /\ MeanOf(c, n, l) = MeanOf(b, n, l)
  BY Zenon, <1>1, <1>2, MeanThen
<1> DEFINE above == SmaValue(p.slow) \prec SmaValue(p.fast)
<1>8. o = IF SmaReady(p.slow) THEN Crossed(p, above) ELSE <<p, "hold">>
  BY Zenon DEF SmaCrossOnBar
<1>9. p \in SmaCrossType
  BY Zenon, <1>4 DEF SmaCrossType
<1> HIDE DEF o, c, fast, slow, p, f, l, above
<1>10. SmaReady(p.slow) <=> n + 1 >= l
  BY Zenon, <1>3, <1>4, <1>5, <1>6, SmaValueIs
<1>11. above <=> Above(c, n + 1, f, l)
  <2>1. SmaValue(slow) = MeanOf(c, n + 1, l) /\ SmaValue(fast) = MeanOf(c, n + 1, f)
    BY Zenon, <1>3, <1>4, <1>5, SmaValueIs
  <2> QED BY Zenon, <1>6, <2>1 DEF Above, above
<1>12. Above(c, n, f, l) <=> Above(b, n, f, l)
  BY Zenon, <1>7 DEF Above
<1>13. /\ s.has_prev <=> n >= l
       /\ s.has_prev => (s.prev_above <=> Above(c, n, f, l))
  BY Zenon, <1>2, <1>12 DEF SmaKnows, f, l
<1>14. (n + 1) - 1 = n /\ l \in Nat
  BY <1>1 DEF Period
<1>15. CASE n + 1 < l
  <2>1. o[1] = p /\ o[2] = "hold" /\ ~s.has_prev
    BY <1>8, <1>10, <1>13, <1>14, <1>15
  <2>3. ~(n + 1 >= l) /\ ~(n + 1 > l)
    BY <1>14, <1>15
  <2>2. SmaSignal(c, n + 1, f, l) = "hold"
    BY <2>3 DEF SmaSignal
  <2> QED BY SMTT(20), <1>3, <1>4, <1>5, <1>6, <2>1, <2>2, <2>3 DEF SmaKnows, o, c
<1>16. CASE n + 1 >= l
  <2>1. PICK t : t = [p EXCEPT !.prev_above = above, !.has_prev = TRUE]
    OBVIOUS
  <2>2. above \in BOOLEAN
    BY Zenon, PrecBoolean DEF above
  <2>3. t.fast = fast /\ t.slow = slow /\ t.prev_above = above /\ t.has_prev = TRUE
    BY <1>6, <1>9, <2>1, <2>2 DEF SmaCrossType
  <2>4. o[1] = t /\ o[2] = (CASE p.has_prev /\ above /\ ~p.prev_above -> "buy"
                              [] p.has_prev /\ ~above /\ p.prev_above -> "sell"
                              [] OTHER -> "hold")
    BY <1>8, <1>10, <1>16, <2>1 DEF Crossed
  <2>5. o[2] = SmaSignal(c, n + 1, f, l)
    <3>1. CASE n + 1 <= l
      <4>1. ~s.has_prev /\ ~(n + 1 > l)
        BY <1>13, <1>14, <3>1
      <4> QED BY <1>6, <2>4, <4>1 DEF SmaSignal
    <3>2. CASE ~(n + 1 <= l)
      <4>1. s.has_prev /\ n + 1 > l
        BY <1>13, <1>14, <3>2
      <4>2. SmaSignal(c, n + 1, f, l) =
              CASE above /\ ~s.prev_above -> "buy"
                [] ~above /\ s.prev_above -> "sell"
                [] OTHER -> "hold"
        BY SMTT(20), <1>11, <1>13, <1>14, <3>2, <4>1 DEF SmaSignal
      <4> QED BY <1>6, <2>4, <4>1, <4>2
    <3> QED BY Zenon, <3>1, <3>2
  <2> QED BY SMTT(20), <1>3, <1>4, <1>5, <1>11, <1>16, <2>3, <2>4, <2>5 DEF SmaKnows, o, c
<1> QED BY <1>14, <1>15, <1>16

-----------------------------------------------------------------------------
(* DonchianBreakout: its channels are the highs and the lows of the last   *)
(* bars, and a close cannot leave both at once.                            *)
DonTracks(d, b) ==
  d.highs = Recent(Highs(b), d.period) /\ d.lows = Recent(Lows(b), d.period)

Out(b, i, n)  == i > n /\ \A j \in i - n .. i - 1 : b[j].high \prec b[i].close
Down(b, i, n) == i > n /\ \A j \in i - n .. i - 1 : b[i].close \prec b[j].low

DonSignal(b, i, entering, leaving) ==
  CASE Out(b, i, entering) /\ ~Down(b, i, leaving) -> "buy"
    [] Down(b, i, leaving) /\ ~Out(b, i, entering) -> "sell"
    [] ~Out(b, i, entering) /\ ~Down(b, i, leaving) -> "hold"

LEMMA DonTracksPush ==
  ASSUME NEW d \in DonType, NEW b \in Seq(Bar), NEW bar \in Bar, DonTracks(d, b)
  PROVE  /\ DonTracks(DonchianPush(d, bar.high, bar.low), Append(b, bar))
         /\ DonchianPush(d, bar.high, bar.low).period = d.period
<1>1. d.period \in Period /\ bar.high \in Rat /\ bar.low \in Rat
  BY BarFacts DEF DonType
<1>2. PICK e : e = DonchianPush(d, bar.high, bar.low)
  BY Zenon
<1>3. /\ e.period = d.period /\ e.highs = Slide(d.highs, bar.high, d.period)
      /\ e.lows = Slide(d.lows, bar.low, d.period)
  BY <1>2 DEF DonchianPush, DonType
<1>4. Highs(b) \in Seq(Rat) /\ Lows(b) \in Seq(Rat)
  BY Zenon, ColumnFacts
<1>5. /\ Slide(Recent(Highs(b), d.period), bar.high, d.period)
           = Recent(Append(Highs(b), bar.high), d.period)
      /\ Slide(Recent(Lows(b), d.period), bar.low, d.period)
           = Recent(Append(Lows(b), bar.low), d.period)
  BY Zenon, <1>1, <1>4, SlideRecent
<1>6. /\ Highs(Append(b, bar)) = Append(Highs(b), bar.high)
      /\ Lows(Append(b, bar)) = Append(Lows(b), bar.low)
  BY Zenon, ColumnAppend
<1> QED BY SMTT(20), <1>2, <1>3, <1>5, <1>6 DEF DonTracks

LEMMA DonchianLeft ==
  ASSUME NEW d \in DonType, NEW b \in Seq(Bar), NEW bar \in Bar, DonTracks(d, b)
  PROVE  LET c == Append(b, bar)
         IN  /\ DonchianReady(d) /\ AboveUpper(d, bar.close) <=> Out(c, Len(b) + 1, d.period)
             /\ DonchianReady(d) /\ UnderLower(d, bar.close) <=> Down(c, Len(b) + 1, d.period)
<1> DEFINE c == Append(b, bar)
           p == d.period
<1>1. PICK n \in Nat : n = Len(b)
  OBVIOUS
<1>2. c[n + 1] = bar /\ \A i \in 1 .. n : c[i] = b[i]
  BY <1>1
<1>3. /\ p \in Period /\ p \in Nat /\ p >= 1
  BY DEF DonType, Period
<1>4. /\ Highs(b) \in Seq(Rat) /\ Lows(b) \in Seq(Rat)
      /\ Len(Highs(b)) = n /\ Len(Lows(b)) = n
  BY Zenon, <1>1, ColumnFacts
<1>5. \A i \in 1 .. n : Highs(b)[i] = b[i].high /\ Lows(b)[i] = b[i].low
  BY <1>1 DEF Highs, Lows
<1> HIDE DEF c, p
<1>6. /\ Len(d.highs) = Least(n, p) /\ Len(d.lows) = Least(n, p)
      /\ d.highs \in Seq(Rat) /\ d.lows \in Seq(Rat)
      /\ \A j \in 1 .. Least(n, p) : /\ d.highs[j] = Highs(b)[n - Least(n, p) + j]
                                     /\ d.lows[j] = Lows(b)[n - Least(n, p) + j]
  <2>1. /\ Len(d.highs) = Least(Len(Highs(b)), p) /\ d.highs \in Seq(Rat)
        /\ \A j \in 1 .. Least(Len(Highs(b)), p) :
             d.highs[j] = Highs(b)[Len(Highs(b)) - Least(Len(Highs(b)), p) + j]
    <3>1. d.highs = Recent(Highs(b), p)
      BY Zenon DEF DonTracks, p
    <3>2. /\ Len(Recent(Highs(b), p)) = Least(Len(Highs(b)), p) /\ Recent(Highs(b), p) \in Seq(Rat)
          /\ \A j \in 1 .. Least(Len(Highs(b)), p) :
               Recent(Highs(b), p)[j] = Highs(b)[Len(Highs(b)) - Least(Len(Highs(b)), p) + j]
      BY Zenon, <1>3, <1>4, RecentFacts
    <3> QED BY <3>1, <3>2
  <2>2. /\ Len(d.lows) = Least(Len(Lows(b)), p) /\ d.lows \in Seq(Rat)
        /\ \A j \in 1 .. Least(Len(Lows(b)), p) :
             d.lows[j] = Lows(b)[Len(Lows(b)) - Least(Len(Lows(b)), p) + j]
    <3>1. d.lows = Recent(Lows(b), p)
      BY Zenon DEF DonTracks, p
    <3>2. /\ Len(Recent(Lows(b), p)) = Least(Len(Lows(b)), p) /\ Recent(Lows(b), p) \in Seq(Rat)
          /\ \A j \in 1 .. Least(Len(Lows(b)), p) :
               Recent(Lows(b), p)[j] = Lows(b)[Len(Lows(b)) - Least(Len(Lows(b)), p) + j]
      BY Zenon, <1>3, <1>4, RecentFacts
    <3> QED BY <3>1, <3>2
  <2> QED BY SMTT(20), <1>4, <2>1, <2>2
<1>7. DonchianReady(d) <=> n >= p
  BY <1>3, <1>6 DEF DonchianReady, Least, p
<1>8. CASE n < p
  BY <1>3, <1>7, <1>8, <1>1 DEF Out, Down, p
<1>9. CASE n >= p
  <2>1. Least(n, p) = p /\ DOMAIN d.highs = 1 .. p /\ DOMAIN d.lows = 1 .. p
    BY <1>3, <1>6, <1>9 DEF Least
  <2>2. ASSUME NEW j \in 1 .. p
        PROVE  /\ n - p + j \in (n + 1) - p .. (n + 1) - 1
               /\ d.highs[j] = c[n - p + j].high /\ d.lows[j] = c[n - p + j].low
    <3>1. n - p + j \in 1 .. n /\ n - p + j \in (n + 1) - p .. (n + 1) - 1
      BY <1>3, <1>9
    <3>2. d.highs[j] = Highs(b)[n - p + j] /\ d.lows[j] = Lows(b)[n - p + j]
      BY Zenon, <1>6, <2>1
    <3> QED BY Zenon, <1>2, <1>5, <3>1, <3>2
  <2>3. ASSUME NEW i \in (n + 1) - p .. (n + 1) - 1
        PROVE  \E j \in 1 .. p : i = n - p + j
    <3>1. i - n + p \in 1 .. p /\ i = n - p + (i - n + p)
      BY <1>3, <1>9
    <3> QED BY Zenon, <3>1
  <2>4. n + 1 > p
    BY <1>3, <1>9
  <2>5. AboveUpper(d, bar.close) <=>
          \A i \in (n + 1) - p .. (n + 1) - 1 : c[i].high \prec bar.close
    <3>1. ASSUME AboveUpper(d, bar.close), NEW i \in (n + 1) - p .. (n + 1) - 1
          PROVE  c[i].high \prec bar.close
      <4>1. PICK j \in 1 .. p : i = n - p + j
        BY Zenon, <2>3
      <4>2. d.highs[j] \prec bar.close /\ d.highs[j] = c[n - p + j].high
        BY Zenon, <2>1, <2>2, <3>1 DEF AboveUpper
      <4> QED BY Zenon, <4>1, <4>2
    <3>2. ASSUME \A i \in (n + 1) - p .. (n + 1) - 1 : c[i].high \prec bar.close,
                 NEW j \in 1 .. p
          PROVE  d.highs[j] \prec bar.close
      <4>1. c[n - p + j].high \prec bar.close
        BY Zenon, <2>2, <3>2
      <4> QED BY Zenon, <2>2, <4>1
    <3> QED BY Zenon, <2>1, <3>1, <3>2 DEF AboveUpper
  <2>6. UnderLower(d, bar.close) <=>
          \A i \in (n + 1) - p .. (n + 1) - 1 : bar.close \prec c[i].low
    <3>1. ASSUME UnderLower(d, bar.close), NEW i \in (n + 1) - p .. (n + 1) - 1
          PROVE  bar.close \prec c[i].low
      <4>1. PICK j \in 1 .. p : i = n - p + j
        BY Zenon, <2>3
      <4>2. bar.close \prec d.lows[j] /\ d.lows[j] = c[n - p + j].low
        BY Zenon, <2>1, <2>2, <3>1 DEF UnderLower
      <4> QED BY Zenon, <4>1, <4>2
    <3>2. ASSUME \A i \in (n + 1) - p .. (n + 1) - 1 : bar.close \prec c[i].low,
                 NEW j \in 1 .. p
          PROVE  bar.close \prec d.lows[j]
      <4>1. bar.close \prec c[n - p + j].low
        BY Zenon, <2>2, <3>2
      <4> QED BY Zenon, <2>2, <4>1
    <3> QED BY Zenon, <2>1, <3>1, <3>2 DEF UnderLower
  <2> QED BY Zenon, <1>1, <1>2, <1>7, <1>9, <2>4, <2>5, <2>6 DEF Out, Down, c, p
<1> QED BY <1>3, <1>8, <1>9

LEMMA NotBoth ==
  ASSUME NEW b \in Seq(Bar), NEW i \in 1 .. Len(b), NEW p \in Period, NEW q \in Period
  PROVE  ~(Out(b, i, p) /\ Down(b, i, q))
<1> SUFFICES ASSUME Out(b, i, p), Down(b, i, q) PROVE FALSE
  OBVIOUS
<1>1. i > p /\ p >= 1 /\ q >= 1 /\ p \in Nat /\ q \in Nat
  BY DEF Out, Period
<1>2. i - 1 \in i - p .. i - 1 /\ i - 1 \in i - q .. i - 1 /\ i - 1 \in 1 .. Len(b)
  BY <1>1
<1>3. b[i - 1].high \prec b[i].close /\ b[i].close \prec b[i - 1].low
  BY Zenon, <1>2 DEF Out, Down
<1>4. b[i - 1] \in Bar /\ b[i] \in Bar
  BY <1>2
<1>5. PICK h \in Rat, l \in Rat, x \in Rat :
        h = b[i - 1].high /\ l = b[i - 1].low /\ x = b[i].close /\ l \preceq h
  BY Zenon, <1>4, BarFacts
<1>6. h \prec x /\ x \prec l
  BY Zenon, <1>3, <1>5
<1>6a. l \preceq h
  BY Zenon, <1>5
<1>7. x \prec h
  BY Zenon, <1>6, <1>6a, RatTransitive
<1>8. x \preceq h
  BY Zenon, <1>7, RatOrder
<1> QED BY Zenon, <1>6, <1>8, RatOrder

LEMMA DonSignalStep ==
  ASSUME NEW s \in DonchianType, NEW b \in Seq(Bar), NEW bar \in Bar,
         DonTracks(s.entry, b), DonTracks(s.exit, b)
  PROVE  LET o == DonchianBreakoutOnBar(s, bar)
             c == Append(b, bar)
         IN  /\ DonTracks(o[1].entry, c) /\ DonTracks(o[1].exit, c)
             /\ o[2] = DonSignal(c, Len(c), o[1].entry.period, o[1].exit.period)
<1> DEFINE o == DonchianBreakoutOnBar(s, bar)
           c == Append(b, bar)
<1>1. s.entry \in DonType /\ s.exit \in DonType
  BY DEF DonchianType
<1>2. /\ o[1].entry = DonchianPush(s.entry, bar.high, bar.low)
      /\ o[1].exit = DonchianPush(s.exit, bar.high, bar.low)
      /\ o[2] = DonchianAction(s, bar)
  BY Zenon DEF DonchianBreakoutOnBar, DonchianPushed, DonchianType
<1>3. /\ DonTracks(DonchianPush(s.entry, bar.high, bar.low), c)
      /\ DonTracks(DonchianPush(s.exit, bar.high, bar.low), c)
      /\ DonchianPush(s.entry, bar.high, bar.low).period = s.entry.period
      /\ DonchianPush(s.exit, bar.high, bar.low).period = s.exit.period
  BY Zenon, <1>1, DonTracksPush
<1>4. /\ c \in Seq(Bar) /\ Len(c) = Len(b) + 1 /\ Len(c) \in 1 .. Len(c)
      /\ s.entry.period \in Period /\ s.exit.period \in Period
  BY <1>1 DEF DonType
<1>5. /\ DonchianReady(s.entry) /\ AboveUpper(s.entry, bar.close)
           <=> Out(c, Len(c), s.entry.period)
      /\ DonchianReady(s.exit) /\ UnderLower(s.exit, bar.close)
           <=> Down(c, Len(c), s.exit.period)
  BY Zenon, <1>1, <1>4, DonchianLeft
<1>6. ~(Out(c, Len(c), s.entry.period) /\ Down(c, Len(c), s.exit.period))
  BY Zenon, <1>4, NotBoth
<1> HIDE DEF o, c
<1>7. DonchianAction(s, bar) = DonSignal(c, Len(c), s.entry.period, s.exit.period)
  BY <1>5, <1>6 DEF DonchianAction, DonSignal
<1> QED BY <1>2, <1>3, <1>7 DEF o, c

(* The members of a strategy that was constructed. *)
LEMMA ConstructedKind ==
  ASSUME NEW s, Constructed(s)
  PROVE  /\ s.kind = "sma_cross" => \E p \in Period, q \in Period : s = SmaCross(p, q)
         /\ s.kind = "ema_cross" => \E p \in Period, q \in Period : s = EmaCross(p, q)
         /\ s.kind = "rsi" =>
              \E p \in Period, l \in Rat, u \in Rat : s = RsiReversion(p, l, u)
         /\ s.kind = "bollinger" =>
              \E p \in Period, m \in Rat : s = BollingerReversion(p, m)
         /\ s.kind = "donchian" =>
              \E p \in Period, q \in Period : s = DonchianBreakout(p, q)
<1>1. CASE s = UserStrategy
  <2>1. s.kind = "user"
    BY <1>1 DEF UserStrategy
  <2> QED BY <2>1
<1>2. CASE s # UserStrategy
  BY <1>2 DEF Constructed
<1> QED BY Zenon, <1>1, <1>2

LEMMA RecentNone ==
  ASSUME NEW p \in Period
  PROVE  /\ Recent(<<>>, p) = <<>> /\ Closes(<<>>) = <<>> /\ Highs(<<>>) = <<>>
         /\ Lows(<<>>) = <<>> /\ Len(<<>>) = 0 /\ Total(<<>>) = Q(0)
<1>1. Least(0, p) = 0 /\ Len(<<>>) = 0 /\ <<>> \in Seq(Rat)
  BY DEF Least, Period
<1>2. Total(<<>>) = Q(0)
  BY Zenon, <1>1, TotalRat
<1> QED BY <1>1, <1>2 DEF Recent, Closes, Highs, Lows

(* The readings: an exponential average has its seed or a mixture of it    *)
(* with the closes, RSI has lost nothing while no close fell.              *)
Within(v, b) ==
  /\ \E i \in DOMAIN b : b[i].close \preceq v
  /\ \E i \in DOMAIN b : v \preceq b[i].close

EmaKnows(e, b) ==
  /\ Q(0) \preceq e.k /\ e.k \preceq Q(1)
  /\ ~e.ready => SmaTracks(e.seed, Closes(b))
  /\ e.ready => Within(e.value, b)

NeverFell(b) == \A i \in 2 .. Len(b) : b[i - 1].close \preceq b[i].close

RsiKnows(r, b) ==
  /\ r.has_prev <=> Len(b) > 0
  /\ r.has_prev => r.prev = b[Len(b)].close
  /\ NeverFell(b) => r.loss = Q(0)

NoBuy(acts) == \A i \in DOMAIN acts : acts[i] # "buy"

LEMMA WithinAppend ==
  ASSUME NEW b \in Seq(Bar), NEW bar \in Bar, NEW u \in Rat, NEW v \in Rat,
         Within(u, b),
         \A x \in Rat : /\ x \preceq u /\ x \preceq bar.close => x \preceq v
                        /\ u \preceq x /\ bar.close \preceq x => v \preceq x
  PROVE  Within(v, Append(b, bar))
<1> DEFINE c == Append(b, bar)
<1>1. PICK l \in DOMAIN b, h \in DOMAIN b :
        b[l].close \preceq u /\ u \preceq b[h].close
  BY Zenon DEF Within
<1>2. PICK n : /\ n \in DOMAIN c /\ c[n] = bar
               /\ l \in DOMAIN c /\ c[l] = b[l] /\ h \in DOMAIN c /\ c[h] = b[h]
  <2>1. PICK n : n = Len(b) + 1
    OBVIOUS
  <2>2. n \in DOMAIN c /\ c[n] = bar
    BY <2>1
  <2>3. l \in DOMAIN c /\ c[l] = b[l] /\ h \in DOMAIN c /\ c[h] = b[h]
    OBVIOUS
  <2> QED BY Zenon, <2>2, <2>3
<1>3. PICK x \in Rat, y \in Rat, z \in Rat :
        x = b[l].close /\ y = b[h].close /\ z = bar.close
  <2>1. b[l] \in Bar /\ b[h] \in Bar
    OBVIOUS
  <2> QED BY Zenon, <2>1, BarFacts
<1> HIDE DEF c
<1>4. \E i \in DOMAIN c : c[i].close \preceq v
  <2>1. CASE x \preceq z
    BY Zenon, <1>1, <1>2, <1>3, <2>1
  <2>2. CASE z \preceq x
    <3>1. z \preceq z
      BY Zenon, RatOrder
    <3>2. x \preceq u
      BY Zenon, <1>1, <1>3
    <3>3. z \preceq u
      BY Zenon, <2>2, <3>2, RatTransitive
    <3> QED BY Zenon, <1>2, <1>3, <3>1, <3>3
  <2> QED BY Zenon, <2>1, <2>2, RatOrder
<1>5. \E i \in DOMAIN c : v \preceq c[i].close
  <2>1. CASE z \preceq y
    BY Zenon, <1>1, <1>2, <1>3, <2>1
  <2>2. CASE y \preceq z
    <3>1. z \preceq z
      BY Zenon, RatOrder
    <3>2. u \preceq y
      BY Zenon, <1>1, <1>3
    <3>3. u \preceq z
      BY Zenon, <2>2, <3>2, RatTransitive
    <3> QED BY Zenon, <1>2, <1>3, <3>1, <3>3
  <2> QED BY Zenon, <2>1, <2>2, RatOrder
<1> QED BY Zenon, <1>4, <1>5 DEF Within, c

LEMMA SeedWithin ==
  ASSUME NEW s \in SmaType, NEW b \in Seq(Bar), SmaTracks(s, Closes(b)), SmaReady(s)
  PROVE  Within(SmaValue(s), b)
<1>1. PICK v \in Seq(Rat) : v = Closes(b) /\ Len(v) = Len(b)
  BY Zenon, ColumnFacts
<1>2. s.period \in Period /\ s.window \in Seq(Rat) /\ s.window = Recent(v, s.period)
      /\ s.sum = Total(s.window) /\ Len(s.window) = s.period
  BY <1>1 DEF SmaType, SmaTracks, SmaReady
<1>3. Len(s.window) >= 1
  BY <1>2 DEF Period
<1>4. PICK l \in 1 .. Len(s.window), h \in 1 .. Len(s.window) :
        s.window[l] \preceq SmaValue(s) /\ SmaValue(s) \preceq s.window[h]
  BY Zenon, <1>2, <1>3, MeanBetween DEF SmaValue
<1>5. ASSUME NEW j \in 1 .. Len(s.window)
      PROVE  \E i \in DOMAIN b : s.window[j] = b[i].close
  <2>1. /\ Len(s.window) = Least(Len(v), s.period)
        /\ Least(Len(v), s.period) \in 0 .. Len(v)
        /\ \A k \in 1 .. Least(Len(v), s.period) :
             s.window[k] = v[Len(v) - Least(Len(v), s.period) + k]
    <3>1. PICK p \in Period : p = s.period
      BY Zenon, <1>2
    <3>2. PICK r : r = Recent(v, p) /\ s.window = r
      BY Zenon, <1>2, <3>1
    <3>3. /\ Len(r) = Least(Len(v), p) /\ Least(Len(v), p) \in 0 .. Len(v)
          /\ \A k \in 1 .. Least(Len(v), p) : r[k] = v[Len(v) - Least(Len(v), p) + k]
      <4>1. /\ Len(Recent(v, p)) = Least(Len(v), p)
            /\ Least(Len(v), p) \in 0 .. Len(v)
            /\ \A k \in 1 .. Least(Len(v), p) :
                 Recent(v, p)[k] = v[Len(v) - Least(Len(v), p) + k]
        BY Zenon, RecentFacts
      <4> QED BY Zenon, <3>2, <4>1
    <3> QED BY Zenon, <3>1, <3>2, <3>3
  <2>2. PICK n \in 0 .. Len(v) : n = Least(Len(v), s.period) /\ Len(s.window) = n
    BY Zenon, <2>1
  <2>3. PICK i : i = Len(v) - n + j /\ i \in 1 .. Len(b) /\ s.window[j] = v[i]
    <3>1. s.window[j] = v[Len(v) - n + j]
      BY Zenon, <2>1, <2>2
    <3>2. Len(v) \in Nat /\ Len(v) - n + j \in 1 .. Len(v)
      <4>1. j \in 1 .. n
        BY Zenon, <2>2
      <4> QED BY SMT, <4>1
    <3> QED BY Zenon, <1>1, <3>1, <3>2
  <2>4. v[i] = b[i].close
    BY <1>1, <2>3 DEF Closes
  <2> QED BY <2>3, <2>4
<1> QED BY Zenon, <1>4, <1>5 DEF Within

LEMMA EmaKnowsPush ==
  ASSUME NEW e \in EmaType, NEW b \in Seq(Bar), NEW bar \in Bar, EmaKnows(e, b)
  PROVE  EmaKnows(EmaPush(e, bar.close), Append(b, bar))
<1> DEFINE c == Append(b, bar)
           x == bar.close
           seed == SmaPush(e.seed, x)
           value == (x ** e.k) ++ (e.value ** (Q(1) -- e.k))
           p == EmaPush(e, x)
<1>1. /\ e.k \in Rat /\ e.seed \in SmaType /\ e.ready \in BOOLEAN /\ e.value \in Rat
      /\ x \in Rat /\ c \in Seq(Bar)
  BY BarFacts DEF EmaType
<1>2. CASE e.ready
  <2>1. p = [e EXCEPT !.value = value]
    BY Zenon, <1>2 DEF EmaPush
  <2>2. p.k = e.k /\ p.ready = e.ready /\ p.value = value
    BY <2>1 DEF EmaType
  <2>3. ASSUME NEW y \in Rat
        PROVE  /\ value \in Rat
               /\ y \preceq e.value /\ y \preceq x => y \preceq value
               /\ e.value \preceq y /\ x \preceq y => value \preceq y
    BY Zenon, <1>1, RatConvex DEF EmaKnows
  <2>4. value \in Rat
    BY Zenon, <1>1, <2>3
  <2> HIDE DEF value
  <2>5. Within(value, c)
    BY Zenon, <1>1, <1>2, <2>3, <2>4, WithinAppend DEF EmaKnows
  <2> QED BY Zenon, <1>2, <2>2, <2>5 DEF EmaKnows
<1>3. CASE ~e.ready
  <2>1. p = [e EXCEPT !.seed = seed, !.ready = SmaReady(seed),
                      !.value = IF SmaReady(seed) THEN SmaValue(seed) ELSE e.value]
    BY Zenon, <1>3 DEF EmaPush
  <2>2. SmaReady(seed) \in BOOLEAN
    BY DEF SmaReady
  <2>3. seed \in SmaType
    BY Zenon, <1>1, SmaPushType
  <2>4. SmaTracks(seed, Closes(c))
    <3>1. Closes(b) \in Seq(Rat) /\ Closes(c) = Append(Closes(b), x)
      BY Zenon, ColumnFacts, ColumnAppend
    <3> QED BY Zenon, <1>1, <1>3, <3>1, SmaTracksPush DEF EmaKnows
  <2> HIDE DEF seed, p
  <2>5. p.k = e.k /\ p.ready = SmaReady(seed) /\ p.seed = seed
        /\ p.value = IF SmaReady(seed) THEN SmaValue(seed) ELSE e.value
    BY <2>1 DEF EmaType
  <2>6. SmaReady(seed) => Within(SmaValue(seed), c)
    BY Zenon, <1>1, <2>3, <2>4, SeedWithin
  <2>7. p.ready => Within(p.value, c)
    BY Zenon, <2>5, <2>6
  <2> QED BY Zenon, <2>4, <2>5, <2>7 DEF EmaKnows, p
<1> QED BY Zenon, <1>1, <1>2, <1>3

LEMMA RsiKnowsPush ==
  ASSUME NEW r \in RsiType, NEW b \in Seq(Bar), NEW bar \in Bar, RsiKnows(r, b)
  PROVE  RsiKnows(RsiPush(r, bar.close), Append(b, bar))
<1> DEFINE c == Append(b, bar)
           x == bar.close
           p == RsiPush(r, x)
<1>1. /\ r.period \in Period /\ r.prev \in Rat /\ r.has_prev \in BOOLEAN
      /\ r.warmup \in Nat /\ r.gain \in Rat /\ r.loss \in Rat /\ x \in Rat /\ Q(0) \in Rat
  BY BarFacts, ZeroOne DEF RsiType
<1>2. PICK n \in Nat : n = Len(b)
  OBVIOUS
<1>3. c \in Seq(Bar) /\ Len(c) = n + 1 /\ c[n + 1] = bar /\ \A i \in 1 .. n : c[i] = b[i]
  BY <1>2
<1> HIDE DEF c
<1>4. Len(c) > 0 /\ c[Len(c)].close = x
  BY <1>3
<1>5. CASE ~r.has_prev
  <2>1. p = [r EXCEPT !.prev = x, !.has_prev = TRUE]
    BY Zenon, <1>5 DEF RsiPush
  <2>2. p.has_prev = TRUE /\ p.prev = x /\ p.loss = r.loss
    BY <2>1 DEF RsiType
  <2>3. NeverFell(b)
    <3>1. ~(Len(b) > 0)
      BY Zenon, <1>5 DEF RsiKnows
    <3> QED BY <1>2, <3>1 DEF NeverFell
  <2> HIDE DEF p, x
  <2> QED BY Zenon, <1>4, <2>2, <2>3 DEF RsiKnows, p, c, x
<1>6. CASE r.has_prev
  <2> DEFINE delta == x -- r.prev
             fall == IF delta \prec Q(0) THEN Q(0) -- delta ELSE Q(0)
             loss == Averaged(r, r.loss, fall)
             rise == IF Q(0) \prec delta THEN delta ELSE Q(0)
             gain == Averaged(r, r.gain, rise)
             warmup == IF RsiReady(r) THEN r.warmup ELSE r.warmup + 1
  <2>1. p = [r EXCEPT !.prev = x, !.warmup = warmup, !.gain = gain, !.loss = loss]
    BY Zenon, <1>6 DEF RsiPush
  <2> HIDE DEF p, x, warmup, gain, loss
  <2>2. p.has_prev = r.has_prev /\ p.prev = x /\ p.loss = loss
    BY <2>1 DEF RsiType
  <2>3. ASSUME NeverFell(c) PROVE p.loss = Q(0)
    <3>1. n >= 1 /\ n + 1 \in 2 .. Len(c) /\ (n + 1) - 1 = n /\ n \in 1 .. n
      <4>1. Len(b) > 0
        BY Zenon, <1>6 DEF RsiKnows
      <4> QED BY <1>2, <1>3, <4>1
    <3>2. r.prev \preceq x
      <4>1. c[(n + 1) - 1].close \preceq c[n + 1].close
        BY Zenon, <2>3, <3>1 DEF NeverFell
      <4>2. c[(n + 1) - 1] = b[n]
        BY <1>3, <3>1
      <4>3. r.prev = b[n].close
        BY Zenon, <1>2, <1>6 DEF RsiKnows
      <4> QED BY Zenon, <1>3, <4>1, <4>2, <4>3 DEF x
    <3>3. NeverFell(b)
      <4>1. ASSUME NEW i \in 2 .. n PROVE b[i - 1].close \preceq b[i].close
        <5>1. i \in 2 .. Len(c) /\ i \in 1 .. n /\ i - 1 \in 1 .. n
          BY <1>3
        <5>2. c[i - 1].close \preceq c[i].close
          BY Zenon, <2>3, <5>1 DEF NeverFell
        <5>3. c[i - 1] = b[i - 1] /\ c[i] = b[i]
          BY <1>3, <5>1
        <5> QED BY Zenon, <5>2, <5>3
      <4> QED BY Zenon, <1>2, <4>1 DEF NeverFell
    <3>4. delta \in Rat /\ Q(0) \preceq delta
      BY Zenon, <1>1, <3>2, RatSums, RatOrder
    <3>5. fall = Q(0)
      BY Zenon, <1>1, <3>4, RatOrder
    <3>6. r.loss = Q(0)
      BY Zenon, <3>3 DEF RsiKnows
    <3>7. Averaged(r, Q(0), Q(0)) = Q(0)
      <4>1. Q(r.period) \in Rat /\ Q(0) \prec Q(r.period) /\ Q(r.period - 1) \in Rat
        <5>1. r.period - 1 \in Int
          BY SMT, <1>1 DEF Period
        <5> QED BY Zenon, <1>1, <5>1, QPositive, QOrder
      <4>2. Q(0) ** Q(r.period - 1) = Q(0) /\ Q(0) ++ Q(0) = Q(0)
        BY Zenon, <1>1, <4>1, RatProducts, RatSums
      <4>3. Q(0) // Q(r.period) = Q(0)
        <5>1. Q(0) ** Q(r.period) = Q(0)
          BY Zenon, <1>1, <4>1, RatProducts
        <5> QED BY Zenon, <1>1, <4>1, <5>1, RatSolve
      <4> QED BY Zenon, <4>2, <4>3 DEF Averaged
    <3>8. loss = Q(0)
      BY Zenon, <3>5, <3>6, <3>7 DEF loss
    <3> QED BY Zenon, <2>2, <3>8
  <2> QED BY Zenon, <1>4, <1>6, <2>2, <2>3 DEF RsiKnows, p, c, x
<1> QED BY Zenon, <1>1, <1>5, <1>6

(* RSI reads 100 then, which is not below any threshold up to 100. *)
LEMMA RsiHolds ==
  ASSUME NEW s \in ReversionType, NEW b \in Seq(Bar), NEW bar \in Bar, RsiKnows(s.rsi, b)
  PROVE  LET o == RsiReversionOnBar(s, bar)
         IN  /\ RsiKnows(o[1].rsi, Append(b, bar)) /\ o[1].lower = s.lower
             /\ s.lower \preceq Q(100) /\ NeverFell(Append(b, bar)) => o[2] # "buy"
<1> DEFINE p == [s EXCEPT !.rsi = RsiPush(@, bar.close)]
           v == RsiValue(p.rsi)
           a == IF ~RsiReady(p.rsi) THEN "hold"
                ELSE IF v \prec s.lower THEN "buy"
                ELSE IF s.upper \prec v THEN "sell" ELSE "hold"
<1>1. s.rsi \in RsiType /\ s.lower \in Rat /\ Q(100) \in Rat
  <2>1. 100 \in Int
    OBVIOUS
  <2> QED BY Zenon, <2>1, QOrder DEF ReversionType
<1>2. p.rsi = RsiPush(s.rsi, bar.close) /\ p.lower = s.lower
  BY SMT DEF ReversionType
<1>3. RsiReversionOnBar(s, bar) = <<p, a>>
  BY Zenon DEF RsiReversionOnBar
<1>4. RsiKnows(p.rsi, Append(b, bar))
  BY Zenon, <1>1, <1>2, RsiKnowsPush
<1> HIDE DEF p
<1>5. ASSUME s.lower \preceq Q(100), NeverFell(Append(b, bar)) PROVE a # "buy"
  <2>1. v = Q(100)
    BY Zenon, <1>4, <1>5 DEF RsiKnows, RsiValue
  <2>2. ~(Q(100) \prec s.lower)
    BY Zenon, <1>1, <1>5, RatOrder
  <2>3. ~(v \prec s.lower)
    BY Zenon, <2>1, <2>2
  <2> QED BY <2>3
<1> HIDE DEF a
<1>6. RsiReversionOnBar(s, bar)[1] = p /\ RsiReversionOnBar(s, bar)[2] = a
  BY <1>3
<1> QED BY Zenon, <1>2, <1>4, <1>5, <1>6

(* The multiplier reaches beyond every value that a window can have. *)
Wide(b) ==
  Q(0) \preceq b.mult /\ Q(b.period - 1) \preceq b.mult ** b.mult

LEMMA BandStep ==
  ASSUME NEW s \in BollingerType, NEW bar \in Bar
  PROVE  LET o == BollingerReversionOnBar(s, bar)
         IN  /\ o[1].bb.period = s.bb.period /\ o[1].bb.mult = s.bb.mult
             /\ Wide(s.bb) => o[2] # "buy"
<1> DEFINE x == bar.close
           p == [s EXCEPT !.bb = BollingerPush(@, x)]
           q == p.bb
           a == IF Len(q.window) # q.period THEN "hold"
                ELSE IF BelowLower(q, x) THEN "buy"
                ELSE IF BollingerMiddle(q) \prec x THEN "sell" ELSE "hold"
<1>1. s.bb \in BandType /\ x \in Rat /\ s.bb.window \in Seq(Rat) /\ s.bb.period \in Period
  BY BarFacts DEF BollingerType, BandType
<1>2. q = BollingerPush(s.bb, x)
  BY DEF BollingerType
<1>3. BollingerReversionOnBar(s, bar) = <<p, a>>
  BY Zenon DEF BollingerReversionOnBar
<1> HIDE DEF x
<1>4. /\ q \in BandType /\ q.period = s.bb.period /\ q.mult = s.bb.mult
      /\ q.window = Slide(s.bb.window, x, s.bb.period)
  <2>1. BollingerPush(s.bb, x) \in BandType
    BY Zenon, <1>1, BollingerPushType
  <2>2. /\ BollingerPush(s.bb, x).period = s.bb.period
        /\ BollingerPush(s.bb, x).mult = s.bb.mult
        /\ BollingerPush(s.bb, x).window = Slide(s.bb.window, x, s.bb.period)
    BY <1>1 DEF BollingerPush, BandType
  <2> HIDE DEF p
  <2> QED BY Zenon, <1>2, <2>1, <2>2
<1>5. BollingerReversionOnBar(s, bar)[1] = p /\ BollingerReversionOnBar(s, bar)[2] = a
  <2> HIDE DEF p, a
  <2> QED BY <1>3
<1> HIDE DEF q, p
<1>6. ASSUME Wide(s.bb) PROVE a # "buy"
  <2>1. CASE Len(q.window) = q.period
    <3>1. PICK m \in Nat : m = s.bb.period - 1 /\ s.bb.period = m + 1
      BY <1>1 DEF Period
    <3>2. Len(q.window) = m + 1
      <4>1. q.period = m + 1
        BY Zenon, <1>4, <3>1
      <4> QED BY Zenon, <2>1, <4>1
    <3>3. q.window[Len(q.window)] = x
      <4>1. PICK w \in Seq(Rat), n \in Period : w = s.bb.window /\ n = s.bb.period
        BY Zenon, <1>1
      <4>2. Slide(w, x, n)[Len(Slide(w, x, n))] = x
        BY Zenon, <1>1, SlideLast
      <4>3. q.window = Slide(w, x, n)
        BY Zenon, <1>4, <4>1
      <4> QED BY Zenon, <4>2, <4>3
    <3>4. q.window[m + 1] = x /\ Q(0) \preceq q.mult /\ Q(m) \preceq q.mult ** q.mult
      <4>1. q.window[m + 1] = x
        BY Zenon, <3>2, <3>3
      <4>2. Q(0) \preceq s.bb.mult /\ Q(m) \preceq s.bb.mult ** s.bb.mult
        BY Zenon, <1>6, <3>1 DEF Wide
      <4>3. Q(0) \preceq q.mult /\ Q(m) \preceq q.mult ** q.mult
        BY Zenon, <1>4, <4>2
      <4> QED BY Zenon, <4>1, <4>3
    <3>5. ~BelowLower(q, x)
      BY Zenon, <1>1, <1>4, <3>2, <3>4, BandHolds
    <3> QED BY <3>5
  <2>2. CASE Len(q.window) # q.period
    BY <2>2
  <2> QED BY Zenon, <2>1, <2>2
<1> QED BY Zenon, <1>4, <1>5, <1>6 DEF q

LEMMA EmaStep ==
  ASSUME NEW s \in EmaCrossType, NEW bar \in Bar
  PROVE  /\ EmaCrossOnBar(s, bar)[1].fast = EmaPush(s.fast, bar.close)
         /\ EmaCrossOnBar(s, bar)[1].slow = EmaPush(s.slow, bar.close)
<1> DEFINE f == EmaPush(s.fast, bar.close)
           l == EmaPush(s.slow, bar.close)
           p == [s EXCEPT !.fast = EmaPush(@, bar.close), !.slow = EmaPush(@, bar.close)]
           above == p.slow.value \prec p.fast.value
<1>1. p.fast = f /\ p.slow = l /\ p = [s EXCEPT !.fast = f, !.slow = l]
  BY DEF EmaCrossType
<1>2. EmaCrossOnBar(s, bar) =
        IF p.slow.ready /\ p.fast.ready THEN Crossed(p, above) ELSE <<p, "hold">>
  BY Zenon DEF EmaCrossOnBar
<1> HIDE DEF above, f, l
<1>3. PICK t : t = [p EXCEPT !.prev_above = above, !.has_prev = TRUE]
  BY Zenon
<1>4. t.fast = f /\ t.slow = l
  BY <1>1, <1>3 DEF EmaCrossType
<1> HIDE DEF p
<1>5. EmaCrossOnBar(s, bar)[1] = t \/ EmaCrossOnBar(s, bar)[1] = p
  BY <1>2, <1>3 DEF Crossed
<1> QED BY Zenon, <1>1, <1>4, <1>5 DEF f, l

LEMMA EmaMadeKnows ==
  ASSUME NEW p \in Period
  PROVE  EmaKnows(Ema(p), <<>>)
<1>1. PICK d \in Nat \ {0} : d = p + 1 /\ 2 <= d
  BY DEF Period
<1>2. Q(0) = Frac(0, 1) /\ Q(1) = Frac(1, 1)
  BY QIs
<1>3. /\ Frac(0, 1) \preceq Frac(2, d) <=> 0 * d <= 2 * 1
      /\ Frac(2, d) \preceq Frac(1, 1) <=> 2 * 1 <= 1 * d
  <2>1. 0 \in Int /\ 1 \in Int /\ 2 \in Int /\ 1 \in Nat \ {0}
    OBVIOUS
  <2> QED BY Zenon, <2>1, FracOrder
<1>4. 0 * d <= 2 * 1 /\ 2 * 1 <= 1 * d
  BY <1>1
<1>5. Q(0) \preceq Frac(2, d) /\ Frac(2, d) \preceq Q(1)
  BY Zenon, <1>2, <1>3, <1>4
<1>6. Ema(p).k = Frac(2, d) /\ Ema(p).ready = FALSE /\ Ema(p).seed = Sma(p)
  BY <1>1 DEF Ema
<1>7. SmaTracks(Sma(p), Closes(<<>>))
  BY RecentNone DEF SmaTracks, Sma
<1> QED BY Zenon, <1>5, <1>6, <1>7 DEF EmaKnows

LEMMA NoBuyAppend ==
  ASSUME NEW acts \in Seq(Actions), NEW a \in Actions
  PROVE  NoBuy(Append(acts, a)) <=> NoBuy(acts) /\ a # "buy"
<1>1. PICK n \in Nat : n = Len(acts)
  OBVIOUS
<1>2. /\ DOMAIN Append(acts, a) = 1 .. n + 1 /\ DOMAIN acts = 1 .. n
      /\ Append(acts, a)[n + 1] = a /\ \A i \in 1 .. n : Append(acts, a)[i] = acts[i]
  BY <1>1
<1>3. /\ n + 1 \in 1 .. n + 1 /\ \A i \in 1 .. n : i \in 1 .. n + 1
      /\ \A i \in 1 .. n + 1 : i \in 1 .. n \/ i = n + 1
  OBVIOUS
<1> QED BY Zenon, <1>2, <1>3 DEF NoBuy

LEMMA NeverFellBefore ==
  ASSUME NEW b \in Seq(Bar), NEW bar \in Bar, NeverFell(Append(b, bar))
  PROVE  NeverFell(b)
<1>1. PICK n \in Nat : n = Len(b)
  OBVIOUS
<1>2. Len(Append(b, bar)) = n + 1 /\ \A i \in 1 .. n : Append(b, bar)[i] = b[i]
  BY <1>1
<1>3. ASSUME NEW i \in 2 .. n PROVE b[i - 1].close \preceq b[i].close
  <2>1. i \in 2 .. n + 1 /\ i \in 1 .. n /\ i - 1 \in 1 .. n
    OBVIOUS
  <2>2. Append(b, bar)[i - 1].close \preceq Append(b, bar)[i].close
    BY Zenon, <1>2, <2>1 DEF NeverFell
  <2> QED BY Zenon, <1>2, <2>1, <2>2
<1> QED BY Zenon, <1>1, <1>3 DEF NeverFell

=============================================================================
