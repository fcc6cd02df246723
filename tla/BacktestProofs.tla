--------------------------- MODULE BacktestProofs ---------------------------
(***************************************************************************)
(* The backtest, for every strategy, every market, every commission and    *)
(* every number of bars.                                                   *)
(***************************************************************************)
EXTENDS Backtest, StrategyProofs, TLAPS

-----------------------------------------------------------------------------
(* The types of the variables.  Money is positive, since prices are and    *)
(* the commission is less than everything.                                 *)
Pos == {x \in Rat : Q(0) \prec x}

TypeInv ==
  /\ pc \in {"called", "loop", "returned"}
  /\ strategy \in StrategyType /\ Market[strategy.kind] \subseteq Bar
  /\ bars \in Seq(Bar) /\ actions \in Seq(Actions) /\ curve \in Seq(Pos)
  /\ Len(actions) = Len(bars) /\ Len(curve) = Len(bars)
  /\ pc = "called" => bars = <<>>
  /\ pc = "loop" => bars # <<>>
  /\ equity \in Pos /\ peak \in Pos /\ max_drawdown \in Rat
  /\ long_pos \in BOOLEAN
  /\ entry \in [time : Nat, price : Rat]
  /\ long_pos => entry.price \in Pos /\ bars # <<>>
  /\ trade_log \in Seq([entry : Nat, exit : Nat, growth : Pos])

LEMMA PosClosed ==
  ASSUME NEW x \in Pos, NEW y \in Pos
  PROVE  /\ x \in Rat /\ Q(0) \prec x
         /\ x ** y \in Pos /\ x // y \in Pos /\ Larger(x, y) \in Pos
BY Zenon, PositiveClosed DEF Pos, Larger

LEMMA KeptPos ==
  Kept \in Pos
<1>1. Fee \in Rat /\ Fee \prec Q(1) /\ Q(1) \in Rat /\ Q(0) \in Rat
  BY BacktestAssumption, ZeroOne
<1>2. Q(1) -- Fee \in Rat /\ Q(0) \prec Q(1) -- Fee
  BY Zenon, <1>1, RatSums, RatOrder
<1> QED BY Zenon, <1>2 DEF Kept, Pos

LEMMA OnePos ==
  Q(1) \in Pos
BY Zenon, ZeroOne DEF Pos

LEMMA LastClose ==
  ASSUME TypeInv, bars # <<>>
  PROVE  bars[Len(bars)] \in Bar /\ bars[Len(bars)].close \in Pos /\ Len(bars) \in Period
<1>1. bars[Len(bars)] \in Bar /\ Len(bars) \in Period
  BY DEF TypeInv, Period
<1> QED BY Zenon, <1>1, BarFacts DEF Pos

LEMMA MarkedPos ==
  ASSUME TypeInv, NEW bar \in Bar
  PROVE  /\ MarkedEquity(bar) \in Pos
         /\ ~long_pos => MarkedEquity(bar) = equity
         /\ long_pos => MarkedEquity(bar) = equity ** (bar.close // bars[Len(bars)].close)
<1>1. equity \in Pos /\ bar.close \in Pos
  BY Zenon, BarFacts DEF TypeInv, Pos
<1>2. CASE long_pos
  <2>1. bars[Len(bars)].close \in Pos
    BY Zenon, <1>2, LastClose DEF TypeInv
  <2>2. Q(0) \prec bars[Len(bars)].close
    BY Zenon, <2>1, PosClosed
  <2>3. bar.close // bars[Len(bars)].close \in Pos
    BY Zenon, <1>1, <2>1, PosClosed
  <2>4. MarkedEquity(bar) = equity ** (bar.close // bars[Len(bars)].close)
    BY Zenon, <1>2, <2>2 DEF MarkedEquity
  <2> QED BY Zenon, <1>1, <1>2, <2>3, <2>4, PosClosed
<1>3. CASE ~long_pos
  BY Zenon, <1>1, <1>3 DEF MarkedEquity
<1> QED BY Zenon, <1>2, <1>3

(* What an iteration does, once on_bar() has returned t and a. *)
Iterated(bar, t, a) ==
  /\ pc \in {"called", "loop"} /\ pc' = "loop"
  /\ <<t, a>> \in on_bar(strategy, bar)
  /\ strategy' = t
  /\ Fill(a, bar, MarkedEquity(bar))
  /\ actions' = Append(actions, a)
  /\ peak' = PeakWith(equity')
  /\ max_drawdown' = Larger(max_drawdown, (peak' -- equity') // peak')
  /\ bars' = Append(bars, bar)
  /\ curve' = Append(curve, equity')
  /\ report' = report

LEMMA OnBarIterates ==
  ASSUME TypeInv, NEW bar \in Market[strategy.kind], OnBar(bar)
  PROVE  bar \in Bar /\ \E t \in StrategyType, a \in Actions : Iterated(bar, t, a)
<1>1. bar \in Bar /\ strategy \in StrategyType
  BY DEF TypeInv
<1>2. PICK o \in on_bar(strategy, bar) :
        /\ strategy' = o[1]
        /\ Fill(o[2], bar, MarkedEquity(bar))
        /\ actions' = Append(actions, o[2])
  BY Zenon DEF OnBar
<1>3. o[1] \in StrategyType /\ o[2] \in Actions /\ o = <<o[1], o[2]>>
  BY Zenon, <1>1, OnBarType, OnBarPair
<1>4. Iterated(bar, o[1], o[2])
  BY Zenon, <1>2, <1>3 DEF OnBar, Iterated
<1> QED BY Zenon, <1>1, <1>3, <1>4

LEMMA IteratedFacts ==
  ASSUME TypeInv, NEW bar \in Bar, NEW t \in StrategyType, NEW a \in Actions,
         Iterated(bar, t, a)
  PROVE  /\ t.kind = strategy.kind
         /\ strategy.kind \in Crossing =>
              /\ strategy.prev_above \in BOOLEAN /\ strategy.has_prev \in BOOLEAN
              /\ t.prev_above \in BOOLEAN /\ t.has_prev \in BOOLEAN
              /\ Turn(strategy, t, a)
<1>1. strategy \in StrategyType /\ <<t, a>> \in on_bar(strategy, bar)
  BY Zenon DEF TypeInv, Iterated
<1>2. PICK o : o = <<t, a>>
  BY Zenon
<1>3. o[1] = t /\ o[2] = a /\ o \in on_bar(strategy, bar)
  BY <1>1, <1>2
<1>4. /\ o[1].kind = strategy.kind
      /\ strategy.kind \in Crossing =>
              /\ strategy.prev_above \in BOOLEAN /\ strategy.has_prev \in BOOLEAN
              /\ o[1].prev_above \in BOOLEAN /\ o[1].has_prev \in BOOLEAN
              /\ Turn(strategy, o[1], o[2])
  BY Zenon, <1>1, <1>3, OnBarType
<1> QED BY Zenon, <1>3, <1>4

(* The types hold in every state. *)
THEOREM TypesHold ==
  Spec => []TypeInv
<1>1. Init => TypeInv
  <2> SUFFICES ASSUME Init PROVE TypeInv
    OBVIOUS
  <2>1. strategy \in StrategyType /\ Market[strategy.kind] \subseteq Bar
    BY BacktestAssumption, ConstructedType DEF Init
  <2>2. Q(1) \in Pos /\ Q(0) \in Rat
    BY OnePos, ZeroOne
  <2>3. entry \in [time : Nat, price : Rat] /\ 0 \in Nat
    BY Zenon, <2>2 DEF Init
  <2>4. ~long_pos /\ long_pos \in BOOLEAN
    BY Zenon DEF Init
  <2> QED BY <2>1, <2>2, <2>3, <2>4 DEF Init, TypeInv
<1>2. TypeInv /\ [Next]_vars => TypeInv'
  <2> SUFFICES ASSUME TypeInv, [Next]_vars PROVE TypeInv'
    OBVIOUS
  <2>1. CASE ReturnEarly
    BY <2>1 DEF ReturnEarly, TypeInv, history
  <2>2. ASSUME NEW bar \in Market[strategy.kind], OnBar(bar) PROVE TypeInv'
    <3>1. bar \in Bar
      BY Zenon, <2>2, OnBarIterates
    <3>2. PICK t \in StrategyType, a \in Actions : Iterated(bar, t, a)
      BY Zenon, <2>2, OnBarIterates
    <3>3. MarkedEquity(bar) \in Pos /\ MarkedEquity(bar) ** Kept \in Pos /\ bar.close \in Pos
      BY Zenon, <3>1, MarkedPos, KeptPos, PosClosed, BarFacts DEF Pos
    <3>4. Fill(a, bar, MarkedEquity(bar))
      BY Zenon, <3>2 DEF Iterated
    <3>5. equity' \in Pos
      BY Zenon, <3>3, <3>4 DEF Fill
    <3>6. peak' \in Pos /\ max_drawdown' \in Rat
      <4>1. peak \in Pos /\ max_drawdown \in Rat /\ peak' = Larger(peak, equity')
        BY Zenon, <3>2 DEF TypeInv, Iterated, PeakWith
      <4>2. peak' \in Pos
        BY Zenon, <3>5, <4>1, PosClosed
      <4>3. (peak' -- equity') // peak' \in Rat
        BY Zenon, <3>5, <4>2, PosClosed, LossIs
      <4> QED BY Zenon, <3>2, <4>1, <4>2, <4>3 DEF Iterated, Larger
    <3>7. /\ bars' \in Seq(Bar) /\ actions' \in Seq(Actions) /\ curve' \in Seq(Pos)
          /\ Len(actions') = Len(bars') /\ Len(curve') = Len(bars') /\ bars' # <<>>
      BY <3>1, <3>2, <3>5 DEF TypeInv, Iterated
    <3>8. /\ long_pos' \in BOOLEAN
          /\ entry' \in [time : Nat, price : Rat]
          /\ long_pos' => entry'.price \in Pos
      <4>1. Len(bars) + 1 \in Nat /\ bar.close \in Rat
        BY <3>1, BarFacts DEF TypeInv
      <4>2. entry \in [time : Nat, price : Rat] /\ long_pos \in BOOLEAN
            /\ (long_pos => entry.price \in Pos)
        BY Zenon DEF TypeInv
      <4>3. CASE a = "buy" /\ ~long_pos
        <5>1. long_pos' = TRUE /\ entry' = [time |-> Len(bars) + 1, price |-> bar.close]
          BY Zenon, <3>4, <4>3 DEF Fill
        <5> QED BY <3>3, <4>1, <5>1
      <4>4. CASE ~(a = "buy" /\ ~long_pos)
        <5>1. entry' = entry /\ (long_pos' = long_pos \/ long_pos' = FALSE)
          BY Zenon, <3>4, <4>4 DEF Fill
        <5>2a. long_pos' \in BOOLEAN
          BY Zenon, <4>2, <5>1
        <5>2. long_pos' \in BOOLEAN /\ (long_pos' => long_pos)
          <6>1. CASE long_pos
            BY Zenon, <5>2a, <6>1
          <6>2. CASE ~long_pos
            <7>1. long_pos' = long_pos
              BY Zenon, <3>4, <4>4, <6>2 DEF Fill
            <7> QED BY <5>2a, <6>2, <7>1
          <6> QED BY Zenon, <6>1, <6>2
        <5>3. long_pos' => entry'.price \in Pos
          BY <4>2, <5>1, <5>2
        <5> QED BY Zenon, <4>2, <5>1, <5>2, <5>3
      <4> QED BY Zenon, <4>3, <4>4
    <3>9. trade_log' \in Seq([entry : Nat, exit : Nat, growth : Pos])
      <4>1. CASE long_pos
        <5>1. entry.price \in Pos /\ Kept \in Pos
          BY <4>1, KeptPos DEF TypeInv
        <5>2. bar.close // entry.price \in Pos
          BY Zenon, <3>3, <5>1, PosClosed
        <5>3. ((bar.close // entry.price) ** Kept) ** Kept \in Pos
          BY Zenon, <5>1, <5>2, PosClosed
        <5>4. Trade(Len(bars) + 1, bar.close) \in [entry : Nat, exit : Nat, growth : Pos]
          BY <5>3 DEF Trade, TypeInv
        <5>5. trade_log' \in {trade_log, Append(trade_log, Trade(Len(bars) + 1, bar.close))}
          BY <3>4 DEF Fill
        <5>6. ASSUME NEW T, NEW log \in Seq(T), NEW x \in T
              PROVE  Append(log, x) \in Seq(T)
          OBVIOUS
        <5>7. trade_log \in Seq([entry : Nat, exit : Nat, growth : Pos])
          BY Zenon DEF TypeInv
        <5> QED BY Zenon, <5>4, <5>5, <5>6, <5>7
      <4>2. CASE ~long_pos
        BY <3>4, <4>2 DEF TypeInv, Fill
      <4> QED BY Zenon, <4>1, <4>2
    <3>10. /\ pc' = "loop" /\ strategy' \in StrategyType
           /\ Market[strategy'.kind] \subseteq Bar
      BY Zenon, <3>1, <3>2, IteratedFacts DEF Iterated, TypeInv
    <3> QED BY SMTT(20), <3>5, <3>6, <3>7, <3>8, <3>9, <3>10 DEF TypeInv
  <2>3. CASE Return
    <3>1. bars # <<>> /\ bars[Len(bars)].close \in Pos
      BY <2>3, LastClose DEF Return, TypeInv
    <3>2. equity' \in Pos
      BY Zenon, <2>3, KeptPos, PosClosed DEF Return, TypeInv
    <3>3. trade_log' \in Seq([entry : Nat, exit : Nat, growth : Pos])
      <4>1. CASE long_pos
        <5>1. entry.price \in Pos /\ Kept \in Pos
          BY <4>1, KeptPos DEF TypeInv
        <5>2. bars[Len(bars)].close // entry.price \in Pos
          BY Zenon, <3>1, <5>1, PosClosed
        <5>3. ((bars[Len(bars)].close // entry.price) ** Kept) ** Kept \in Pos
          BY Zenon, <5>1, <5>2, PosClosed
        <5>4. Trade(Len(bars), bars[Len(bars)].close) \in [entry : Nat, exit : Nat, growth : Pos]
          BY <5>3 DEF Trade, TypeInv
        <5> QED BY <2>3, <4>1, <5>4 DEF TypeInv, Return
      <4>2. CASE ~long_pos
        BY <2>3, <4>2 DEF TypeInv, Return
      <4> QED BY Zenon, <4>1, <4>2
    <3> QED BY <2>3, <3>2, <3>3 DEF TypeInv, Return, history
  <2>4. CASE UNCHANGED vars
    BY <2>4 DEF vars, history, TypeInv
  <2> QED BY <2>1, <2>2, <2>3, <2>4 DEF Next
<1> QED BY <1>1, <1>2, PTL DEF Spec

-----------------------------------------------------------------------------
(* Crossings.  CrossesAlternate is inductive once it is known that a       *)
(* signal was given only when there was a comparison before.               *)
SignalHasPrev ==
  strategy.kind \in Crossing =>
    \A i \in DOMAIN actions : actions[i] # "hold" => strategy.has_prev

CrossInv == SignalHasPrev /\ CrossesAlternate

LEMMA CrossInvIs ==
  CrossInv <=> (strategy.kind \in Crossing => Alternating(actions, strategy))
BY Zenon DEF CrossInv, SignalHasPrev, CrossesAlternate, SignalAlternates, Alternating,
             Crossing

(* CrossesAlternate holds of every run of a crossing strategy, whatever    *)
(* its periods and the prices: on_bar() never gives the same signal twice  *)
(* in a row, and the last signal agrees with prev_above_.                  *)
THEOREM CrossingsAlternate ==
  Spec => []CrossesAlternate
<1>1. Init => CrossInv
  BY DEF Init, CrossInv, SignalHasPrev, CrossesAlternate
<1>2. TypeInv /\ CrossInv /\ [Next]_vars => CrossInv'
  <2> SUFFICES ASSUME TypeInv, CrossInv, [Next]_vars PROVE CrossInv'
    OBVIOUS
  <2>1. CASE UNCHANGED <<strategy, actions>>
    BY <2>1 DEF CrossInv, SignalHasPrev, CrossesAlternate
  <2>2. ASSUME NEW bar \in Market[strategy.kind], OnBar(bar) PROVE CrossInv'
    <3>1. bar \in Bar
      BY Zenon, <2>2, OnBarIterates
    <3>2. PICK t \in StrategyType, a \in Actions : Iterated(bar, t, a)
      BY Zenon, <2>2, OnBarIterates
    <3>3. strategy' = t /\ actions' = Append(actions, a) /\ actions \in Seq(Actions)
      BY Zenon, <3>2 DEF Iterated, TypeInv
    <3>4. t.kind = strategy.kind
      BY Zenon, <3>1, <3>2, IteratedFacts
    <3>5. CASE strategy.kind \notin Crossing
      BY <3>3, <3>4, <3>5 DEF CrossInv, SignalHasPrev, CrossesAlternate, Crossing
    <3>6. CASE strategy.kind \in Crossing
      <4>1. Flags(strategy) /\ Flags(t) /\ Turn(strategy, t, a)
        BY Zenon, <3>1, <3>2, <3>6, IteratedFacts DEF Flags
      <4>2. Alternating(actions, strategy)
        BY Zenon, <3>6, CrossInvIs
      <4>3. Alternating(Append(actions, a), t)
        BY Zenon, <3>3, <4>1, <4>2, CrossStep
      <4>4. Alternating(actions', strategy')
        BY <3>3, <4>3
      <4> QED BY Zenon, <4>4 DEF CrossInv, SignalHasPrev, CrossesAlternate,
                                 SignalAlternates, Alternating, Crossing
    <3> QED BY Zenon, <3>5, <3>6
  <2> QED BY <2>1, <2>2 DEF Next, ReturnEarly, Return, vars, history
<1>3. CrossInv => CrossesAlternate
  BY Zenon DEF CrossInv
<1> QED BY <1>1, <1>2, <1>3, TypesHold, PTL DEF Spec

-----------------------------------------------------------------------------
(* Drawdowns.  The running peak is a point of the curve and no point is    *)
(* above it, so the loss from it is the worst that ends at the last bar.   *)
At(c, i) == IF i = 0 THEN Q(1) ELSE c[i]

LossAt(c, i, j) == (At(c, i) -- At(c, j)) // At(c, i)

Top(c, p) ==
  /\ \E i \in 0 .. Len(c) : p = At(c, i)
  /\ \A i \in 0 .. Len(c) : At(c, i) \preceq p

Worst(c, m) ==
  /\ \E j \in 0 .. Len(c) : \E i \in 0 .. j : m = LossAt(c, i, j)
  /\ \A j \in 0 .. Len(c) : \A i \in 0 .. j : LossAt(c, i, j) \preceq m

LEMMA LargerFacts ==
  ASSUME NEW x \in Rat, NEW y \in Rat
  PROVE  /\ Larger(x, y) \in Rat /\ x \preceq Larger(x, y) /\ y \preceq Larger(x, y)
         /\ Larger(x, y) = x \/ Larger(x, y) = y
BY Zenon, RatOrder DEF Larger

LEMMA CurveGrows ==
  ASSUME NEW c \in Seq(Pos), NEW e \in Pos
  PROVE  LET b == Append(c, e)
         IN  /\ Len(c) \in Nat /\ Len(b) = Len(c) + 1 /\ At(b, Len(c) + 1) = e
             /\ \A i \in 0 .. Len(c) : At(b, i) = At(c, i) /\ At(c, i) \in Pos
             /\ \A i \in 0 .. Len(c) + 1 : At(b, i) \in Pos
             /\ \A j \in 0 .. Len(c) : \A i \in 0 .. j : LossAt(b, i, j) = LossAt(c, i, j)
<1> DEFINE b == Append(c, e)
           n == Len(c)
<1>1. /\ n \in Nat /\ Len(b) = n + 1 /\ b[n + 1] = e
      /\ \A i \in 1 .. n : b[i] = c[i] /\ c[i] \in Pos
  OBVIOUS
<1> HIDE DEF b, n
<1>2. At(b, n + 1) = e
  BY <1>1 DEF At
<1>3. \A i \in 0 .. n : At(b, i) = At(c, i) /\ At(c, i) \in Pos
  BY <1>1, OnePos DEF At
<1>4. \A i \in 0 .. n + 1 : At(b, i) \in Pos
  BY <1>1, <1>2, <1>3
<1>5. ASSUME NEW j \in 0 .. n, NEW i \in 0 .. j PROVE LossAt(b, i, j) = LossAt(c, i, j)
  <2>1. i \in 0 .. n
    BY <1>1
  <2> QED BY Zenon, <1>3, <2>1 DEF LossAt
<1> QED BY Zenon, <1>1, <1>2, <1>3, <1>4, <1>5 DEF b, n

LEMMA DrawdownStep ==
  ASSUME NEW c \in Seq(Pos), NEW e \in Pos, NEW p \in Pos, NEW m \in Rat,
         Top(c, p), Worst(c, m)
  PROVE  LET q == Larger(p, e)
         IN  Top(Append(c, e), q) /\ Worst(Append(c, e), Larger(m, (q -- e) // q))
<1> DEFINE b == Append(c, e)
           n == Len(c)
           q == Larger(p, e)
           l == (q -- e) // q
           d == Larger(m, l)
<1>1. /\ n \in Nat /\ Len(b) = n + 1 /\ At(b, n + 1) = e
      /\ \A i \in 0 .. n : At(b, i) = At(c, i) /\ At(c, i) \in Pos
      /\ \A i \in 0 .. n + 1 : At(b, i) \in Pos
      /\ \A j \in 0 .. n : \A i \in 0 .. j : LossAt(b, i, j) = LossAt(c, i, j)
  BY Zenon, CurveGrows
<1>2. /\ p \in Rat /\ e \in Rat /\ q \in Pos /\ q \in Rat
      /\ Q(0) \prec q /\ Q(0) \prec e
  BY Zenon, PosClosed
<1>3. l \in Rat
  BY Zenon, <1>2, LossIs
<1>4. p \preceq q /\ e \preceq q /\ (q = p \/ q = e)
  BY Zenon, <1>2, LargerFacts
<1> HIDE DEF q
<1>5. d \in Rat /\ m \preceq d /\ l \preceq d /\ (d = m \/ d = l)
  BY Zenon, <1>3, LargerFacts
<1> HIDE DEF b, n, l, d
<1>6. ASSUME NEW i \in 0 .. n + 1 PROVE At(b, i) \preceq q
  <2>1. CASE i = n + 1
    BY Zenon, <1>1, <1>4, <2>1
  <2>2. CASE i # n + 1
    <3>1. i \in 0 .. n
      BY <1>1, <2>2
    <3>2. At(b, i) = At(c, i) /\ At(c, i) \preceq p /\ At(c, i) \in Rat
      BY Zenon, <1>1, <3>1, PosClosed DEF Top, n
    <3> QED BY Zenon, <1>2, <1>4, <3>2, RatTransitive
  <2> QED BY Zenon, <2>1, <2>2
<1>7. PICK k \in 0 .. n + 1 : q = At(b, k)
  <2>1. CASE q = e
    <3>1. n + 1 \in 0 .. n + 1
      BY <1>1
    <3> QED BY Zenon, <1>1, <2>1, <3>1
  <2>2. CASE q = p
    <3>1. PICK i \in 0 .. n : p = At(c, i)
      BY Zenon DEF Top, n
    <3>2. i \in 0 .. n + 1
      BY <1>1
    <3> QED BY Zenon, <1>1, <2>2, <3>1, <3>2
  <2> QED BY Zenon, <1>4, <2>1, <2>2
<1>8. Top(b, q)
  BY Zenon, <1>1, <1>6, <1>7 DEF Top
<1>9. \E j \in 0 .. n + 1 : \E i \in 0 .. j : d = LossAt(b, i, j)
  <2>1. CASE d = m
    <3>1. PICK j \in 0 .. n : \E i \in 0 .. j : m = LossAt(c, i, j)
      BY Zenon DEF Worst, n
    <3>2. j \in 0 .. n + 1
      BY <1>1
    <3> QED BY Zenon, <1>1, <2>1, <3>1, <3>2
  <2>2. CASE d = l
    <3>1. n + 1 \in 0 .. n + 1 /\ l = LossAt(b, k, n + 1)
      BY <1>1, <1>7 DEF LossAt, l
    <3> QED BY Zenon, <2>2, <3>1
  <2> QED BY Zenon, <1>5, <2>1, <2>2
<1>10. ASSUME NEW j \in 0 .. n + 1, NEW i \in 0 .. j PROVE LossAt(b, i, j) \preceq d
  <2>1. CASE j = n + 1
    <3>1. At(b, j) = e /\ At(b, i) \in Pos /\ At(b, i) \preceq q
      BY Zenon, <1>1, <1>6, <2>1
    <3>2. At(b, i) \in Rat /\ Q(0) \prec At(b, i)
      BY Zenon, <3>1, PosClosed
    <3>3. (At(b, i) -- e) // At(b, i) \in Rat /\ (At(b, i) -- e) // At(b, i) \preceq l
      BY Zenon, <1>2, <3>1, <3>2, LossIs, LossMonotone DEF l
    <3>4. (At(b, i) -- e) // At(b, i) \preceq d
      BY Zenon, <1>3, <1>5, <3>3, RatTransitive
    <3> QED BY Zenon, <3>1, <3>4 DEF LossAt
  <2>2. CASE j # n + 1
    <3>1. j \in 0 .. n /\ i \in 0 .. n
      BY <1>1, <2>2
    <3>2. LossAt(b, i, j) = LossAt(c, i, j) /\ LossAt(c, i, j) \preceq m
      BY Zenon, <1>1, <3>1 DEF Worst, n
    <3>3. LossAt(c, i, j) \in Rat
      BY Zenon, <1>1, <3>1, PosClosed, LossIs DEF LossAt
    <3> QED BY ZenonT(40), <1>5, <3>2, <3>3, RatTransitive
  <2> QED BY Zenon, <2>1, <2>2
<1>11. Worst(b, d)
  BY Zenon, <1>1, <1>9, <1>10 DEF Worst
<1> QED BY Zenon, <1>8, <1>11 DEF b, d, l, q

DrawInv == Top(curve, peak) /\ Worst(curve, max_drawdown)

LEMMA WorstIs ==
  DrawdownIsWorstLoss <=> Worst(curve, max_drawdown)
BY Zenon DEF DrawdownIsWorstLoss, Worst, LossAt, At, Equity

(* DrawdownIsWorstLoss holds for every strategy, every market of positive  *)
(* prices and every commission below 1: the running peak of run_backtest() *)
(* finds the worst loss between any two points of the equity curve.        *)
THEOREM DrawdownIsWorst ==
  Spec => []DrawdownIsWorstLoss
<1>1. Init => DrawInv
  <2> SUFFICES ASSUME Init PROVE DrawInv
    OBVIOUS
  <2>1. curve = <<>> /\ peak = Q(1) /\ max_drawdown = Q(0) /\ 0 .. Len(curve) = {0}
    BY DEF Init
  <2>2. /\ At(curve, 0) = Q(1) /\ Q(1) \in Rat /\ Q(0) \in Rat /\ Q(0) \prec Q(1)
        /\ Q(1) \preceq Q(1) /\ Q(0) \preceq Q(0) /\ 0 .. 0 = {0}
    BY ZeroOne, RatOrder DEF At
  <2>3. LossAt(curve, 0, 0) = Q(0)
    <3>1. Q(1) -- Q(1) = Q(0) /\ Q(0) // Q(1) = Q(0)
      BY Zenon, <2>2, RatSums, RatQuotients
    <3> QED BY Zenon, <2>2, <3>1 DEF LossAt
  <2>4. Top(curve, peak)
    BY <2>1, <2>2 DEF Top
  <2>5. Worst(curve, max_drawdown)
    BY <2>1, <2>2, <2>3 DEF Worst
  <2> QED BY Zenon, <2>4, <2>5 DEF DrawInv
<1>2. TypeInv /\ TypeInv' /\ DrawInv /\ [Next]_vars => DrawInv'
  <2> SUFFICES ASSUME TypeInv, TypeInv', DrawInv, [Next]_vars PROVE DrawInv'
    OBVIOUS
  <2>1. CASE UNCHANGED <<curve, peak, max_drawdown>>
    BY <2>1 DEF DrawInv
  <2>2. ASSUME NEW bar \in Market[strategy.kind], OnBar(bar) PROVE DrawInv'
    <3>1. /\ peak' = Larger(peak, equity')
          /\ max_drawdown' = Larger(max_drawdown, (peak' -- equity') // peak')
          /\ curve' = Append(curve, equity')
      BY Zenon, <2>2 DEF OnBar, PeakWith
    <3>2. /\ curve \in Seq(Pos) /\ peak \in Pos /\ max_drawdown \in Rat /\ equity' \in Pos
      BY Zenon DEF TypeInv
    <3>3. PICK e \in Pos : e = equity'
      BY Zenon, <3>2
    <3>4. PICK q : q = Larger(peak, e)
      BY Zenon
    <3>5. Top(Append(curve, e), q) /\ Worst(Append(curve, e), Larger(max_drawdown, (q -- e) // q))
      BY Zenon, <3>2, <3>4, DrawdownStep DEF DrawInv
    <3>6. /\ curve' = Append(curve, e) /\ peak' = q
          /\ max_drawdown' = Larger(max_drawdown, (q -- e) // q)
      BY <3>1, <3>3, <3>4
    <3> QED BY <3>5, <3>6 DEF DrawInv
  <2> QED BY <2>1, <2>2 DEF Next, ReturnEarly, Return, vars, history
<1>3. DrawInv => DrawdownIsWorstLoss
  BY Zenon, WorstIs DEF DrawInv
<1> QED BY <1>1, <1>2, <1>3, TypesHold, PTL DEF Spec

-----------------------------------------------------------------------------
(* Growth, which multiplies along a log of trades *)
TradeType == [entry : Nat, exit : Nat, growth : Pos]

Products(g, log) ==
  /\ g \in [0 .. Len(log) -> Pos] /\ g[0] = Q(1)
  /\ \A i \in 1 .. Len(log) : g[i] = g[i - 1] ** log[i].growth

LEMMA GrowthTrace ==
  ASSUME NEW log \in Seq(TradeType)
  PROVE  \E g : Products(g, log) /\ Growth(log) = g[Len(log)]
<1>1. PICK n \in Nat : n = Len(log)
  OBVIOUS
<1>2. ASSUME NEW i \in 1 .. n PROVE log[i].growth \in Pos
  <2>1. log[i] \in TradeType
    BY <1>1
  <2> QED BY Zenon, <2>1 DEF TradeType
<1> DEFINE Def(p) == [i \in 0 .. n |-> IF i = 0 THEN Q(1) ELSE p[i - 1] ** log[i].growth]
           P == CHOOSE p : p = Def(p)
<1>3. PICK g \in [0 .. n -> Pos] :
        g[0] = Q(1) /\ \A i \in 1 .. n : g[i] = g[i - 1] ** log[i].growth
  <2> DEFINE F == [i \in 1 .. n |-> [x \in Pos |-> x ** log[i].growth]]
  <2>1. Loop(F, Pos, n)
    <3>1. ASSUME NEW i \in 1 .. n, NEW x \in Pos PROVE x ** log[i].growth \in Pos
      BY Zenon, <1>2, PosClosed
    <3> QED BY Zenon, <3>1 DEF Loop
  <2>2. \A i \in 1 .. n, x \in Pos : F[i][x] = x ** log[i].growth
    BY Zenon
  <2> HIDE DEF F
  <2>3. PICK g : Runs(g, F, Q(1), Pos, n)
    BY Zenon, <2>1, OnePos, Trace
  <2>4. g \in [0 .. n -> Pos] /\ g[0] = Q(1)
    BY Zenon, <2>3 DEF Runs
  <2>5. ASSUME NEW i \in 1 .. n PROVE g[i] = g[i - 1] ** log[i].growth
    <3>1. g[i] = F[i][g[i - 1]]
      BY Zenon, <2>3 DEF Runs
    <3>2. g[i - 1] \in Pos
      BY <2>4
    <3> QED BY <2>2, <3>1, <3>2, Zenon
  <2> QED BY Zenon, <2>4, <2>5
<1>4. g = Def(g)
  BY <1>3
<1>5. P = Def(P)
  BY Zenon, <1>4
<1>6. Growth(log) = P[n]
  BY <1>1 DEF Growth
<1> HIDE DEF P
<1>7. P[0] = Q(1) /\ \A i \in 1 .. n : P[i] = P[i - 1] ** log[i].growth
  BY <1>5
<1>8. \A i \in 0 .. n : P[i] = g[i]
  <2>1. Alike(P, g, n)
    BY <1>3, <1>7 DEF Alike
  <2> QED BY Zenon, <2>1, OneTrace
<1>9. Products(g, log)
  BY Zenon, <1>1, <1>3 DEF Products
<1> QED BY <1>1, <1>6, <1>8, <1>9

LEMMA GrowthNone ==
  Growth(<<>>) = Q(1)
<1>1. <<>> \in Seq(TradeType) /\ Len(<<>>) = 0
  OBVIOUS
<1> QED BY Zenon, <1>1, GrowthTrace DEF Products

LEMMA GrowthPos ==
  ASSUME NEW log \in Seq(TradeType)
  PROVE  Growth(log) \in Pos
<1>1. PICK g : Products(g, log) /\ Growth(log) = g[Len(log)]
  BY Zenon, GrowthTrace
<1>2. Len(log) \in 0 .. Len(log)
  OBVIOUS
<1> QED BY Zenon, <1>1, <1>2 DEF Products

LEMMA GrowthAppend ==
  ASSUME NEW log \in Seq(TradeType), NEW t \in TradeType
  PROVE  /\ Growth(log) \in Pos
         /\ Growth(Append(log, t)) = Growth(log) ** t.growth
<1> DEFINE b == Append(log, t)
<1>1. PICK n \in Nat : n = Len(log)
  OBVIOUS
<1>2. /\ b \in Seq(TradeType) /\ Len(b) = n + 1 /\ b[n + 1] = t
      /\ \A i \in 1 .. n : b[i] = log[i]
  BY <1>1
<1> HIDE DEF b
<1>3. PICK g : Products(g, log) /\ Growth(log) = g[n]
  BY Zenon, <1>1, GrowthTrace
<1>4. PICK h : Products(h, b) /\ Growth(b) = h[n + 1]
  BY Zenon, <1>2, GrowthTrace
<1>5. /\ g \in [0 .. n -> Pos] /\ g[0] = Q(1)
      /\ \A i \in 1 .. n : g[i] = g[i - 1] ** log[i].growth
  BY Zenon, <1>1, <1>3 DEF Products
<1>6. h[0] = Q(1) /\ \A i \in 1 .. n + 1 : h[i] = h[i - 1] ** b[i].growth
  BY Zenon, <1>2, <1>4 DEF Products
<1>7. Alike(h, g, n)
  <2>1. ASSUME NEW i \in 1 .. n, h[i - 1] = g[i - 1] PROVE h[i] = g[i]
    <3>1. i \in 1 .. n + 1
      OBVIOUS
    <3> QED BY Zenon, <1>2, <1>5, <1>6, <2>1, <3>1
  <2> QED BY Zenon, <1>5, <1>6, <2>1 DEF Alike
<1>8. h[n] = g[n] /\ g[n] \in Pos
  <2>1. n \in 0 .. n
    OBVIOUS
  <2> QED BY ZenonT(40), <1>5, <1>7, <2>1, OneTrace
<1>9. h[n + 1] = h[n] ** t.growth
  <2>1. n + 1 \in 1 .. n + 1 /\ (n + 1) - 1 = n
    OBVIOUS
  <2>2. h[n + 1] = h[(n + 1) - 1] ** b[n + 1].growth
    BY Zenon, <1>6, <2>1
  <2> QED BY <1>2, <2>1, <2>2
<1> QED BY <1>3, <1>4, <1>8, <1>9 DEF b

-----------------------------------------------------------------------------
(* Equity and trades.  The invariant adds to EquityIsTradeProduct what the *)
(* loop knows of the open position: it is open when the last buy has no    *)
(* sell after it, it was entered after every exit, and with it the log     *)
(* accounts for every opening buy.                                         *)
Holding(acts) ==
  \E j \in DOMAIN acts : acts[j] = "buy" /\ \A k \in j .. Len(acts) : acts[k] # "sell"

OpensAt(acts, i) ==
  /\ acts[i] = "buy"
  /\ \A j \in 1 .. i - 1 : acts[j] = "buy" => \E k \in j .. i : acts[k] = "sell"

Openings(acts) == {i \in DOMAIN acts : OpensAt(acts, i)}

Entries(log) == {log[i].entry : i \in DOMAIN log}

Ordered(log) ==
  /\ \A i \in DOMAIN log : log[i].entry <= log[i].exit
  /\ \A i \in 2 .. Len(log) : log[i - 1].exit < log[i].entry

ExitsBefore(log, n) == \A i \in DOMAIN log : log[i].exit < n

OpenValue ==
  IF long_pos /\ pc = "loop"
  THEN (bars[Len(bars)].close // entry.price) ** Kept ELSE Q(1)

EquityInv ==
  /\ pc = "called" => equity = Q(1) /\ trade_log = <<>> /\ report = EmptyReport
  /\ equity = Growth(trade_log) ** OpenValue
  /\ Ordered(trade_log) /\ ExitsBefore(trade_log, Len(bars) + 1)
  /\ pc = "returned" =>
       /\ report.trades = Len(trade_log) /\ report.total_return = equity -- Q(1)
       /\ Entries(trade_log) = Openings(actions)
  /\ pc # "returned" =>
       /\ long_pos <=> Holding(actions)
       /\ Openings(actions) =
            Entries(trade_log) \cup (IF long_pos THEN {entry.time} ELSE {})
       /\ long_pos => entry.time \in 1 .. Len(bars) /\ ExitsBefore(trade_log, entry.time)

LEMMA HoldingAppend ==
  ASSUME NEW acts \in Seq(Actions), NEW a \in Actions
  PROVE  Holding(Append(acts, a)) <=> a = "buy" \/ (a # "sell" /\ Holding(acts))
<1> DEFINE b == Append(acts, a)
           n == Len(acts)
<1>1. /\ n \in Nat /\ Len(b) = n + 1 /\ b[n + 1] = a
      /\ \A j \in 1 .. n : b[j] = acts[j]
      /\ DOMAIN acts = 1 .. n /\ DOMAIN b = 1 .. n + 1
  OBVIOUS
<1> HIDE DEF b
<1>2. CASE a = "buy"
  <2>1. \A k \in n + 1 .. n + 1 : b[k] # "sell"
    BY <1>1, <1>2
  <2>2. n + 1 \in DOMAIN b /\ b[n + 1] = "buy"
    BY <1>1, <1>2
  <2> QED BY Zenon, <1>1, <1>2, <2>1, <2>2 DEF Holding, b
<1>3. CASE a = "sell"
  <2>1. ASSUME NEW j \in DOMAIN b PROVE n + 1 \in j .. n + 1 /\ b[n + 1] = "sell"
    BY <1>1, <1>3
  <2>2. ~Holding(b)
    BY Zenon, <1>1, <2>1 DEF Holding
  <2> QED BY <1>3, <2>2 DEF b
<1>4. CASE a = "hold"
  <2>1. ASSUME Holding(acts) PROVE Holding(b)
    <3>1. PICK j \in DOMAIN acts : acts[j] = "buy" /\ \A k \in j .. n : acts[k] # "sell"
      BY Zenon, <2>1 DEF Holding
    <3>2. j \in DOMAIN b /\ b[j] = "buy"
      BY <1>1, <3>1
    <3>3. \A k \in j .. n + 1 : b[k] # "sell"
      BY <1>1, <1>4, <3>1
    <3> QED BY Zenon, <1>1, <3>2, <3>3 DEF Holding
  <2>2. ASSUME Holding(b) PROVE Holding(acts)
    <3>1. PICK j \in DOMAIN b : b[j] = "buy" /\ \A k \in j .. n + 1 : b[k] # "sell"
      BY Zenon, <1>1, <2>2 DEF Holding
    <3>2. j \in DOMAIN acts /\ acts[j] = "buy"
      BY SMTT(20), <1>1, <1>4, <3>1
    <3>3. \A k \in j .. n : acts[k] # "sell"
      BY SMTT(20), <1>1, <3>1
    <3> QED BY Zenon, <3>2, <3>3 DEF Holding
  <2> QED BY SMTT(20), <1>4, <2>1, <2>2 DEF b
<1> QED BY <1>2, <1>3, <1>4 DEF Actions

LEMMA OpeningsAppend ==
  ASSUME NEW acts \in Seq(Actions), NEW a \in Actions
  PROVE  Openings(Append(acts, a)) =
           Openings(acts) \cup (IF a = "buy" /\ ~Holding(acts) THEN {Len(acts) + 1} ELSE {})
<1> DEFINE b == Append(acts, a)
           n == Len(acts)
<1>1. /\ n \in Nat /\ Len(b) = n + 1 /\ b[n + 1] = a
      /\ \A j \in 1 .. n : b[j] = acts[j]
      /\ DOMAIN acts = 1 .. n /\ DOMAIN b = 1 .. n + 1
  OBVIOUS
<1> HIDE DEF b
<1>2. ASSUME NEW i \in 1 .. n PROVE OpensAt(b, i) <=> OpensAt(acts, i)
  <2>1. b[i] = acts[i]
    BY Zenon, <1>1
  <2>2. ASSUME NEW j \in 1 .. i - 1
        PROVE  /\ b[j] = acts[j]
               /\ (\E k \in j .. i : b[k] = "sell") <=> (\E k \in j .. i : acts[k] = "sell")
    BY <1>1
  <2> QED BY Zenon, <2>1, <2>2 DEF OpensAt
<1>3. OpensAt(b, n + 1) <=> a = "buy" /\ ~Holding(acts)
  <2>1. CASE a # "buy"
    BY Zenon, <1>1, <2>1 DEF OpensAt
  <2>2. CASE a = "buy"
    <3>1. 1 .. (n + 1) - 1 = 1 .. n
      BY <1>1
    <3>2. ASSUME NEW j \in 1 .. n
          PROVE  /\ b[j] = acts[j]
                 /\ (\E k \in j .. n + 1 : b[k] = "sell") <=> (\E k \in j .. n : acts[k] = "sell")
      BY <1>1, <2>2
    <3> QED BY ZenonT(40), <1>1, <2>2, <3>1, <3>2 DEF OpensAt, Holding
  <2> QED BY Zenon, <2>1, <2>2
<1>4. ASSUME NEW i
      PROVE  i \in Openings(b) <=>
               i \in Openings(acts) \/ (i = n + 1 /\ a = "buy" /\ ~Holding(acts))
  <2>1. i \in 1 .. n + 1 <=> i \in 1 .. n \/ i = n + 1
    BY <1>1
  <2>2. ~(n + 1 \in 1 .. n)
    BY <1>1
  <2> QED BY ZenonT(40), <1>1, <1>2, <1>3, <2>1, <2>2 DEF Openings
<1> QED BY <1>4 DEF b

LEMMA LogAppend ==
  ASSUME NEW log \in Seq(TradeType), NEW t \in TradeType
  PROVE  /\ Entries(Append(log, t)) = Entries(log) \cup {t.entry}
         /\ \A n \in Nat : ExitsBefore(log, n) /\ t.exit < n => ExitsBefore(Append(log, t), n)
         /\ Ordered(log) /\ ExitsBefore(log, t.entry) /\ t.entry <= t.exit
              => Ordered(Append(log, t))
<1> DEFINE b == Append(log, t)
           m == Len(log)
<1>1. /\ m \in Nat /\ Len(b) = m + 1 /\ b[m + 1] = t
      /\ \A j \in 1 .. m : b[j] = log[j]
      /\ DOMAIN log = 1 .. m /\ DOMAIN b = 1 .. m + 1
  OBVIOUS
<1> HIDE DEF b, m
<1>2. \A i \in 1 .. m + 1 : i \in 1 .. m \/ i = m + 1
  BY <1>1
<1>3. m + 1 \in 1 .. m + 1 /\ \A i \in 1 .. m : i \in 1 .. m + 1
  BY <1>1
<1>4. Entries(b) = Entries(log) \cup {t.entry}
  BY Zenon, <1>1, <1>2, <1>3 DEF Entries
<1>5. ASSUME NEW n \in Nat, ExitsBefore(log, n), t.exit < n PROVE ExitsBefore(b, n)
  BY Zenon, <1>1, <1>2, <1>5 DEF ExitsBefore
<1>6. ASSUME Ordered(log), ExitsBefore(log, t.entry), t.entry <= t.exit PROVE Ordered(b)
  <2>1. \A i \in DOMAIN b : b[i].entry <= b[i].exit
    BY Zenon, <1>1, <1>2, <1>6 DEF Ordered
  <2>2. ASSUME NEW i \in 2 .. m + 1 PROVE b[i - 1].exit < b[i].entry
    <3>1. i - 1 \in 1 .. m /\ b[i - 1] = log[i - 1]
      BY <1>1
    <3>2. CASE i = m + 1
      <4>1. b[i] = t /\ log[i - 1].exit < t.entry
        BY ZenonT(40), <1>1, <1>6, <3>1, <3>2 DEF ExitsBefore
      <4> QED BY <3>1, <4>1
    <3>3. CASE i # m + 1
      <4>1. i \in 2 .. m /\ b[i] = log[i]
        BY SMTT(20), <1>1, <3>3
      <4>2. log[i - 1].exit < log[i].entry
        BY Zenon, <1>6, <4>1 DEF Ordered, m
      <4> QED BY SMTT(20), <3>1, <4>1, <4>2
    <3> QED BY Zenon, <3>2, <3>3
  <2> QED BY Zenon, <1>1, <2>1, <2>2 DEF Ordered
<1> QED BY Zenon, <1>4, <1>5, <1>6 DEF b

(* Marking a position to market telescopes. *)
LEMMA MarkTelescopes ==
  ASSUME NEW g \in Pos, NEW e \in Pos, NEW p \in Pos, NEW q \in Pos, NEW k \in Pos
  PROVE  (g ** ((p // e) ** k)) ** (q // p) = g ** ((q // e) ** k)
<1>1. /\ g \in Rat /\ e \in Rat /\ p \in Rat /\ q \in Rat /\ k \in Rat
      /\ Q(0) \prec e /\ Q(0) \prec p
  BY Zenon, PosClosed
<1>2. PICK u \in Rat, v \in Rat : u = p // e /\ v = q // p
  BY Zenon, <1>1, RatQuotients
<1>3. u ** v = q // e
  BY Zenon, <1>1, <1>2, RatTelescope
<1>4. u ** k \in Rat /\ v ** k = k ** v
  BY Zenon, <1>1, <1>2, RatProducts
<1>5. (g ** (u ** k)) ** v = g ** ((u ** k) ** v)
  BY SMTT(20), <1>1, <1>2, <1>4, RatProducts3
<1>6. (u ** k) ** v = u ** (k ** v)
  BY SMTT(20), <1>1, <1>2, RatProducts3
<1>7. (u ** v) ** k = u ** (v ** k)
  BY SMTT(20), <1>1, <1>2, RatProducts3
<1> QED BY SMTT(20), <1>2, <1>3, <1>4, <1>5, <1>6, <1>7

(* An iteration that buys, sells or does neither. *)
LEMMA Filled ==
  ASSUME TypeInv, NEW bar \in Bar, NEW a \in Actions, NEW marked, Fill(a, bar, marked)
  PROVE  \/ /\ a = "buy" /\ ~long_pos /\ long_pos'
            /\ entry' = [time |-> Len(bars) + 1, price |-> bar.close]
            /\ equity' = marked ** Kept /\ trade_log' = trade_log
         \/ /\ a = "sell" /\ long_pos /\ ~long_pos'
            /\ equity' = marked ** Kept
            /\ trade_log' = Append(trade_log, Trade(Len(bars) + 1, bar.close))
         \/ /\ a = "hold" \/ (a = "buy" /\ long_pos) \/ (a = "sell" /\ ~long_pos)
            /\ long_pos' = long_pos /\ entry' = entry
            /\ equity' = marked /\ trade_log' = trade_log
<1>1. CASE a = "buy" /\ ~long_pos
  BY Zenon, <1>1 DEF Fill
<1>2. CASE a = "sell" /\ long_pos
  <2>1. /\ long_pos' = FALSE /\ equity' = marked ** Kept
        /\ trade_log' = Append(trade_log, Trade(Len(bars) + 1, bar.close))
    BY Zenon, <1>2 DEF Fill
  <2> QED BY Zenon, <1>2, <2>1
<1>3. CASE a = "hold" \/ (a = "buy" /\ long_pos) \/ (a = "sell" /\ ~long_pos)
  BY Zenon, <1>3 DEF Fill
<1> QED BY Zenon, <1>1, <1>2, <1>3 DEF Fill

LEMMA TradeFacts ==
  ASSUME TypeInv, long_pos, NEW time \in Nat, NEW price \in Pos
  PROVE  LET t == Trade(time, price)
         IN  /\ t \in TradeType /\ t.entry = entry.time /\ t.exit = time
             /\ t.growth = ((price // entry.price) ** Kept) ** Kept
             /\ entry.price \in Pos /\ entry.time \in Nat
<1>1. entry.price \in Pos /\ entry.time \in Nat /\ Kept \in Pos
  BY KeptPos DEF TypeInv
<1>2. price // entry.price \in Pos
  BY Zenon, <1>1, PosClosed
<1>3. ((price // entry.price) ** Kept) ** Kept \in Pos
  BY Zenon, <1>1, <1>2, PosClosed
<1> QED BY <1>1, <1>3 DEF Trade, TradeType

(* A logged trade takes the place of the open position. *)
LEMMA CloseTrade ==
  ASSUME NEW log \in Seq(TradeType), NEW t \in TradeType, NEW x \in Pos,
         t.growth = x ** Kept
  PROVE  (Growth(log) ** x) ** Kept = Growth(Append(log, t)) ** Q(1)
<1>1. /\ Growth(log) \in Rat /\ x \in Rat /\ Kept \in Rat
  BY Zenon, GrowthAppend, KeptPos, PosClosed
<1>2. Growth(Append(log, t)) = Growth(log) ** t.growth
  BY Zenon, GrowthAppend
<1>3. x ** Kept \in Rat
  BY Zenon, <1>1, RatProducts
<1>3a. (Growth(log) ** x) ** Kept = Growth(log) ** (x ** Kept)
  BY SMTT(20), <1>1, RatProducts3
<1>4. Growth(log) ** (x ** Kept) \in Rat
  BY Zenon, <1>1, <1>3, RatProducts
<1>5. (Growth(log) ** (x ** Kept)) ** Q(1) = Growth(log) ** (x ** Kept)
  BY Zenon, <1>4, RatProducts
<1> QED BY <1>2, <1>3a, <1>5

LEMMA EquityOnBar ==
  ASSUME TypeInv, TypeInv', EquityInv, NEW bar \in Bar, NEW a \in Actions,
         NEW t, Iterated(bar, t, a)
  PROVE  EquityInv'
<1> DEFINE n == Len(bars)
           G == Growth(trade_log)
           last == bars[Len(bars)].close
<1>1. /\ n \in Nat /\ Len(actions) = n /\ actions \in Seq(Actions)
      /\ trade_log \in Seq(TradeType) /\ equity \in Pos /\ equity \in Rat
      /\ bar.close \in Pos /\ Kept \in Pos /\ n + 1 \in Nat
  BY KeptPos, BarFacts, PosClosed DEF TypeInv, TradeType, Pos
<1>2. /\ pc \in {"called", "loop"} /\ pc' = "loop" /\ actions' = Append(actions, a)
      /\ bars' = Append(bars, bar) /\ Fill(a, bar, MarkedEquity(bar))
  BY Zenon DEF Iterated
<1>3. Len(bars') = n + 1 /\ bars'[Len(bars')] = bar
  BY <1>2 DEF TypeInv
<1>4. /\ long_pos <=> Holding(actions)
      /\ Openings(actions) = Entries(trade_log) \cup (IF long_pos THEN {entry.time} ELSE {})
      /\ long_pos => entry.time \in 1 .. n /\ ExitsBefore(trade_log, entry.time)
      /\ Ordered(trade_log) /\ ExitsBefore(trade_log, n + 1)
      /\ equity = G ** OpenValue
  BY <1>2 DEF EquityInv
<1>5. /\ Holding(actions') <=> a = "buy" \/ (a # "sell" /\ long_pos)
      /\ Openings(actions') =
           Openings(actions) \cup (IF a = "buy" /\ ~long_pos THEN {n + 1} ELSE {})
  BY SMTT(20), <1>1, <1>2, <1>4, HoldingAppend, OpeningsAppend
<1>6. G \in Pos /\ G \in Rat /\ G ** Q(1) = G
  <2>1. G \in Pos
    BY ZenonT(40), <1>1, GrowthPos
  <2> QED BY ZenonT(40), <2>1, PosClosed, RatProducts
<1> HIDE DEF n, G, last
<1>7. ASSUME long_pos
      PROVE  /\ last \in Pos /\ entry.price \in Pos /\ pc = "loop"
             /\ MarkedEquity(bar) = G ** ((bar.close // entry.price) ** Kept)
  <2>1. bars # <<>> /\ pc = "loop" /\ entry.price \in Pos
    BY <1>2, <1>7 DEF TypeInv
  <2>2. last \in Pos
    BY Zenon, <2>1, LastClose DEF last
  <2>3. OpenValue = (last // entry.price) ** Kept
    BY Zenon, <1>7, <2>1 DEF OpenValue, last
  <2>4. MarkedEquity(bar) = equity ** (bar.close // last)
    BY Zenon, <1>7, MarkedPos DEF last
  <2>5. (G ** ((last // entry.price) ** Kept)) ** (bar.close // last)
          = G ** ((bar.close // entry.price) ** Kept)
    BY SMTT(20), <1>1, <1>6, <2>1, <2>2, MarkTelescopes
  <2> QED BY SMTT(20), <1>4, <2>1, <2>2, <2>3, <2>4, <2>5
<1>8. ASSUME ~long_pos
      PROVE  MarkedEquity(bar) = G
  <2>1. MarkedEquity(bar) = equity /\ OpenValue = Q(1)
    BY Zenon, <1>8, MarkedPos DEF OpenValue
  <2> QED BY <1>4, <1>6, <2>1
<1>9. OpenValue' = IF long_pos' THEN (bar.close // entry'.price) ** Kept ELSE Q(1)
  BY SMTT(20), <1>2, <1>3 DEF OpenValue, Kept
(* what every case leaves to show *)
<1>10. ASSUME /\ equity' = Growth(trade_log') ** OpenValue'
              /\ Ordered(trade_log') /\ ExitsBefore(trade_log', n + 2)
              /\ long_pos' <=> Holding(actions')
              /\ Openings(actions') =
                   Entries(trade_log') \cup (IF long_pos' THEN {entry'.time} ELSE {})
              /\ long_pos' => entry'.time \in 1 .. n + 1 /\ ExitsBefore(trade_log', entry'.time)
       PROVE  EquityInv'
  <2>1. Len(bars') + 1 = n + 2
    BY <1>1, <1>3
  <2> QED BY SMTT(20), <1>2, <1>3, <1>10, <2>1 DEF EquityInv
<1>11. \A log : ExitsBefore(log, n + 1) /\ log \in Seq(TradeType) => ExitsBefore(log, n + 2)
  <2> SUFFICES ASSUME NEW log \in Seq(TradeType), ExitsBefore(log, n + 1), NEW i \in DOMAIN log
               PROVE  log[i].exit < n + 2
    BY Zenon DEF ExitsBefore
  <2>1. log[i] \in TradeType /\ log[i].exit < n + 1
    BY DEF ExitsBefore
  <2>2. log[i].exit \in Nat
    BY Zenon, <2>1 DEF TradeType
  <2> QED BY SMTT(20), <1>1, <2>1, <2>2
<1>12. CASE /\ a = "buy" /\ ~long_pos /\ long_pos'
            /\ entry' = [time |-> n + 1, price |-> bar.close]
            /\ equity' = MarkedEquity(bar) ** Kept /\ trade_log' = trade_log
  <2>1. equity' = Growth(trade_log') ** OpenValue'
    <3>1. bar.close // bar.close = Q(1)
      <4>1. bar.close \in Rat /\ Q(0) \prec bar.close /\ Q(1) \in Rat
        BY Zenon, <1>1, PosClosed, ZeroOne
      <4>2. Q(1) ** bar.close = bar.close
        BY Zenon, <4>1, RatProducts
      <4> QED BY Zenon, <4>1, <4>2, RatSolve
    <3>2. entry'.price = bar.close /\ Q(1) ** Kept = Kept
      BY Zenon, <1>1, <1>12, PosClosed, RatProducts
    <3>3. OpenValue' = Kept
      BY <1>9, <1>12, <3>1, <3>2
    <3> QED BY <1>8, <1>12, <3>3 DEF G
  <2>2. entry'.time = n + 1 /\ n + 1 \in 1 .. n + 1
    BY <1>1, <1>12
  <2>3. Openings(actions') = Entries(trade_log') \cup {entry'.time}
    BY SMTT(20), <1>4, <1>5, <1>12, <2>2
  <2>4. ExitsBefore(trade_log', entry'.time) /\ ExitsBefore(trade_log', n + 2)
    BY ZenonT(40), <1>1, <1>4, <1>11, <1>12, <2>2
  <2> QED BY ZenonT(40), <1>4, <1>5, <1>10, <1>12, <2>1, <2>2, <2>3, <2>4
<1>13. CASE /\ a = "sell" /\ long_pos /\ ~long_pos'
            /\ equity' = MarkedEquity(bar) ** Kept
            /\ trade_log' = Append(trade_log, Trade(n + 1, bar.close))
  <2>1. PICK x \in TradeType :
          /\ x = Trade(n + 1, bar.close) /\ x.entry = entry.time /\ x.exit = n + 1
          /\ x.growth = ((bar.close // entry.price) ** Kept) ** Kept
    BY ZenonT(40), <1>1, <1>13, TradeFacts
  <2>2. (bar.close // entry.price) ** Kept \in Pos
    <3>1. bar.close // entry.price \in Pos
      BY ZenonT(40), <1>1, <1>7, <1>13, PosClosed
    <3> QED BY Zenon, <1>1, <3>1, PosClosed
  <2>3. equity' = Growth(trade_log') ** OpenValue'
    <3>1. (G ** ((bar.close // entry.price) ** Kept)) ** Kept
            = Growth(Append(trade_log, x)) ** Q(1)
      BY ZenonT(40), <1>1, <2>1, <2>2, CloseTrade DEF G
    <3>2. OpenValue' = Q(1)
      BY Zenon, <1>9, <1>13
    <3> QED BY SMTT(20), <1>7, <1>13, <2>1, <3>1, <3>2
  <2>4. /\ entry.time \in 1 .. n /\ entry.time <= n + 1 /\ n + 1 < n + 2 /\ n + 2 \in Nat
    BY SMTT(20), <1>1, <1>4, <1>13
  <2>5. Ordered(trade_log') /\ ExitsBefore(trade_log', n + 2)
    <3>1. ExitsBefore(trade_log, n + 2) /\ x.exit < n + 2
      BY SMTT(20), <1>1, <1>4, <1>11, <2>1, <2>4
    <3>2. ExitsBefore(trade_log, x.entry) /\ x.entry <= x.exit
      BY SMTT(20), <1>4, <1>13, <2>1, <2>4
    <3>3. Ordered(Append(trade_log, x)) /\ ExitsBefore(Append(trade_log, x), n + 2)
      BY ZenonT(40), <1>1, <1>4, <2>4, <3>1, <3>2, LogAppend
    <3> QED BY ZenonT(40), <1>13, <2>1, <3>3
  <2>6. Entries(trade_log') = Entries(trade_log) \cup {entry.time}
    BY ZenonT(40), <1>1, <1>13, <2>1, LogAppend
  <2>7. Openings(actions') = Entries(trade_log')
    BY SMTT(20), <1>4, <1>5, <1>13, <2>6
  <2> QED BY SMTT(20), <1>5, <1>10, <1>13, <2>3, <2>5, <2>7
<1>14. CASE /\ a = "hold" \/ (a = "buy" /\ long_pos) \/ (a = "sell" /\ ~long_pos)
            /\ long_pos' = long_pos /\ entry' = entry
            /\ equity' = MarkedEquity(bar) /\ trade_log' = trade_log
  <2>1. CASE long_pos
    <3>1. /\ a # "sell" /\ long_pos' /\ entry'.time = entry.time
          /\ entry'.price = entry.price
      BY SMTT(20), <1>14, <2>1
    <3>2. equity' = Growth(trade_log') ** OpenValue'
      BY SMTT(20), <1>7, <1>9, <1>14, <2>1, <3>1 DEF G
    <3>3. Openings(actions') = Entries(trade_log') \cup {entry'.time}
      BY SMTT(20), <1>4, <1>5, <1>14, <2>1, <3>1
    <3>4. entry'.time \in 1 .. n + 1 /\ ExitsBefore(trade_log', entry'.time)
      BY SMTT(20), <1>1, <1>4, <1>14, <2>1, <3>1
    <3>5. Ordered(trade_log') /\ ExitsBefore(trade_log', n + 2)
      BY ZenonT(40), <1>1, <1>4, <1>11, <1>14
    <3>6. Holding(actions')
      BY ZenonT(40), <1>5, <2>1, <3>1
    <3> QED BY ZenonT(40), <1>10, <3>1, <3>2, <3>3, <3>4, <3>5, <3>6
  <2>2. CASE ~long_pos
    <3>1. a # "buy" /\ ~long_pos'
      BY <1>14, <2>2
    <3>2. equity' = Growth(trade_log') ** OpenValue'
      BY SMTT(20), <1>6, <1>8, <1>9, <1>14, <2>2, <3>1 DEF G
    <3>3. Openings(actions') = Entries(trade_log')
      BY SMTT(20), <1>4, <1>5, <1>14, <2>2, <3>1
    <3>5. Ordered(trade_log') /\ ExitsBefore(trade_log', n + 2)
      BY Zenon, <1>1, <1>4, <1>11, <1>14
    <3>6. ~Holding(actions')
      BY Zenon, <1>5, <2>2, <3>1
    <3> QED BY SMTT(20), <1>10, <3>1, <3>2, <3>3, <3>5, <3>6
  <2> QED BY Zenon, <2>1, <2>2
<1> QED BY ZenonT(40), <1>2, <1>12, <1>13, <1>14, Filled DEF n

LEMMA EquityOnReturn ==
  ASSUME TypeInv, EquityInv, Return
  PROVE  EquityInv'
<1> DEFINE n == Len(bars)
           G == Growth(trade_log)
           last == bars[Len(bars)].close
<1>1. /\ n \in Nat /\ trade_log \in Seq(TradeType) /\ Kept \in Pos
      /\ pc = "loop" /\ pc' = "returned" /\ bars' = bars /\ actions' = actions
  BY KeptPos DEF TypeInv, TradeType, Return, history
<1>2. last \in Pos
  BY <1>1, LastClose DEF TypeInv
<1>3. /\ Openings(actions) = Entries(trade_log) \cup (IF long_pos THEN {entry.time} ELSE {})
      /\ long_pos => entry.time \in 1 .. n /\ ExitsBefore(trade_log, entry.time)
      /\ Ordered(trade_log) /\ ExitsBefore(trade_log, n + 1)
      /\ equity = G ** OpenValue
  BY <1>1 DEF EquityInv
<1>4. /\ report'.trades = Len(trade_log') /\ report'.total_return = equity' -- Q(1)
      /\ OpenValue' = Q(1)
  BY <1>1 DEF Return, OpenValue
<1> HIDE DEF n, G, last
<1>5. ASSUME /\ equity' = Growth(trade_log') ** Q(1)
             /\ Ordered(trade_log') /\ ExitsBefore(trade_log', n + 1)
             /\ Entries(trade_log') = Openings(actions)
      PROVE  EquityInv'
  BY SMTT(20), <1>1, <1>4, <1>5 DEF EquityInv, n
<1>6. CASE ~long_pos
  <2>1. equity' = equity /\ trade_log' = trade_log /\ OpenValue = Q(1)
    BY Zenon, <1>6 DEF Return, OpenValue
  <2> QED BY SMTT(20), <1>3, <1>5, <1>6, <2>1 DEF G
<1>7. CASE long_pos
  <2>1. /\ equity' = equity ** Kept /\ trade_log' = Append(trade_log, Trade(n, last))
        /\ OpenValue = (last // entry.price) ** Kept
    BY Zenon, <1>1, <1>7 DEF Return, OpenValue, n, last
  <2>2. PICK x \in TradeType :
          /\ x = Trade(n, last) /\ x.entry = entry.time /\ x.exit = n
          /\ x.growth = ((last // entry.price) ** Kept) ** Kept /\ entry.price \in Pos
    BY Zenon, <1>1, <1>2, <1>7, TradeFacts
  <2>3. (last // entry.price) ** Kept \in Pos
    <3>1. last // entry.price \in Pos
      BY Zenon, <1>2, <2>2, PosClosed
    <3> QED BY Zenon, <1>1, <3>1, PosClosed
  <2>4. (G ** ((last // entry.price) ** Kept)) ** Kept
          = Growth(Append(trade_log, x)) ** Q(1)
    BY ZenonT(40), <1>1, <2>2, <2>3, CloseTrade DEF G
  <2>5. equity' = Growth(trade_log') ** Q(1)
    BY SMTT(20), <1>3, <2>1, <2>2, <2>4
  <2>6. n + 1 \in Nat /\ n < n + 1 /\ x.entry <= x.exit /\ x.exit < n + 1
    BY SMTT(20), <1>1, <1>3, <1>7, <2>2
  <2>7. ExitsBefore(trade_log, x.entry)
    BY SMTT(20), <1>3, <1>7, <2>2
  <2>8. Ordered(Append(trade_log, x)) /\ ExitsBefore(Append(trade_log, x), n + 1)
    BY ZenonT(40), <1>1, <1>3, <2>6, <2>7, LogAppend
  <2>9. Entries(Append(trade_log, x)) = Entries(trade_log) \cup {x.entry}
    BY Zenon, <1>1, LogAppend
  <2> QED BY SMTT(20), <1>3, <1>5, <1>7, <2>1, <2>2, <2>5, <2>8, <2>9
<1> QED BY ZenonT(40), <1>6, <1>7

LEMMA EquityInvProduct ==
  EquityInv => EquityIsTradeProduct
BY Zenon DEF EquityInv, EquityIsTradeProduct, OpenValue, Ordered, Entries, Openings,
             OpensAt, Opens

(* EquityIsTradeProduct holds for every strategy, every market of positive *)
(* prices and every commission below 1: what run_backtest() carries from   *)
(* bar to bar is what its log of trades and its open position account for. *)
THEOREM EquityIsProduct ==
  Spec => []EquityIsTradeProduct
<1>1. Init => EquityInv
  <2> SUFFICES ASSUME Init PROVE EquityInv
    OBVIOUS
  <2>1. /\ pc = "called" /\ equity = Q(1) /\ trade_log = <<>> /\ report = EmptyReport
        /\ bars = <<>> /\ actions = <<>> /\ ~long_pos
    BY Zenon DEF Init
  <2>2. Growth(trade_log) ** OpenValue = Q(1)
    <3>1. OpenValue = Q(1) /\ Q(1) \in Rat
      BY Zenon, <2>1, ZeroOne DEF OpenValue
    <3> QED BY Zenon, <2>1, <3>1, GrowthNone, RatProducts
  <2>3. Ordered(trade_log) /\ ExitsBefore(trade_log, Len(bars) + 1)
    BY <2>1 DEF Ordered, ExitsBefore
  <2>4. ~Holding(actions) /\ Openings(actions) = {} /\ Entries(trade_log) = {}
    BY <2>1 DEF Holding, Openings, Entries
  <2> QED BY SMTT(20), <2>1, <2>2, <2>3, <2>4 DEF EquityInv
<1>2. TypeInv /\ TypeInv' /\ EquityInv /\ [Next]_vars => EquityInv'
  <2> SUFFICES ASSUME TypeInv, TypeInv', EquityInv, [Next]_vars PROVE EquityInv'
    OBVIOUS
  <2>1. CASE ReturnEarly
    <3>1. /\ pc = "called" /\ pc' = "returned" /\ equity' = Q(1) /\ trade_log' = <<>>
          /\ report' = EmptyReport /\ equity' = equity /\ trade_log' = trade_log
          /\ bars' = bars /\ actions' = actions /\ ~long_pos
      BY <2>1 DEF ReturnEarly, EquityInv, TypeInv, history
    <3>2. /\ report'.trades = Len(trade_log') /\ report'.total_return = equity' -- Q(1)
      <4>1. Q(1) -- Q(1) = Q(0)
        BY Zenon, ZeroOne, RatSums
      <4> QED BY <3>1, <4>1 DEF EmptyReport
    <3>3. OpenValue = Q(1) /\ OpenValue' = Q(1)
      BY <3>1 DEF OpenValue
    <3> QED BY Zenon, <3>1, <3>2, <3>3 DEF EquityInv
  <2>2. ASSUME NEW bar \in Market[strategy.kind], OnBar(bar) PROVE EquityInv'
    BY Zenon, <2>2, OnBarIterates, EquityOnBar
  <2>3. CASE Return
    BY Zenon, <2>3, EquityOnReturn
  <2>4. CASE UNCHANGED vars
    BY <2>4 DEF vars, history, EquityInv, OpenValue, Kept
  <2> QED BY SMTT(20), <2>1, <2>2, <2>3, <2>4 DEF Next
<1> QED BY <1>1, <1>2, EquityInvProduct, TypesHold, PTL DEF Spec

-----------------------------------------------------------------------------
SignalInv ==
  /\ strategy.kind = "sma_cross" =>
       /\ SmaKnows(strategy, bars)
       /\ Len(bars) > 0 =>
            actions[Len(bars)] =
              SmaSignal(bars, Len(bars), strategy.fast.period, strategy.slow.period)
  /\ strategy.kind = "donchian" =>
       /\ DonTracks(strategy.entry, bars) /\ DonTracks(strategy.exit, bars)
       /\ Len(bars) > 0 =>
            actions[Len(bars)] =
              DonSignal(bars, Len(bars), strategy.entry.period, strategy.exit.period)

(* What an iteration is for a strategy of a given kind. *)
LEMMA IteratedKind ==
  ASSUME TypeInv, NEW bar \in Bar, NEW t, NEW a, Iterated(bar, t, a)
  PROVE  /\ strategy.kind = "sma_cross" =>
              strategy \in SmaCrossType /\ t = SmaCrossOnBar(strategy, bar)[1]
              /\ a = SmaCrossOnBar(strategy, bar)[2]
         /\ strategy.kind = "ema_cross" =>
              strategy \in EmaCrossType /\ t = EmaCrossOnBar(strategy, bar)[1]
         /\ strategy.kind = "rsi" =>
              strategy \in ReversionType /\ t = RsiReversionOnBar(strategy, bar)[1]
              /\ a = RsiReversionOnBar(strategy, bar)[2]
         /\ strategy.kind = "bollinger" =>
              strategy \in BollingerType /\ t = BollingerReversionOnBar(strategy, bar)[1]
              /\ a = BollingerReversionOnBar(strategy, bar)[2]
         /\ strategy.kind = "donchian" =>
              strategy \in DonchianType /\ t = DonchianBreakoutOnBar(strategy, bar)[1]
              /\ a = DonchianBreakoutOnBar(strategy, bar)[2]
<1>1. strategy \in StrategyType /\ <<t, a>> \in on_bar(strategy, bar)
  BY Zenon DEF TypeInv, Iterated
<1>2. PICK o : o = <<t, a>>
  BY Zenon
<1>3. o[1] = t /\ o[2] = a /\ o \in on_bar(strategy, bar)
  BY SMTT(20), <1>1, <1>2
<1>4. /\ strategy.kind = "sma_cross" =>
           strategy \in SmaCrossType /\ o = SmaCrossOnBar(strategy, bar)
      /\ strategy.kind = "ema_cross" =>
           strategy \in EmaCrossType /\ o = EmaCrossOnBar(strategy, bar)
      /\ strategy.kind = "rsi" =>
           strategy \in ReversionType /\ o = RsiReversionOnBar(strategy, bar)
      /\ strategy.kind = "bollinger" =>
           strategy \in BollingerType /\ o = BollingerReversionOnBar(strategy, bar)
      /\ strategy.kind = "donchian" =>
           strategy \in DonchianType /\ o = DonchianBreakoutOnBar(strategy, bar)
  <2> HIDE DEF on_bar
  <2> QED BY SMTT(20), <1>1, <1>3, OnBarIs
<1> QED BY Zenon, <1>3, <1>4

(* SignalsFollowHistory holds for every pair of periods and every market:  *)
(* the running sums of SmaCross and the windows of DonchianBreakout give   *)
(* the signal that the definition over the whole history gives.            *)
THEOREM SignalsAreDefined ==
  Spec => []SignalsFollowHistory
<1>1. Init => SignalInv
  <2> SUFFICES ASSUME Init PROVE SignalInv
    OBVIOUS
  <2>1. Constructed(strategy) /\ bars = <<>>
    BY BacktestAssumption DEF Init
  <2>2. Len(bars) = 0 /\ ~(Len(bars) > 0)
    BY SMTT(20), <2>1
  <2>3. ASSUME strategy.kind = "sma_cross" PROVE SmaKnows(strategy, bars)
    <3>1. PICK p \in Period, q \in Period : strategy = SmaCross(p, q)
      BY ZenonT(40), <2>1, <2>3, ConstructedKind
    <3>2. /\ strategy.fast = Sma(p) /\ strategy.slow = Sma(q) /\ strategy.has_prev = FALSE
          /\ strategy.slow.period = q
      BY <3>1 DEF SmaCross, Sma
    <3>3. SmaTracks(Sma(p), Closes(bars)) /\ SmaTracks(Sma(q), Closes(bars))
      BY <2>1, RecentNone DEF SmaTracks, Sma
    <3>4. ~(Len(bars) >= q)
      BY <2>2 DEF Period
    <3> QED BY SMTT(20), <3>2, <3>3, <3>4 DEF SmaKnows
  <2>4. ASSUME strategy.kind = "donchian"
        PROVE  DonTracks(strategy.entry, bars) /\ DonTracks(strategy.exit, bars)
    <3>1. PICK p \in Period, q \in Period : strategy = DonchianBreakout(p, q)
      BY Zenon, <2>1, <2>4, ConstructedKind
    <3>2. strategy.entry = Donchian(p) /\ strategy.exit = Donchian(q)
      BY <3>1 DEF DonchianBreakout
    <3>3. DonTracks(Donchian(p), bars) /\ DonTracks(Donchian(q), bars)
      BY SMTT(20), <2>1, RecentNone DEF DonTracks, Donchian
    <3> QED BY <3>2, <3>3
  <2> QED BY ZenonT(40), <2>2, <2>3, <2>4 DEF SignalInv
<1>2. TypeInv /\ TypeInv' /\ SignalInv /\ [Next]_vars => SignalInv'
  <2> SUFFICES ASSUME TypeInv, TypeInv', SignalInv, [Next]_vars PROVE SignalInv'
    OBVIOUS
  <2>1. CASE UNCHANGED <<strategy, bars, actions>>
    BY SMTT(20), <2>1 DEF SignalInv
  <2>2. ASSUME NEW bar \in Market[strategy.kind], OnBar(bar) PROVE SignalInv'
    <3>1. bar \in Bar
      BY Zenon, <2>2, OnBarIterates
    <3>2. PICK t \in StrategyType, a \in Actions : Iterated(bar, t, a)
      BY Zenon, <2>2, OnBarIterates
    <3>3. /\ strategy' = t /\ actions' = Append(actions, a) /\ bars' = Append(bars, bar)
          /\ t.kind = strategy.kind /\ bars \in Seq(Bar)
      BY ZenonT(40), <3>1, <3>2, IteratedFacts DEF Iterated, TypeInv
    <3>4. actions'[Len(bars')] = a
      BY <3>3 DEF TypeInv
    <3>5. ASSUME strategy.kind = "sma_cross"
          PROVE  /\ SmaKnows(t, Append(bars, bar))
                 /\ a = SmaSignal(Append(bars, bar), Len(Append(bars, bar)),
                                  t.fast.period, t.slow.period)
      <4>1. /\ strategy \in SmaCrossType /\ t = SmaCrossOnBar(strategy, bar)[1]
            /\ a = SmaCrossOnBar(strategy, bar)[2]
        BY Zenon, <3>1, <3>2, <3>5, IteratedKind
      <4>2. SmaKnows(strategy, bars)
        BY Zenon, <3>5 DEF SignalInv
      <4> QED BY ZenonT(40), <3>1, <3>3, <4>1, <4>2, SmaKnowsStep
    <3>6. ASSUME strategy.kind = "donchian"
          PROVE  /\ DonTracks(t.entry, Append(bars, bar)) /\ DonTracks(t.exit, Append(bars, bar))
                 /\ a = DonSignal(Append(bars, bar), Len(Append(bars, bar)),
                                  t.entry.period, t.exit.period)
      <4>1. /\ strategy \in DonchianType /\ t = DonchianBreakoutOnBar(strategy, bar)[1]
            /\ a = DonchianBreakoutOnBar(strategy, bar)[2]
        BY ZenonT(40), <3>1, <3>2, <3>6, IteratedKind
      <4>2. DonTracks(strategy.entry, bars) /\ DonTracks(strategy.exit, bars)
        BY Zenon, <3>6 DEF SignalInv
      <4> QED BY ZenonT(40), <3>1, <3>3, <4>1, <4>2, DonSignalStep
    <3> QED BY SMTT(20), <3>3, <3>4, <3>5, <3>6 DEF SignalInv
  <2> QED BY SMTT(20), <2>1, <2>2 DEF Next, ReturnEarly, Return, vars, history
<1>3. SignalInv => SignalsFollowHistory
  BY ZenonT(40) DEF SignalInv, SignalsFollowHistory, SmaDefinition, SmaSignal, MeanAbove, Above,
               Mean, MeanOf, Least, DonchianDefinition, DonSignal, BreaksOut, Out,
               BreaksDown, Down
<1> QED BY <1>1, <1>2, <1>3, TypesHold, PTL DEF Spec

-----------------------------------------------------------------------------
ReadInv ==
  /\ strategy.kind = "ema_cross" =>
       EmaKnows(strategy.fast, bars) /\ EmaKnows(strategy.slow, bars)
  /\ strategy.kind = "rsi" =>
       /\ RsiKnows(strategy.rsi, bars)
       /\ strategy.lower \preceq Q(100) /\ NeverFell(bars) => NoBuy(actions)
  /\ strategy.kind = "bollinger" =>
       (Wide(strategy.bb) => NoBuy(actions))

(* ReadingsInRange holds for all periods, thresholds, multipliers and      *)
(* markets: Ema::push() mixes a seed that is a mean of closes with closes; *)
(* Bollinger::lower() with enough deviations is not above any close of its *)
(* window; Rsi::value() is 100 until a close falls.                        *)
THEOREM ReadingsStayInRange ==
  Spec => []ReadingsInRange
<1>1. Init => ReadInv
  <2> SUFFICES ASSUME Init PROVE ReadInv
    OBVIOUS
  <2>1. Constructed(strategy) /\ bars = <<>> /\ actions = <<>>
    BY BacktestAssumption DEF Init
  <2>2. Len(bars) = 0 /\ ~(Len(bars) > 0) /\ NoBuy(actions)
    BY <2>1 DEF NoBuy
  <2>3. ASSUME strategy.kind = "ema_cross"
        PROVE  EmaKnows(strategy.fast, bars) /\ EmaKnows(strategy.slow, bars)
    <3>1. PICK p \in Period, q \in Period : strategy = EmaCross(p, q)
      BY ZenonT(40), <2>1, <2>3, ConstructedKind
    <3>2. strategy.fast = Ema(p) /\ strategy.slow = Ema(q)
      BY <3>1 DEF EmaCross
    <3> QED BY Zenon, <2>1, <3>2, EmaMadeKnows
  <2>4. ASSUME strategy.kind = "rsi" PROVE RsiKnows(strategy.rsi, bars)
    <3>1. PICK p \in Period, l \in Rat, u \in Rat : strategy = RsiReversion(p, l, u)
      BY Zenon, <2>1, <2>4, ConstructedKind
    <3>2. strategy.rsi.has_prev = FALSE /\ strategy.rsi.loss = Q(0)
      BY SMTT(20), <3>1 DEF RsiReversion, Rsi
    <3> QED BY Zenon, <2>2, <3>2 DEF RsiKnows
  <2> QED BY ZenonT(40), <2>2, <2>3, <2>4 DEF ReadInv
<1>2. TypeInv /\ TypeInv' /\ ReadInv /\ [Next]_vars => ReadInv'
  <2> SUFFICES ASSUME TypeInv, TypeInv', ReadInv, [Next]_vars PROVE ReadInv'
    OBVIOUS
  <2>1. CASE UNCHANGED <<strategy, bars, actions>>
    BY <2>1 DEF ReadInv
  <2>2. ASSUME NEW bar \in Market[strategy.kind], OnBar(bar) PROVE ReadInv'
    <3>1. bar \in Bar
      BY Zenon, <2>2, OnBarIterates
    <3>2. PICK t \in StrategyType, a \in Actions : Iterated(bar, t, a)
      BY Zenon, <2>2, OnBarIterates
    <3>3. /\ strategy' = t /\ actions' = Append(actions, a) /\ bars' = Append(bars, bar)
          /\ t.kind = strategy.kind /\ bars \in Seq(Bar) /\ actions \in Seq(Actions)
      BY Zenon, <3>1, <3>2, IteratedFacts DEF Iterated, TypeInv
    <3>4. NoBuy(actions') <=> NoBuy(actions) /\ a # "buy"
      BY Zenon, <3>3, NoBuyAppend
    <3>5. ASSUME strategy.kind = "ema_cross"
          PROVE  EmaKnows(t.fast, bars') /\ EmaKnows(t.slow, bars')
      <4>1. strategy \in EmaCrossType /\ t = EmaCrossOnBar(strategy, bar)[1]
        BY Zenon, <3>1, <3>2, <3>5, IteratedKind
      <4>2. EmaKnows(strategy.fast, bars) /\ EmaKnows(strategy.slow, bars)
        BY Zenon, <3>5 DEF ReadInv
      <4>3. strategy.fast \in EmaType /\ strategy.slow \in EmaType
        BY Zenon, <4>1 DEF EmaCrossType
      <4>4. /\ t.fast = EmaPush(strategy.fast, bar.close)
            /\ t.slow = EmaPush(strategy.slow, bar.close)
        BY Zenon, <3>1, <4>1, EmaStep
      <4> QED BY ZenonT(40), <3>1, <3>3, <4>2, <4>3, <4>4, EmaKnowsPush
    <3>6. ASSUME strategy.kind = "rsi"
          PROVE  /\ RsiKnows(t.rsi, bars')
                 /\ t.lower \preceq Q(100) /\ NeverFell(bars') => NoBuy(actions')
      <4>1. /\ strategy \in ReversionType /\ t = RsiReversionOnBar(strategy, bar)[1]
            /\ a = RsiReversionOnBar(strategy, bar)[2]
        BY Zenon, <3>1, <3>2, <3>6, IteratedKind
      <4>2. /\ RsiKnows(strategy.rsi, bars)
            /\ strategy.lower \preceq Q(100) /\ NeverFell(bars) => NoBuy(actions)
        BY Zenon, <3>6 DEF ReadInv
      <4>3. /\ RsiKnows(t.rsi, bars') /\ t.lower = strategy.lower
            /\ strategy.lower \preceq Q(100) /\ NeverFell(bars') => a # "buy"
        BY ZenonT(40), <3>1, <3>3, <4>1, <4>2, RsiHolds
      <4>4. NeverFell(bars') => NeverFell(bars)
        BY Zenon, <3>1, <3>3, NeverFellBefore
      <4> QED BY Zenon, <3>4, <4>2, <4>3, <4>4
    <3>7. ASSUME strategy.kind = "bollinger"
          PROVE  Wide(t.bb) => NoBuy(actions')
      <4>1. /\ strategy \in BollingerType /\ t = BollingerReversionOnBar(strategy, bar)[1]
            /\ a = BollingerReversionOnBar(strategy, bar)[2]
        BY ZenonT(40), <3>1, <3>2, <3>7, IteratedKind
      <4>2. Wide(strategy.bb) => NoBuy(actions)
        BY Zenon, <3>7 DEF ReadInv
      <4>3. /\ t.bb.period = strategy.bb.period /\ t.bb.mult = strategy.bb.mult
            /\ Wide(strategy.bb) => a # "buy"
        BY ZenonT(40), <3>1, <4>1, BandStep
      <4> QED BY ZenonT(40), <3>4, <4>2, <4>3 DEF Wide
    <3> QED BY ZenonT(40), <3>3, <3>5, <3>6, <3>7 DEF ReadInv
  <2> QED BY <2>1, <2>2 DEF Next, ReturnEarly, Return, vars, history
<1>3. ReadInv => ReadingsInRange
  <2> SUFFICES ASSUME ReadInv PROVE ReadingsInRange
    OBVIOUS
  <2>1. CASE strategy.kind = "ema_cross"
    <3>1. \A e \in {strategy.fast, strategy.slow} : e.ready => Within(e.value, bars)
      BY Zenon, <2>1 DEF ReadInv, EmaKnows
    <3> QED BY SMTT(20), <2>1, <3>1 DEF ReadingsInRange, Within
  <2>2. CASE strategy.kind = "rsi"
    <3>1. strategy.lower \preceq Q(100) /\ NeverFell(bars) => NoBuy(actions)
      BY Zenon, <2>2 DEF ReadInv
    <3> QED BY SMTT(20), <2>2, <3>1 DEF ReadingsInRange, NeverFell, NoBuy
  <2>3. CASE strategy.kind = "bollinger"
    <3>1. Wide(strategy.bb) => NoBuy(actions)
      BY Zenon, <2>3 DEF ReadInv
    <3> QED BY SMTT(20), <2>3, <3>1 DEF ReadingsInRange, NoBuy, Wide
  <2>4. CASE strategy.kind \notin {"ema_cross", "rsi", "bollinger"}
    BY <2>4 DEF ReadingsInRange
  <2> QED BY ZenonT(40), <2>1, <2>2, <2>3, <2>4
<1> QED BY <1>1, <1>2, <1>3, TypesHold, PTL DEF Spec

=============================================================================
