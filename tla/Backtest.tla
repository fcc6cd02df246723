------------------------------ MODULE Backtest ------------------------------
(***************************************************************************)
(* tinvest::algo::run_backtest() (src/include/tinvest/algo/backtest.hpp)   *)
(* and the strategy it drives.  A step is one iteration of its loop.       *)
(*                                                                         *)
(* Ratios stand for the percentages of the report, the position of a bar   *)
(* for its time.                                                           *)
(***************************************************************************)
EXTENDS Strategies

CONSTANTS
  Candidates,     \* the strategies, as constructed
  Market,         \* the bars that a strategy may see, for each kind of them
  MaxBars,        \* how many of them at most, for each kind
  Fee             \* the commission per side

ASSUME BacktestAssumption ==
  /\ \A s \in Candidates : Constructed(s) /\ Market[s.kind] \subseteq Bar
  /\ Fee \in Rat /\ Fee \prec Q(1)

VARIABLES
  pc, strategy, equity, peak, max_drawdown, long_pos, entry, trade_log, report,
  \* history: the bars read so far, the actions and the equity after each
  bars, actions, curve

history == <<bars, actions, curve>>
vars == <<pc, strategy, equity, peak, max_drawdown, long_pos, entry, trade_log,
          report, history>>

Kept == Q(1) -- Fee

EmptyReport == [trades |-> 0, wins |-> 0, total_return |-> Q(0)]

Init ==
  /\ pc = "called"
  /\ strategy \in Candidates
  /\ equity = Q(1) /\ peak = Q(1) /\ max_drawdown = Q(0)
  /\ long_pos = FALSE
  /\ entry = [time |-> 0, price |-> Q(0)]
  /\ trade_log = <<>>
  /\ report = EmptyReport
  /\ bars = <<>> /\ actions = <<>> /\ curve = <<>>

(* Fewer than two bars: the report is empty. *)
ReturnEarly ==
  /\ pc = "called"
  /\ pc' = "returned"
  /\ UNCHANGED <<strategy, equity, peak, max_drawdown, long_pos, entry, trade_log,
                 report, history>>

Trade(time, price) ==
  [entry |-> entry.time, exit |-> time,
   growth |-> ((price // entry.price) ** Kept) ** Kept]

(* The equity at a bar before the strategy is asked. *)
MarkedAlways(bar) ==                              \* mutation
  IF bars = <<>> THEN equity ELSE equity ** (bar.close // bars[Len(bars)].close)

MarkedEquity(bar) ==
  IF long_pos /\ Q(0) \prec bars[Len(bars)].close
  THEN equity ** (bar.close // bars[Len(bars)].close) ELSE equity

(* A buy when flat, a sell when long, or an action that changes nothing.   *)
Fill(a, bar, marked) ==
  \/ /\ a = "buy" /\ ~long_pos
     /\ long_pos' = TRUE
     /\ entry' = [time |-> Len(bars) + 1, price |-> bar.close]
     /\ equity' = marked ** Kept
     /\ UNCHANGED trade_log
  \/ /\ a = "sell" /\ long_pos
     /\ long_pos' = FALSE
     /\ equity' = marked ** Kept
     /\ trade_log' = Append(trade_log, Trade(Len(bars) + 1, bar.close))
     /\ UNCHANGED entry
  \/ /\ a = "hold" \/ (a = "buy" /\ long_pos) \/ (a = "sell" /\ ~long_pos)
     /\ equity' = marked
     /\ UNCHANGED <<long_pos, entry, trade_log>>

Larger(a, b) == IF a \prec b THEN b ELSE a

PeakOfBar(e) == e                                 \* mutation

PeakWith(e) == Larger(peak, e)

OnBar(bar) ==
  /\ pc \in {"called", "loop"}
  /\ \E o \in on_bar(strategy, bar) :
       /\ strategy' = o[1]
       /\ Fill(o[2], bar, MarkedEquity(bar))
       /\ actions' = Append(actions, o[2])
  /\ peak' = PeakWith(equity')
  /\ max_drawdown' = Larger(max_drawdown, (peak' -- equity') // peak')
  /\ bars' = Append(bars, bar)
  /\ curve' = Append(curve, equity')
  /\ pc' = "loop"
  /\ UNCHANGED report

(* After the last bar: an open position is closed, the report filled in.   *)
Return ==
  /\ pc = "loop" /\ Len(bars) >= 2
  /\ equity' = IF long_pos THEN equity ** Kept ELSE equity
  /\ trade_log' = IF long_pos
                  THEN Append(trade_log, Trade(Len(bars), bars[Len(bars)].close))
                  ELSE trade_log
  /\ report' = [trades |-> Len(trade_log'),
                wins |-> Cardinality({i \in DOMAIN trade_log' :
                                        Q(1) \prec trade_log'[i].growth}),
                total_return |-> equity' -- Q(1)]
  /\ pc' = "returned"
  /\ UNCHANGED <<strategy, peak, max_drawdown, long_pos, entry, history>>

Next ==
  \/ ReturnEarly
  \/ Len(bars) < MaxBars[strategy.kind] /\ \E bar \in Market[strategy.kind] : OnBar(bar)
  \/ Return

Spec == Init /\ [][Next]_vars
-----------------------------------------------------------------------------
(* Strategies, against the whole history of bars. *)

(* The mean of the last n closes up to the i-th, or of as many as there    *)
(* are: on_bar() asks only the slow average whether its window is full.    *)
Mean(i, n) ==
  LET m == IF i < n THEN i ELSE n
  IN  Total([j \in 1 .. m |-> bars[i - m + j].close]) // Q(m)

(* The fast mean is above the slow one after i bars. *)
MeanAbove(i) ==
  Mean(i, strategy.slow.period) \prec Mean(i, strategy.fast.period)

SmaDefinition(i) ==
  CASE i > strategy.slow.period /\ MeanAbove(i) /\ ~MeanAbove(i - 1) -> "buy"
    [] i > strategy.slow.period /\ ~MeanAbove(i) /\ MeanAbove(i - 1) -> "sell"
    [] OTHER -> "hold"

(* The close of bar i is above the highs, or below the lows, of the bars   *)
(* before it that the channel covers.                                      *)
BreaksOut(i) ==
  LET n == strategy.entry.period
  IN  i > n /\ \A j \in i - n .. i - 1 : bars[j].high \prec bars[i].close

BreaksDown(i) ==
  LET n == strategy.exit.period
  IN  i > n /\ \A j \in i - n .. i - 1 : bars[i].close \prec bars[j].low

DonchianDefinition(i) ==
  CASE BreaksOut(i) /\ ~BreaksDown(i) -> "buy"
    [] BreaksDown(i) /\ ~BreaksOut(i) -> "sell"
    [] ~BreaksOut(i) /\ ~BreaksDown(i) -> "hold"

(* A signal is what its definition over the whole history says, at every   *)
(* bar: SmaCross compares the means of the last full windows with those    *)
(* one bar earlier, although it keeps only running sums; DonchianBreakout  *)
(* compares with "the previous entry-bar high" and "the previous exit-bar  *)
(* low", the current bar left out, and its two conditions never conflict.  *)
SignalsFollowHistory ==
  LET n == Len(bars)
  IN  n > 0 => /\ strategy.kind = "sma_cross" => actions[n] = SmaDefinition(n)
               /\ strategy.kind = "donchian" => actions[n] = DonchianDefinition(n)

(* The crossing strategies never give the same signal twice in a row, and  *)
(* the last one agrees with the side on which the comparison now is: once  *)
(* there was a signal, no cross is missed.                                 *)
CrossesAlternate ==
  strategy.kind \in {"sma_cross", "ema_cross", "macd_cross"} =>
    \A i \in DOMAIN actions : actions[i] # "hold" =>
      /\ \A j \in i + 1 .. Len(actions) : actions[j] = actions[i] =>
           \E k \in i + 1 .. j - 1 : actions[k] \notin {actions[i], "hold"}
      /\ (\A j \in i + 1 .. Len(actions) : actions[j] = "hold") =>
           strategy.has_prev /\ strategy.prev_above = (actions[i] = "buy")

(* An exponential average that is ready stays between the lowest and the   *)
(* highest close seen, from the seed on; a Bollinger buy needs a window    *)
(* with period - 1 > mult^2, since no value of a window lies further from  *)
(* its mean, unless the multiplier is negative; and RSI does not call a    *)
(* market oversold that never fell.                                        *)
ReadingsInRange ==
  LET Between(v) == /\ \E i \in DOMAIN bars : bars[i].close \preceq v
                    /\ \E i \in DOMAIN bars : v \preceq bars[i].close
  IN  CASE strategy.kind = "ema_cross" ->
             \A e \in {strategy.fast, strategy.slow} : e.ready => Between(e.value)
        [] strategy.kind = "bollinger" ->
             (/\ Q(0) \preceq strategy.bb.mult
              /\ Q(strategy.bb.period - 1) \preceq strategy.bb.mult ** strategy.bb.mult)
               => \A i \in DOMAIN actions : actions[i] # "buy"
        [] strategy.kind = "rsi" ->
             (/\ strategy.lower \preceq Q(100)
              /\ \A i \in 2 .. Len(bars) : bars[i - 1].close \preceq bars[i].close)
               => \A i \in DOMAIN actions : actions[i] # "buy"
        [] OTHER -> TRUE

-----------------------------------------------------------------------------
(* The backtest, under any strategy. *)

(* The product of what the trades of a log returned. *)
Growth(log) ==
  LET product[i \in 0 .. Len(log)] ==
        IF i = 0 THEN Q(1) ELSE product[i - 1] ** log[i].growth
  IN  product[Len(log)]

(* The i-th action is a buy with a sell since the last buy before it. *)
Opens(i) ==
  /\ actions[i] = "buy"
  /\ \A j \in 1 .. i - 1 : actions[j] = "buy" =>
       \E k \in j .. i : actions[k] = "sell"

(* The equity that is carried from bar to bar is the product of what the   *)
(* logged trades returned and of what the open position is worth: the      *)
(* marks to market telescope and no commission is charged twice or not at  *)
(* all; trades never overlap; and the report of a run that returned        *)
(* accounts for all of it.                                                 *)
EquityIsTradeProduct ==
  LET open == IF long_pos /\ pc = "loop"
              THEN (bars[Len(bars)].close // entry.price) ** Kept ELSE Q(1)
      log  == trade_log
  IN  /\ equity = Growth(log) ** open
      /\ \A i \in DOMAIN log : log[i].entry <= log[i].exit
      /\ \A i \in 2 .. Len(log) : log[i - 1].exit < log[i].entry
      /\ pc = "returned" =>
           /\ report.trades = Len(log) /\ report.total_return = equity -- Q(1)
           /\ {log[i].entry : i \in DOMAIN log} = {i \in DOMAIN actions : Opens(i)}

(* The equity after i bars. *)
Equity(i) == IF i = 0 THEN Q(1) ELSE curve[i]

(* max_drawdown is the worst loss between any two points of the equity     *)
(* curve, which starts at 1, although only a running peak is kept.  The    *)
(* curve ends with the last bar: run_backtest() does not count the fee for *)
(* closing an open position after it.                                      *)
DrawdownIsWorstLoss ==
  LET Loss(i, j) == (Equity(i) -- Equity(j)) // Equity(i)
      n == Len(curve)
  IN  /\ \E j \in 0 .. n : \E i \in 0 .. j : max_drawdown = Loss(i, j)
      /\ \A j \in 0 .. n : \A i \in 0 .. j : Loss(i, j) \preceq max_drawdown
=============================================================================
