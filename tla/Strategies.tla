----------------------------- MODULE Strategies -----------------------------
(***************************************************************************)
(* tinvest::algo::Strategy and the six strategies of                       *)
(* src/include/tinvest/algo/strategies.hpp.  A strategy is a record of its *)
(* members; its on_bar() returns the pair of the record after the call and *)
(* the action.  A bar has the members that a strategy reads.               *)
(***************************************************************************)
EXTENDS Indicators

Actions == {"hold", "buy", "sell"}

(* A bar of a market: the close is positive and the low is not above the   *)
(* high.                                                                   *)
Bar ==
  {b \in [high : Rat, low : Rat, close : Rat] :
     Q(0) \prec b.close /\ b.low \preceq b.high}

(* Any other subclass of Strategy, which may do as it likes. *)
UserStrategy == [kind |-> "user"]

-----------------------------------------------------------------------------
(* The crossing logic that three of the strategies share: an action when   *)
(* the comparison differs from the one at the previous bar.                *)
CrossedOnce(s, above) ==                          \* mutation
  LET a == CASE s.has_prev /\ above /\ ~s.prev_above -> "buy"
             [] s.has_prev /\ ~above /\ s.prev_above -> "sell"
             [] OTHER -> "hold"
  IN  <<[s EXCEPT !.prev_above = IF s.has_prev THEN @ ELSE above,
                  !.has_prev = TRUE], a>>

Crossed(s, above) ==
  LET a == CASE s.has_prev /\ above /\ ~s.prev_above -> "buy"
             [] s.has_prev /\ ~above /\ s.prev_above -> "sell"
             [] OTHER -> "hold"
  IN  <<[s EXCEPT !.prev_above = above, !.has_prev = TRUE], a>>

SmaCross(fast, slow) ==
  [kind |-> "sma_cross", fast |-> Sma(fast), slow |-> Sma(slow),
   prev_above |-> FALSE, has_prev |-> FALSE]

SmaCrossOnBar(s, bar) ==
  LET p == [s EXCEPT !.fast = SmaPush(@, bar.close),
                     !.slow = SmaPush(@, bar.close)]
  IN  IF SmaReady(p.slow)
      THEN Crossed(p, SmaValue(p.slow) \prec SmaValue(p.fast))
      ELSE <<p, "hold">>

EmaCross(fast, slow) ==
  [kind |-> "ema_cross", fast |-> Ema(fast), slow |-> Ema(slow),
   prev_above |-> FALSE, has_prev |-> FALSE]

EmaCrossOnBar(s, bar) ==
  LET p == [s EXCEPT !.fast = EmaPush(@, bar.close),
                     !.slow = EmaPush(@, bar.close)]
  IN  IF p.slow.ready /\ p.fast.ready
      THEN Crossed(p, p.slow.value \prec p.fast.value)
      ELSE <<p, "hold">>

MacdCross(fast, slow, signal) ==
  [kind |-> "macd_cross", macd |-> Macd(fast, slow, signal),
   prev_above |-> FALSE, has_prev |-> FALSE]

MacdCrossOnBar(s, bar) ==
  LET p == [s EXCEPT !.macd = MacdPush(@, bar.close)]
  IN  IF p.macd.signal.ready
      THEN Crossed(p, Q(0) \prec MacdHistogram(p.macd))
      ELSE <<p, "hold">>

-----------------------------------------------------------------------------
RsiReversion(period, lower, upper) ==
  [kind |-> "rsi", rsi |-> Rsi(period), lower |-> lower, upper |-> upper]

RsiReversionOnBar(s, bar) ==
  LET p == [s EXCEPT !.rsi = RsiPush(@, bar.close)]
      v == RsiValue(p.rsi)
  IN  <<p, IF ~RsiReady(p.rsi) THEN "hold"
           ELSE IF v \prec s.lower THEN "buy"
           ELSE IF s.upper \prec v THEN "sell" ELSE "hold">>

BollingerReversion(period, mult) ==
  [kind |-> "bollinger", bb |-> Bollinger(period, mult)]

BollingerReversionOnBar(s, bar) ==
  LET p == [s EXCEPT !.bb = BollingerPush(@, bar.close)]
  IN  <<p, IF Len(p.bb.window) # p.bb.period THEN "hold"
           ELSE IF BelowLower(p.bb, bar.close) THEN "buy"
           ELSE IF BollingerMiddle(p.bb) \prec bar.close THEN "sell" ELSE "hold">>

DonchianBreakout(entry, exit) ==
  [kind |-> "donchian", entry |-> Donchian(entry), exit |-> Donchian(exit)]

DonchianPushed(s, bar) ==
  [s EXCEPT !.entry = DonchianPush(@, bar.high, bar.low),
            !.exit = DonchianPush(@, bar.high, bar.low)]

(* The comparisons of on_bar(); the second overrides the first. *)
DonchianAction(s, bar) ==
  IF DonchianReady(s.exit) /\ UnderLower(s.exit, bar.close) THEN "sell"
  ELSE IF DonchianReady(s.entry) /\ AboveUpper(s.entry, bar.close) THEN "buy"
  ELSE "hold"

DonchianPushFirst(s, bar) ==                      \* mutation
  <<DonchianPushed(s, bar), DonchianAction(DonchianPushed(s, bar), bar)>>

DonchianBreakoutOnBar(s, bar) ==
  <<DonchianPushed(s, bar), DonchianAction(s, bar)>>

-----------------------------------------------------------------------------
(* What the constructors make of positive periods. *)
Constructed(s) ==
  \/ s = UserStrategy
  \/ /\ s.kind = "sma_cross"
     /\ {s.fast.period, s.slow.period} \subseteq Period
     /\ s = SmaCross(s.fast.period, s.slow.period)
  \/ /\ s.kind = "ema_cross"
     /\ {s.fast.seed.period, s.slow.seed.period} \subseteq Period
     /\ s = EmaCross(s.fast.seed.period, s.slow.seed.period)
  \/ /\ s.kind = "macd_cross"
     /\ {s.macd.fast.seed.period, s.macd.slow.seed.period,
         s.macd.signal.seed.period} \subseteq Period
     /\ s = MacdCross(s.macd.fast.seed.period, s.macd.slow.seed.period,
                      s.macd.signal.seed.period)
  \/ /\ s.kind = "rsi"
     /\ s.rsi.period \in Period /\ {s.lower, s.upper} \subseteq Rat
     /\ s = RsiReversion(s.rsi.period, s.lower, s.upper)
  \/ /\ s.kind = "bollinger"
     /\ s.bb.period \in Period /\ s.bb.mult \in Rat
     /\ s = BollingerReversion(s.bb.period, s.bb.mult)
  \/ /\ s.kind = "donchian"
     /\ {s.entry.period, s.exit.period} \subseteq Period
     /\ s = DonchianBreakout(s.entry.period, s.exit.period)

-----------------------------------------------------------------------------
(* The virtual call: what strategy.on_bar(bar) can come to. *)
on_bar(s, bar) ==
  CASE s.kind = "user"       -> {<<s, a>> : a \in Actions}
    [] s.kind = "sma_cross"  -> {SmaCrossOnBar(s, bar)}
    [] s.kind = "ema_cross"  -> {EmaCrossOnBar(s, bar)}
    [] s.kind = "macd_cross" -> {MacdCrossOnBar(s, bar)}
    [] s.kind = "rsi"        -> {RsiReversionOnBar(s, bar)}
    [] s.kind = "bollinger"  -> {BollingerReversionOnBar(s, bar)}
    [] s.kind = "donchian"   -> {DonchianBreakoutOnBar(s, bar)}
=============================================================================
