----------------------------- MODULE Indicators -----------------------------
(***************************************************************************)
(* tinvest::algo's streaming indicators                                    *)
(* (src/include/tinvest/algo/indicators.hpp).  An indicator is a record of *)
(* its members; push() returns the record after the call.                  *)
(***************************************************************************)
EXTENDS Rationals, Sequences, FiniteSets

Period == Nat \ {0}

Total(window) ==
  LET sum[i \in 0 .. Len(window)] ==
        IF i = 0 THEN Q(0) ELSE sum[i - 1] ++ window[i]
  IN  sum[Len(window)]

(* push_back(), and pop_front() of a window that has become too long. *)
Slide(window, v, period) ==
  LET w == Append(window, v) IN IF Len(w) > period THEN Tail(w) ELSE w

-----------------------------------------------------------------------------
Sma(period) == [period |-> period, window |-> <<>>, sum |-> Q(0)]

SmaPush(s, v) ==
  [s EXCEPT !.window = Slide(@, v, s.period),
            !.sum = IF Len(s.window) = s.period
                    THEN (@ ++ v) -- Head(s.window) ELSE @ ++ v]

SmaReady(s) == Len(s.window) = s.period

SmaValue(s) == s.sum // Q(Len(s.window))

-----------------------------------------------------------------------------
Ema(period) ==
  [k |-> Frac(2, period + 1), seed |-> Sma(period), ready |-> FALSE,
   value |-> Q(0)]

EmaPushUnseeded(e, v) ==                          \* mutation
  LET seed == SmaPush(e.seed, v)
  IN  [e EXCEPT !.seed = seed, !.ready = SmaReady(seed),
                !.value = (v ** e.k) ++ (@ ** (Q(1) -- e.k))]

EmaPush(e, v) ==
  LET seed == SmaPush(e.seed, v)
  IN  IF e.ready
      THEN [e EXCEPT !.value = (v ** e.k) ++ (@ ** (Q(1) -- e.k))]
      ELSE [e EXCEPT !.seed = seed, !.ready = SmaReady(seed),
                     !.value = IF SmaReady(seed) THEN SmaValue(seed) ELSE @]

-----------------------------------------------------------------------------
Rsi(period) ==
  [period |-> period, prev |-> Q(0), has_prev |-> FALSE, warmup |-> 0,
   gain |-> Q(0), loss |-> Q(0)]

RsiReady(r) == r.warmup = r.period

(* gain and loss are gain_sum_ and loss_sum_ up to the last bar of the     *)
(* warm-up, and avg_gain_ and avg_loss_ from then on.                      *)
Averaged(r, avg, v) ==
  LET period == Q(r.period)
  IN  CASE RsiReady(r) -> ((avg ** Q(r.period - 1)) ++ v) // period
        [] r.warmup + 1 = r.period -> (avg ++ v) // period
        [] OTHER -> avg ++ v

RsiPush(r, close) ==
  LET delta == close -- r.prev
      rise  == IF Q(0) \prec delta THEN delta ELSE Q(0)
      fall  == IF delta \prec Q(0) THEN Q(0) -- delta ELSE Q(0)
  IN  IF ~r.has_prev THEN [r EXCEPT !.prev = close, !.has_prev = TRUE]
      ELSE [r EXCEPT !.prev = close,
                     !.warmup = IF RsiReady(r) THEN @ ELSE @ + 1,
                     !.gain = Averaged(r, @, rise),
                     !.loss = Averaged(r, @, fall)]

RsiValue(r) ==
  IF r.loss = Q(0) THEN Q(100)
  ELSE Q(100) -- (Q(100) // (Q(1) ++ (r.gain // r.loss)))

-----------------------------------------------------------------------------
Macd(fast, slow, signal) ==
  [fast |-> Ema(fast), slow |-> Ema(slow), signal |-> Ema(signal)]

MacdLine(m) == m.fast.value -- m.slow.value

MacdPush(m, close) ==
  LET p == [m EXCEPT !.fast = EmaPush(@, close), !.slow = EmaPush(@, close)]
  IN  IF p.fast.ready /\ p.slow.ready
      THEN [p EXCEPT !.signal = EmaPush(@, MacdLine(p))] ELSE p

MacdHistogram(m) == MacdLine(m) -- m.signal.value

-----------------------------------------------------------------------------
Bollinger(period, mult) == [period |-> period, mult |-> mult, window |-> <<>>]

BollingerPush(b, v) == [b EXCEPT !.window = Slide(@, v, b.period)]

BollingerMiddle(b) == Total(b.window) // Q(Len(b.window))

(* The square of stddev(). *)
BollingerVariance(b) ==
  LET Square(v) == (v -- BollingerMiddle(b)) ** (v -- BollingerMiddle(b))
  IN  Total([i \in DOMAIN b.window |-> Square(b.window[i])]) // Q(Len(b.window))

(* v < lower(), where lower() is middle() - mult * stddev(): the squares    *)
(* are compared, by the sign of mult.                                      *)
BelowLower(b, v) ==
  LET gap   == BollingerMiddle(b) -- v
      reach == (b.mult ** b.mult) ** BollingerVariance(b)
  IN  IF b.mult \prec Q(0)
      THEN Q(0) \prec gap \/ gap ** gap \prec reach
      ELSE Q(0) \prec gap /\ reach \prec gap ** gap

-----------------------------------------------------------------------------
Donchian(period) == [period |-> period, highs |-> <<>>, lows |-> <<>>]

DonchianPush(d, high, low) ==
  [d EXCEPT !.highs = Slide(@, high, d.period), !.lows = Slide(@, low, d.period)]

DonchianReady(d) == Len(d.highs) = d.period

(* v > upper() and v < lower() *)
AboveUpper(d, v) == \A i \in DOMAIN d.highs : d.highs[i] \prec v
UnderLower(d, v) == \A i \in DOMAIN d.lows : v \prec d.lows[i]
=============================================================================
