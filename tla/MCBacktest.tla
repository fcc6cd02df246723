----------------------------- MODULE MCBacktest -----------------------------
(* The six strategies with short periods, and an arbitrary one. *)
EXTENDS Backtest

MCCandidates ==
  {SmaCross(2, 3), SmaCross(3, 2), EmaCross(2, 3), MacdCross(1, 2, 2),
   RsiReversion(2, Q(30), Q(70)),
   BollingerReversion(3, Q(1)), BollingerReversion(3, Q(2)),
   BollingerReversion(3, Q(-1)), DonchianBreakout(2, 1), UserStrategy}

MCFee == Frac(1, 2)

Flat(p) == [high |-> Q(p), low |-> Q(p), close |-> Q(p)]

Kinds == {s.kind : s \in MCCandidates}

(* Only DonchianBreakout reads anything but the close of a bar. *)
MCMarket ==
  [k \in Kinds |->
     IF k = "donchian"
     THEN {[high |-> Q(h), low |-> Q(l), close |-> Q(c)] :
             <<l, c, h>> \in {t \in (1 .. 3) \X (1 .. 3) \X (1 .. 3) :
                                t[1] <= t[2] /\ t[2] <= t[3] /\ t[3] <= t[1] + 1}}
     ELSE {Flat(p) : p \in 1 .. 3}]

MCMaxBars == [k \in Kinds |-> IF k \in {"donchian", "user"} THEN 5 ELSE 7]
=============================================================================
