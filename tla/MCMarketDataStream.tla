------------------------- MODULE MCMarketDataStream -------------------------
(***************************************************************************)
(* Instances of MarketDataStream for TLC.                                  *)
(***************************************************************************)
EXTENDS MarketDataStream

CONSTANTS a, b,         \* two instruments
          day,          \* a candle interval
          close         \* the waiting_close flag

Remembered(r) == [request |-> r, remember |-> TRUE]
Raw(r) == [request |-> r, remember |-> FALSE]

(* Two targets subscribed together; one of them subscribed again with      *)
(* other options, named twice, by figi and by identifier; that one dropped *)
(* again; a request that is not a subscription; and an unsubscription that *)
(* is not remembered.                                                      *)
Twice ==
  MakeRequest("candles", "SUBSCRIBE", close,
              <<[instrument_id |-> NoId, figi |-> a, param |-> day],
                [instrument_id |-> a, figi |-> NoId, param |-> day]>>)

MCCalls ==
  {Remembered(subscribe_candles(<<a, b>>, day, NoOptions)),
   Remembered(Twice),
   Remembered(unsubscribe_candles(<<a>>, day)),
   Raw(get_my_subscriptions),
   Raw(unsubscribe_candles(<<b>>, day))}

(* The same with fewer requests, for the runs with more threads or with    *)
(* liveness properties.                                                    *)
MCFewCalls ==
  {Remembered(subscribe_last_prices(<<a>>)),
   Remembered(unsubscribe_last_prices(<<a>>))}

MCNoCalls == {}
=============================================================================
