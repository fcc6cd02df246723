--------------------------- MODULE StreamOptions ----------------------------
(***************************************************************************)
(* tinvest::StreamOptions and the reconnect policy that the run() loops of *)
(* MarketDataStream and ServerStream share, line for line                  *)
(* (src/src/market_data_stream.cpp, lines 139-143, and                     *)
(* src/include/tinvest/streams/server_stream.hpp, lines 129-133).          *)
(***************************************************************************)
EXTENDS Naturals

CONSTANTS
  initial_backoff,  \* StreamOptions::initial_backoff
  max_backoff,      \* StreamOptions::max_backoff
  MaxShift          \* the bound of the exponent, 8 in the code

ASSUME BackoffAssumption ==
  /\ initial_backoff \in Nat
  /\ max_backoff \in Nat
  /\ MaxShift \in 0..8

(* StreamState, with "none" for a stream that was never started. *)
StreamStates == {"none", "connecting", "connected", "disconnected", "stopped"}

(* The delay before the next attempt: initial_backoff * (1 << min(n, 8)),  *)
(* at most max_backoff.                                                    *)
PowersOfTwo == <<1, 2, 4, 8, 16, 32, 64, 128, 256>>

BackoffUncapped(n) == initial_backoff * PowersOfTwo[n + 1]   \* mutation

Backoff(n) ==
  LET d == initial_backoff * PowersOfTwo[n + 1]
  IN  IF d > max_backoff THEN max_backoff ELSE d

(* ++attempt; run() only uses it through min(attempt, 8). *)
NextAttempt(n) == IF n < MaxShift THEN n + 1 ELSE n

(* if (!opts_.reconnect) break *)
AfterBreakInverted(reconnect) ==                  \* mutation
  IF reconnect THEN "exit" ELSE "backoff"

AfterBreak(reconnect) == IF reconnect THEN "backoff" ELSE "exit"
=============================================================================
