--------------------------- MODULE Subscriptions ---------------------------
(***************************************************************************)
(* The requests of MarketDataStream and its registry of subscriptions      *)
(* (src/src/market_data_stream.cpp, lines 253-518).                        *)
(*                                                                         *)
(* A pb::MarketDataRequest is a record.  "payload" is its oneof case,      *)
(* "action" its subscription_action, "options" whatever else the request   *)
(* carries (waiting_close, with_open_interest) and "instruments" its list  *)
(* of instruments.  The interval of a candle instrument, and the depth and *)
(* type of an order book instrument, are the instrument's "param".         *)
(* The registry (subscriptions_) is a function from keys to requests whose *)
(* domain is the set of keys present in the map.                           *)
(***************************************************************************)
EXTENDS Naturals, Sequences, FiniteSets, Functions

CONSTANTS
  Ids,          \* instrument identifiers: figi, uid or ticker_classcode
  NoId,         \* the empty string
  Params,       \* candle intervals, order book depths and types
  NoParam,      \* an instrument that has neither
  Options,      \* per-request flags
  NoOptions,    \* their default
  NoRequest     \* a key that a table does not hold

(* The five payloads that list instruments, and the others. *)
Targeted == {"candles", "orderbook", "trades", "info", "last_price"}
Payloads == Targeted \cup {"get_my_subscriptions", "ping", "ping_settings"}

Actions == {"UNSPECIFIED", "SUBSCRIBE", "UNSUBSCRIBE"}

Instrument == [instrument_id : Ids \cup {NoId},
               figi          : Ids \cup {NoId},
               param         : Params \cup {NoParam}]

Request == [payload     : Payloads,
            action      : Actions,
            options     : Options \cup {NoOptions},
            instruments : Seq(Instrument)]

ASSUME NoRequestAssumption == NoRequest \notin Request

(* A registry key: the target of a subscription, not its options. *)
Key == Targeted \X (Ids \cup {NoId}) \X (Params \cup {NoParam})

-----------------------------------------------------------------------------
(* single(): the request reduced to its i-th instrument. *)
single(r, i) == [r EXCEPT !.instruments = <<r.instruments[i]>>]

id_of(inst) ==
  IF inst.instrument_id = NoId THEN inst.figi ELSE inst.instrument_id

KeyOf(payload, inst) ==
  <<payload, id_of(inst),
    IF payload \in {"candles", "orderbook"} THEN inst.param ELSE NoParam>>

(* keys_of(): one key per instrument, none for the other payloads. *)
keys_of(r) ==
  IF r.payload \in Targeted
  THEN [i \in DOMAIN r.instruments |-> KeyOf(r.payload, r.instruments[i])]
  ELSE <<>>

action_of(r) == IF r.payload \in Targeted THEN r.action ELSE "UNSPECIFIED"

-----------------------------------------------------------------------------
(* The position remember_locked() stores last under key k: a request that  *)
(* names a target twice keeps the later instrument.                        *)
LastIndex(r, k) ==
  CHOOSE i \in DOMAIN keys_of(r) :
    /\ keys_of(r)[i] = k
    /\ \A j \in DOMAIN keys_of(r) : j > i => keys_of(r)[j] # k

remember_locked(table, r) ==
  [k \in DOMAIN table \cup Range(keys_of(r)) |->
     IF k \in Range(keys_of(r)) THEN single(r, LastIndex(r, k)) ELSE table[k]]

forget_locked(table, r) == Restrict(table, DOMAIN table \ Range(keys_of(r)))

(* What a request does to a table of subscriptions.  send() applies it to  *)
(* the registry; the server (external) applies it to the subscriptions of  *)
(* one call, in the order in which the requests were written.              *)
Apply(table, r) ==
  IF action_of(r) = "SUBSCRIBE" THEN remember_locked(table, r)
  ELSE IF action_of(r) = "UNSUBSCRIBE" THEN forget_locked(table, r)
  ELSE table

(* A finite table of requests. *)
IsTable(t) ==
  /\ DOMAIN t \subseteq Key
  /\ IsFiniteSet(DOMAIN t)
  /\ t = [k \in DOMAIN t |-> t[k]]
  /\ \A k \in DOMAIN t : t[k] \in Request

EmptyTable == [k \in {} |-> NoRequest]

Lookup(table, k) == IF k \in DOMAIN table THEN table[k] ELSE NoRequest

(* The keys whose entry a request changes, and the entry it leaves there. *)
Touched(r) ==
  IF action_of(r) \in {"SUBSCRIBE", "UNSUBSCRIBE"} THEN Range(keys_of(r)) ELSE {}

Effect(r, k) ==
  IF action_of(r) = "SUBSCRIBE" THEN single(r, LastIndex(r, k)) ELSE NoRequest

(* The last request of a queue for key k is the i-th. *)
LastTouch(queue, k, i) ==
  /\ k \in Touched(queue[i])
  /\ \A j \in DOMAIN queue : j > i => k \notin Touched(queue[j])

(* The requests replayed on a new connection, one per entry.  std::map     *)
(* visits them in the order of the key strings; keys have no order here,   *)
(* so any order is possible.                                               *)
NothingReplayed(table) == {<<>>}                  \* mutation

ReplayQueues(table) ==
  {[i \in DOMAIN p |-> table[p[i]]] :
     p \in Bijection(1..Cardinality(DOMAIN table), DOMAIN table)}

-----------------------------------------------------------------------------
(* The convenience methods: the request each of them passes to send(). *)
Targets(ids, param) ==
  [i \in DOMAIN ids |-> [instrument_id |-> ids[i], figi |-> NoId, param |-> param]]

MakeRequest(payload, action, options, instruments) ==
  [payload |-> payload, action |-> action, options |-> options,
   instruments |-> instruments]

subscribe_candles(ids, interval, waiting_close) ==
  MakeRequest("candles", "SUBSCRIBE", waiting_close, Targets(ids, interval))
unsubscribe_candles(ids, interval) ==
  MakeRequest("candles", "UNSUBSCRIBE", NoOptions, Targets(ids, interval))
subscribe_order_book(ids, depth) ==
  MakeRequest("orderbook", "SUBSCRIBE", NoOptions, Targets(ids, depth))
unsubscribe_order_book(ids, depth) ==
  MakeRequest("orderbook", "UNSUBSCRIBE", NoOptions, Targets(ids, depth))
subscribe_trades(ids, with_open_interest) ==
  MakeRequest("trades", "SUBSCRIBE", with_open_interest, Targets(ids, NoParam))
unsubscribe_trades(ids) ==
  MakeRequest("trades", "UNSUBSCRIBE", NoOptions, Targets(ids, NoParam))
subscribe_info(ids) ==
  MakeRequest("info", "SUBSCRIBE", NoOptions, Targets(ids, NoParam))
unsubscribe_info(ids) ==
  MakeRequest("info", "UNSUBSCRIBE", NoOptions, Targets(ids, NoParam))
subscribe_last_prices(ids) ==
  MakeRequest("last_price", "SUBSCRIBE", NoOptions, Targets(ids, NoParam))
unsubscribe_last_prices(ids) ==
  MakeRequest("last_price", "UNSUBSCRIBE", NoOptions, Targets(ids, NoParam))
get_my_subscriptions ==
  MakeRequest("get_my_subscriptions", "UNSPECIFIED", NoOptions, <<>>)
=============================================================================
