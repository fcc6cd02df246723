-------------------------- MODULE StreamLifecycle ---------------------------
(***************************************************************************)
(* What a stream promises to the code that uses it, whatever the threads   *)
(* behind it do: the order of the StreamState notifications                *)
(* (src/include/tinvest/streams/server_stream.hpp, lines 22-34) and the    *)
(* place of the data handlers among them.  MarketDataStream implements it. *)
(*                                                                         *)
(*   state     the last value on_state was called with                     *)
(*   handling  a data handler is being called                              *)
(***************************************************************************)
VARIABLES state, handling

Init == state = "none" /\ handling = FALSE

(* A connection attempt: the first one, the one after a break, or the      *)
(* first one after a restart.                                              *)
Connecting ==
  /\ state \in {"none", "disconnected", "stopped"}
  /\ state' = "connecting"
  /\ ~handling /\ UNCHANGED handling

(* "first message received": at most once per connection attempt, and      *)
(* before the message reaches a handler.                                   *)
Connected ==
  /\ state = "connecting"
  /\ state' = "connected"
  /\ handling' \in BOOLEAN

(* Handlers only run while the stream is connected, one at a time. *)
BeginHandling ==
  /\ state = "connected" /\ ~handling
  /\ handling' = TRUE
  /\ UNCHANGED state

EndHandling ==
  /\ handling
  /\ handling' = FALSE
  /\ UNCHANGED state

(* A connection that is given up; no handler is running any more. *)
Disconnected ==
  /\ state \in {"connecting", "connected"}
  /\ state' = "disconnected"
  /\ ~handling /\ UNCHANGED handling

(* The last notification of a start(): from anywhere, once. *)
Stopped ==
  /\ state' = "stopped"
  /\ ~handling /\ UNCHANGED handling

Next ==
  Connecting \/ Connected \/ BeginHandling \/ EndHandling \/ Disconnected \/ Stopped

Spec == Init /\ [][Next]_<<state, handling>>
=============================================================================
