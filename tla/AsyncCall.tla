----------------------------- MODULE AsyncCall ------------------------------
(***************************************************************************)
(* What detail::unary_async() (src/include/tinvest/detail/unary.hpp)       *)
(* promises of an asynchronous call to those who build on it: its callback *)
(* is invoked once, inside unary_async() if the limiter refuses the call   *)
(* and otherwise on a gRPC thread, which may happen before unary_async()   *)
(* has returned; the State of the call is deleted once the callback has    *)
(* returned.  UnaryCall implements this contract, Awaitable relies on it.  *)
(*                                                                         *)
(* A call is "none", "refused" (the callback runs or ran in the caller),   *)
(* "started", "callback" (it runs on a gRPC thread) or "deleted".          *)
(***************************************************************************)
CONSTANT AsyncCalls

VARIABLE async

AsyncInit == async = [c \in AsyncCalls |-> "none"]

AsyncStep(c, from, to) ==
  /\ async[c] = from
  /\ async' = [async EXCEPT ![c] = to]

Refuse(c) == AsyncStep(c, "none", "refused")
StartRpc(c) == AsyncStep(c, "none", "started")
RpcDone(c) == AsyncStep(c, "started", "callback")
DeleteState(c) == AsyncStep(c, "callback", "deleted")

AsyncNext ==
  \E c \in AsyncCalls : Refuse(c) \/ StartRpc(c) \/ RpcDone(c) \/ DeleteState(c)

AsyncSpec == AsyncInit /\ [][AsyncNext]_async
=============================================================================
