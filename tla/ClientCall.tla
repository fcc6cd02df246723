----------------------------- MODULE ClientCall -----------------------------
(***************************************************************************)
(* A streaming call of the gRPC callback API, as the two stream classes    *)
(* use it (the library is external to the repository): a                   *)
(* grpc::ClientContext together with the reactor bound to it.              *)
(*                                                                         *)
(*   phase  "none" until StartCall(), "done" once OnDone() has been called *)
(*   over   the call has ended for the transport: the server closed it,    *)
(*          the connection broke, or it was cancelled                      *)
(*   hold   AddHold() minus RemoveHold()                                   *)
(*   rd     the read side: "pending" while a StartRead() is outstanding,   *)
(*          "notify", "filter" and "dispatch" while OnReadDone(true) runs, *)
(*          "closed" after OnReadDone(false)                               *)
(*   wr     StartWrite() calls not yet answered by OnWriteDone()           *)
(*   rrel   local "release" of the closing OnReadDone: the reactor on      *)
(*          which it still has to call RemoveHold()                        *)
(*   wrel   the same for a failed OnWriteDone                              *)
(*   data   OnReadDone(true) has happened on this call                     *)
(***************************************************************************)
EXTENDS Integers

CONSTANT
  None          \* a null pointer

Phases == {"none", "started", "done"}
ReadStates == {"none", "pending", "notify", "filter", "dispatch", "closed"}

Call(Reactors) ==
  [phase : Phases, over : BOOLEAN, hold : Int, rd : ReadStates, wr : Int,
   rrel : Reactors \cup {None}, wrel : Reactors \cup {None}, data : BOOLEAN]

(* A fresh grpc::ClientContext with a reactor that is not started. *)
NewCall ==
  [phase |-> "none", over |-> FALSE, hold |-> 0, rd |-> "none", wr |-> 0,
   rrel |-> None, wrel |-> None, data |-> FALSE]

(* ClientContext::TryCancel().  Before the call is bound the context only  *)
(* remembers it, and the call is over as soon as it starts.                *)
TryCancel(c) == [c EXCEPT !.over = TRUE]

(* StartRead() and StartCall(), with the given number of AddHold() calls. *)
StartCall(c, holds) ==
  [c EXCEPT !.phase = "started", !.hold = holds, !.rd = "pending"]

StartWrite(c) == [c EXCEPT !.wr = @ + 1]

RemoveHold(c) == [c EXCEPT !.hold = @ - 1]

(* The callbacks: a message was read, its handling goes on, the read side  *)
(* closed, a write was answered, and a callback returned.                  *)
(* "rel" is the reactor on which the callback will call RemoveHold().      *)
ReadMessage(c, rd) == [c EXCEPT !.rd = rd, !.data = TRUE]
ReadGoesOn(c, rd) == [c EXCEPT !.rd = rd]
ReadClosed(c, rel) == [c EXCEPT !.rd = "closed", !.rrel = rel]
ReadReturns(c) == [c EXCEPT !.rrel = None]
WriteAnswered(c, rel) == [c EXCEPT !.wr = @ - 1, !.wrel = rel]
WriteReturns(c) == [c EXCEPT !.wrel = None]

(* OnDone() is the last callback: the status has arrived, every operation  *)
(* has completed, its callback has returned and no hold is left.           *)
MayFinish(c) ==
  /\ c.phase = "started" /\ c.over
  /\ c.hold = 0 /\ c.rd = "closed" /\ c.wr = 0
  /\ c.rrel = None /\ c.wrel = None

Finish(c) == [c EXCEPT !.phase = "done"]
=============================================================================
