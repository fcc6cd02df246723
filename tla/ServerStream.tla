---------------------------- MODULE ServerStream ----------------------------
(***************************************************************************)
(* tinvest::ServerStream (src/include/tinvest/streams/server_stream.hpp):  *)
(* the template behind the positions, portfolio, trades, order state and   *)
(* server-side market data streams.  It reconnects like MarketDataStream,  *)
(* but has no writes, no hold, and filters the server's pings.             *)
(*                                                                         *)
(* Threads and the grain of the steps are those of MarketDataStream.  The  *)
(* filter is not guarded by a lock and is set before start(), as the       *)
(* factories do.                                                           *)
(***************************************************************************)
EXTENDS Naturals, ClientCall, StreamOptions

CONSTANTS
  Workers,          \* names for the threads that start() can create
  Controllers       \* the threads that call start() and stop()

ASSUME NoneAssumption == None \notin Workers

VARIABLES
  \* members guarded by mu_, except got_data, which is atomic
  stopping, done, got_data, ctx, worker,
  \* is_ping_ is set; opts_.reconnect
  is_ping, reconnect,
  \* locals of run(): control point, attempt and delay
  pc, attempt, delay,
  \* stop(): control point, and the local t
  cpc, joining,
  \* the gRPC calls (external), one per worker
  call,
  \* what on_state_ was last told
  notified

opts    == <<is_ping, reconnect>>
members == <<stopping, done, ctx, worker, opts, cpc, joining>>
locals  == <<pc, attempt, delay>>
vars    == <<members, got_data, locals, call, notified>>

Ptr == Workers \cup {None}

WorkerPcs == {"idle", "loop", "connecting", "setup", "bind", "wait", "returned",
              "disconnected", "backoff", "exit", "finished"}

(* The constructor. *)
Init ==
  /\ stopping = FALSE /\ done = FALSE /\ got_data = FALSE
  /\ ctx = None /\ worker = None
  /\ pc = [w \in Workers |-> "idle"]
  /\ attempt = [w \in Workers |-> 0]
  /\ delay = [w \in Workers |-> 0]
  /\ cpc = [c \in Controllers |-> "idle"]
  /\ joining = [c \in Controllers |-> None]
  /\ call = [w \in Workers |-> NewCall]
  /\ notified = "none"
  /\ is_ping = FALSE /\ reconnect \in BOOLEAN

-----------------------------------------------------------------------------
(* start() and stop(); the destructor is stop(). *)

StartWorker(c) ==
  /\ cpc[c] = "idle"
  /\ worker = None
  /\ \E w \in Workers :
       /\ pc[w] = "idle"
       /\ worker' = w
       /\ pc' = [pc EXCEPT ![w] = "loop"]
       /\ attempt' = [attempt EXCEPT ![w] = 0]
       /\ delay' = [delay EXCEPT ![w] = 0]
  /\ stopping' = FALSE
  /\ UNCHANGED <<done, got_data, ctx, reconnect, cpc, joining, call, notified>>

start(c) == StartWorker(c) /\ UNCHANGED is_ping

(* The factories: a stream that was just constructed gets its filter and   *)
(* is started.                                                             *)
make_stream(c) ==
  /\ notified = "none" /\ ~stopping
  /\ StartWorker(c)
  /\ is_ping' = TRUE

set_ping_filter(c) ==
  /\ cpc[c] = "idle"
  /\ \A w \in Workers : pc[w] = "idle"
  /\ is_ping' \in BOOLEAN
  /\ UNCHANGED <<stopping, done, ctx, worker, reconnect, cpc, joining, got_data,
                 locals, call, notified>>

(* if (ctx_) ctx_->TryCancel() *)
NothingCancelled == call                          \* mutation

ContextCancelled ==
  IF ctx = None THEN call ELSE [call EXCEPT ![ctx] = TryCancel(@)]

(* stop(), the critical section. *)
StopLocked(c) ==
  /\ cpc[c] = "idle"
  /\ stopping' = TRUE
  /\ call' = ContextCancelled
  /\ joining' = [joining EXCEPT ![c] = worker]
  /\ worker' = None
  /\ cpc' = [cpc EXCEPT ![c] = "join"]
  /\ UNCHANGED <<done, got_data, ctx, opts, locals, notified>>

StopJoinNotWaiting(c) ==                          \* mutation
  /\ cpc[c] = "join"
  /\ joining' = [joining EXCEPT ![c] = None]
  /\ cpc' = [cpc EXCEPT ![c] = "idle"]
  /\ UNCHANGED <<stopping, done, ctx, worker, opts, got_data, locals, call,
                 notified>>

(* stop(): t.join(), then the return. *)
StopJoin(c) ==
  /\ cpc[c] = "join"
  /\ joining[c] # None => pc[joining[c]] = "finished"
  /\ pc' = [w \in Workers |-> IF w = joining[c] THEN "idle" ELSE pc[w]]
  /\ joining' = [joining EXCEPT ![c] = None]
  /\ cpc' = [cpc EXCEPT ![c] = "idle"]
  /\ UNCHANGED <<stopping, done, ctx, worker, opts, got_data, attempt, delay,
                 call, notified>>

-----------------------------------------------------------------------------
(* run() *)

(* { lock_guard lk(mu_); if (stopping_) break; } *)
BreakOrGoOn(w, from, to) ==
  /\ pc[w] = from
  /\ pc' = [pc EXCEPT ![w] = IF stopping THEN "exit" ELSE to]
  /\ UNCHANGED <<members, got_data, attempt, delay, call, notified>>

notify(w, from, state, to) ==
  /\ pc[w] = from
  /\ notified' = state
  /\ pc' = [pc EXCEPT ![w] = to]
  /\ UNCHANGED <<members, call>>

RunCheck(w) == BreakOrGoOn(w, "loop", "connecting")
RunReturned(w) == BreakOrGoOn(w, "returned", "disconnected")
BackoffOver(w) == BreakOrGoOn(w, "backoff", "loop")

(* notify(connecting), then got_data_ = false. *)
NotifyConnectingOnly(w) ==                        \* mutation
  /\ notify(w, "connecting", "connecting", "setup")
  /\ UNCHANGED <<got_data, attempt, delay>>

NotifyConnecting(w) ==
  /\ notify(w, "connecting", "connecting", "setup")
  /\ got_data' = FALSE
  /\ UNCHANGED <<attempt, delay>>

NotifyStopped(w) ==
  /\ notify(w, "exit", "stopped", "finished")
  /\ UNCHANGED <<got_data, attempt, delay>>

(* if (got_data_) attempt = 0: "the connection was healthy". *)
Failures(w) == IF got_data THEN 0 ELSE attempt[w]

(* From "if (got_data_) attempt = 0" to the wait_for(). *)
NotifyDisconnected(w) ==
  /\ notify(w, "disconnected", "disconnected", AfterBreak(reconnect))
  /\ delay' = [delay EXCEPT ![w] = Backoff(Failures(w))]
  /\ attempt' = [attempt EXCEPT ![w] = NextAttempt(Failures(w))]
  /\ UNCHANGED got_data

-----------------------------------------------------------------------------
(* run_once() *)

(* The early return of the critical section. *)
RunOnceCancelled(w) ==
  /\ pc[w] = "setup"
  /\ stopping
  /\ pc' = [pc EXCEPT ![w] = "returned"]
  /\ UNCHANGED <<members, got_data, attempt, delay, call, notified>>

(* The critical section: the context becomes visible to stop(). *)
RunOnceSetup(w) ==
  /\ pc[w] = "setup"
  /\ ~stopping
  /\ ctx' = w
  /\ done' = FALSE
  /\ call' = [call EXCEPT ![w] = NewCall]
  /\ pc' = [pc EXCEPT ![w] = "bind"]
  /\ UNCHANGED <<stopping, worker, opts, cpc, joining, got_data, attempt, delay,
                 notified>>

(* start_fn_() and Reactor::Begin(). *)
RunOnceBegin(w) ==
  /\ pc[w] = "bind"
  /\ call' = [call EXCEPT ![w] = StartCall(@, 0)]
  /\ pc' = [pc EXCEPT ![w] = "wait"]
  /\ UNCHANGED <<members, got_data, attempt, delay, notified>>

RunOnceReturnOnStop(w) ==                         \* mutation
  /\ pc[w] = "wait"
  /\ done \/ stopping
  /\ ctx' = None
  /\ pc' = [pc EXCEPT ![w] = "returned"]
  /\ UNCHANGED <<stopping, done, worker, opts, cpc, joining, got_data, attempt,
                 delay, call, notified>>

(* The wait for done_; the context and the reactor are destroyed. *)
RunOnceReturn(w) ==
  /\ pc[w] = "wait"
  /\ done
  /\ ctx' = None
  /\ pc' = [pc EXCEPT ![w] = "returned"]
  /\ UNCHANGED <<stopping, done, worker, opts, cpc, joining, got_data, attempt,
                 delay, call, notified>>

-----------------------------------------------------------------------------
(* The reactor's callbacks, on gRPC threads *)

(* External: the server ends the call, the connection is lost or the       *)
(* deadline that setup_context() has set expires.                          *)
CallBreaks(w) ==
  /\ call[w].phase = "started"
  /\ ~call[w].over
  /\ call' = [call EXCEPT ![w] = TryCancel(@)]
  /\ UNCHANGED <<members, got_data, locals, notified>>

(* OnReadDone(true): handle_data() up to its notification. *)
OnReadDone(w) ==
  /\ call[w].phase = "started"
  /\ call[w].rd = "pending"
  /\ got_data' = TRUE
  /\ call' = [call EXCEPT ![w] =
                ReadMessage(@, IF got_data THEN "filter" ELSE "notify")]
  /\ UNCHANGED <<members, locals, notified>>

NotifyConnected(w) ==
  /\ call[w].rd = "notify"
  /\ notified' = "connected"
  /\ call' = [call EXCEPT ![w] = ReadGoesOn(@, "filter")]
  /\ UNCHANGED <<members, got_data, locals>>

(* A ping is dropped if there is a filter, and the next read starts; any   *)
(* other message goes to on_data_.                                         *)
Filter(w) ==
  /\ call[w].rd = "filter"
  /\ \E ping \in BOOLEAN :
       call' = [call EXCEPT ![w] =
                  ReadGoesOn(@, IF is_ping /\ ping THEN "pending" ELSE "dispatch")]
  /\ UNCHANGED <<members, got_data, locals, notified>>

(* on_data_() returns; the next StartRead(). *)
Dispatch(w) ==
  /\ call[w].rd = "dispatch"
  /\ call' = [call EXCEPT ![w] = ReadGoesOn(@, "pending")]
  /\ UNCHANGED <<members, got_data, locals, notified>>

(* OnReadDone(false) returns at once; OnDone will follow. *)
OnReadClosed(w) ==
  /\ call[w].phase = "started"
  /\ call[w].rd = "pending"
  /\ call[w].over
  /\ call' = [call EXCEPT ![w] = ReadGoesOn(@, "closed")]
  /\ UNCHANGED <<members, got_data, locals, notified>>

(* OnDone: handle_done(). *)
OnDone(w) ==
  /\ MayFinish(call[w])
  /\ done' = TRUE
  /\ call' = [call EXCEPT ![w] = Finish(@)]
  /\ UNCHANGED <<stopping, ctx, worker, opts, cpc, joining, got_data, locals,
                 notified>>

-----------------------------------------------------------------------------
Control(c) ==
  \/ start(c) \/ make_stream(c) \/ set_ping_filter(c)
  \/ StopLocked(c) \/ StopJoin(c)

Run(w) ==
  \/ RunCheck(w) \/ NotifyConnecting(w) \/ RunReturned(w)
  \/ NotifyDisconnected(w) \/ BackoffOver(w) \/ NotifyStopped(w)
  \/ RunOnceCancelled(w) \/ RunOnceSetup(w) \/ RunOnceBegin(w) \/ RunOnceReturn(w)

Callback(w) ==
  \/ OnReadDone(w) \/ NotifyConnected(w) \/ Filter(w) \/ Dispatch(w)
  \/ OnReadClosed(w) \/ OnDone(w)

Next ==
  \/ \E c \in Controllers : Control(c)
  \/ \E w \in Workers : Run(w) \/ CallBreaks(w) \/ Callback(w)

Spec == Init /\ [][Next]_vars

-----------------------------------------------------------------------------
(* Safety, with one controller *)

InScope(w) == pc[w] \in {"bind", "wait"}

(* The context and the reactor live in the frame of run_once() (lines      *)
(* 142-144): the frame is not left while gRPC may still run a callback on  *)
(* the reactor, or while stop() could cancel through ctx_.                 *)
NoDanglingPointer ==
  /\ \A w \in Workers : call[w].phase = "started" => InScope(w)
  /\ ctx # None => InScope(ctx)

(* After stop() has returned and until the next start(), on_data and       *)
(* on_state are not called and gRPC is left alone: what the callbacks      *)
(* capture may be destroyed (~ServerStream() is stop()).                   *)
Stopped == stopping /\ worker = None /\ \A c \in Controllers : cpc[c] = "idle"

QuietAfterStop == [][Stopped => UNCHANGED <<notified, call>>]_vars

(* The notifications and on_data keep the order that StreamLifecycle       *)
(* prescribes.                                                             *)
Lifecycle ==
  INSTANCE StreamLifecycle
    WITH state <- notified,
         handling <- \E w \in Workers : call[w].rd = "dispatch"

LifecycleSpec == Lifecycle!Spec

-----------------------------------------------------------------------------
(* Liveness, under the fairness of MarketDataStream. *)
Fairness ==
  /\ \A c \in Controllers : WF_vars(StopJoin(c))
  /\ \A w \in Workers :
       /\ WF_vars(Run(w))
       /\ WF_vars(NotifyConnected(w) \/ Filter(w) \/ Dispatch(w))
       /\ SF_vars(OnReadClosed(w))
       /\ WF_vars(OnDone(w))

FairSpec == Spec /\ Fairness

(* stop() returns, although it may come before, while or after the call is *)
(* started, and while the worker sleeps.                                   *)
StopReturns == \A c \in Controllers : cpc[c] # "idle" ~> cpc[c] = "idle"

(* A broken call is followed by a new attempt, unless stop() comes first;  *)
(* without reconnect it is followed by the end of the worker.              *)
BreakIsHandled ==
  \A w \in Workers :
    call[w].phase = "started" /\ call[w].over ~>
      IF reconnect THEN pc[w] = "connecting" \/ stopping
      ELSE pc[w] \in {"finished", "idle"}
=============================================================================
