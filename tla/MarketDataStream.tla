-------------------------- MODULE MarketDataStream --------------------------
(***************************************************************************)
(* tinvest::MarketDataStream (src/src/market_data_stream.cpp and           *)
(* src/include/tinvest/streams/market_data_stream.hpp): the bidirectional  *)
(* market data stream with automatic reconnect and resubscription.         *)
(*                                                                         *)
(* Threads: the controllers, user threads that call start() and stop();    *)
(* the workers, threads that start() creates to execute run(); any number  *)
(* of user threads that call send() or a convenience method; and gRPC's    *)
(* callback threads, which run OnReadDone, OnWriteDone and OnDone.         *)
(* A step is one critical section of mu_, or one call made outside of it   *)
(* that another thread can observe.                                        *)
(*                                                                         *)
(* run_once() keeps its ClientContext and its Reactor on the stack of its  *)
(* worker, so a pointer to either of them is the name of that worker.      *)
(***************************************************************************)
EXTENDS Subscriptions, ClientCall, StreamOptions

CONSTANTS
  Workers,          \* names for the threads that start() can create
  Controllers,      \* the threads that call start() and stop()
  Calls,            \* the arguments of send(): [request, remember]
  MaxCalls          \* bound: how often send() is called

ASSUME NoneAssumption == None \notin Workers

ASSUME CallsAssumption ==
  /\ MaxCalls \in Nat
  /\ \A a \in Calls : a.request \in Request /\ a.remember \in BOOLEAN

VARIABLES
  \* members guarded by mu_
  stopping, done, got_data, broken, hold_released, write_in_flight,
  ctx, reactor, worker, write_queue, subscriptions,
  \* opts_.reconnect
  reconnect,
  \* locals of run(): control point, attempt and delay
  pc, attempt, delay,
  \* locals of stop(): control point, release and t
  cpc, release, joining,
  \* the gRPC calls (external), one per worker
  call,
  \* what on_state_ was last told
  notified,
  \* history: the subscriptions each call has been sent, the keys that
  \* changed without the current call being told, the number of sends
  sent, unsynced, calls

flags  == <<stopping, done, got_data, broken, hold_released>>
ptrs   == <<ctx, reactor, worker>>
output == <<write_queue, write_in_flight, sent>>
locals == <<pc, attempt, delay>>
ctl    == <<cpc, release, joining>>
user   == <<subscriptions, reconnect, unsynced, calls>>
members == <<flags, ptrs, output, ctl, user>>
vars   == <<members, locals, call, notified>>

Ptr == Workers \cup {None}

WorkerPcs == {"idle", "loop", "connecting", "setup", "bind", "publish",
              "release", "wait", "returned", "disconnected", "backoff",
              "exit", "finished"}

(* Types, and the range of the reconnect delay: run() never sleeps longer  *)
(* than max_backoff, however often the connection has failed.              *)
TypeOK ==
  /\ stopping \in BOOLEAN /\ done \in BOOLEAN /\ got_data \in BOOLEAN
  /\ broken \in BOOLEAN /\ hold_released \in BOOLEAN
  /\ write_in_flight \in BOOLEAN
  /\ ctx \in Ptr /\ reactor \in Ptr /\ worker \in Ptr
  /\ write_queue \in Seq(Request)
  /\ IsTable(subscriptions)
  /\ reconnect \in BOOLEAN
  /\ pc \in [Workers -> WorkerPcs]
  /\ attempt \in [Workers -> 0..MaxShift]
  /\ delay \in [Workers -> 0..max_backoff]
  /\ cpc \in [Controllers -> {"idle", "release", "join"}]
  /\ release \in [Controllers -> Ptr]
  /\ joining \in [Controllers -> Ptr]
  /\ call \in [Workers -> Call(Workers)]
  /\ notified \in StreamStates
  /\ DOMAIN sent = Workers /\ \A w \in Workers : IsTable(sent[w])
  /\ unsynced \subseteq Key
  /\ calls \in 0..MaxCalls

(* The constructor. *)
Init ==
  /\ stopping = FALSE /\ done = FALSE /\ got_data = FALSE
  /\ broken = FALSE /\ hold_released = FALSE /\ write_in_flight = FALSE
  /\ ctx = None /\ reactor = None /\ worker = None
  /\ write_queue = <<>>
  /\ subscriptions = EmptyTable
  /\ reconnect \in BOOLEAN
  /\ pc = [w \in Workers |-> "idle"]
  /\ attempt = [w \in Workers |-> 0]
  /\ delay = [w \in Workers |-> 0]
  /\ cpc = [c \in Controllers |-> "idle"]
  /\ release = [c \in Controllers |-> None]
  /\ joining = [c \in Controllers |-> None]
  /\ call = [w \in Workers |-> NewCall]
  /\ notified = "none"
  /\ sent = [w \in Workers |-> EmptyTable]
  /\ unsynced = {}
  /\ calls = 0

-----------------------------------------------------------------------------
(* Helpers that run with mu_ held. *)

(* maybe_write_locked(), given the values that the members have when it is *)
(* called: it starts the write of the first queued request, if it may.     *)
MayWriteIgnoringFlight(r, in_flight, queue) ==   \* mutation
  r # None /\ ~broken /\ ~hold_released /\ queue # <<>>

MayWrite(r, in_flight, queue) ==
  r # None /\ ~broken /\ ~hold_released /\ ~in_flight /\ queue # <<>>

maybe_write_locked(r, in_flight, queue, cs) ==
  IF MayWrite(r, in_flight, queue)
  THEN /\ write_in_flight' = TRUE
       /\ write_queue' = Tail(queue)
       /\ call' = [cs EXCEPT ![r] = StartWrite(@)]
       /\ sent' = [sent EXCEPT ![r] = Apply(@, Head(queue))]
  ELSE /\ write_in_flight' = in_flight
       /\ write_queue' = queue
       /\ call' = cs
       /\ UNCHANGED sent

(* The reactor on which stop() or handle_read_closed() has to remove the   *)
(* hold, if it is the first to get there.                                  *)
HoldToReleaseUnchecked == reactor                 \* mutation

HoldToRelease == IF hold_released THEN None ELSE reactor

(* if (got_data_) attempt = 0: a connection that delivered data starts the *)
(* backoff anew.                                                           *)
FailuresAlwaysReset(w) == 0                       \* mutation

Failures(w) == IF got_data THEN 0 ELSE attempt[w]

(* if (ctx_) ctx_->TryCancel() *)
NothingCancelled == call                          \* mutation

ContextCancelled ==
  IF ctx = None THEN call ELSE [call EXCEPT ![ctx] = TryCancel(@)]

-----------------------------------------------------------------------------
(* start() and stop().  The destructor is stop(). *)

(* A call of start() while worker_ is joinable changes nothing. *)
start(c) ==
  /\ cpc[c] = "idle"
  /\ worker = None
  /\ \E w \in Workers :
       /\ pc[w] = "idle"
       /\ worker' = w
       /\ pc' = [pc EXCEPT ![w] = "loop"]
       /\ attempt' = [attempt EXCEPT ![w] = 0]
       /\ delay' = [delay EXCEPT ![w] = 0]
  /\ stopping' = FALSE
  /\ UNCHANGED <<done, got_data, broken, hold_released, ctx, reactor, output,
                 ctl, user, call, notified>>

(* stop(), the critical section. *)
StopLocked(c) ==
  /\ cpc[c] = "idle"
  /\ stopping' = TRUE
  /\ broken' = TRUE
  /\ hold_released' = (hold_released \/ HoldToRelease # None)
  /\ release' = [release EXCEPT ![c] = HoldToRelease]
  /\ call' = ContextCancelled
  /\ joining' = [joining EXCEPT ![c] = worker]
  /\ worker' = None
  /\ cpc' = [cpc EXCEPT ![c] = IF HoldToRelease # None THEN "release" ELSE "join"]
  /\ UNCHANGED <<done, got_data, ctx, reactor, output, locals, user, notified>>

(* stop(): release->RemoveHold(). *)
StopRelease(c) ==
  /\ cpc[c] = "release"
  /\ call' = [call EXCEPT ![release[c]] = RemoveHold(@)]
  /\ release' = [release EXCEPT ![c] = None]
  /\ cpc' = [cpc EXCEPT ![c] = "join"]
  /\ UNCHANGED <<flags, ptrs, output, locals, joining, user, notified>>

StopJoinNotWaiting(c) ==                          \* mutation
  /\ cpc[c] = "join"
  /\ joining' = [joining EXCEPT ![c] = None]
  /\ cpc' = [cpc EXCEPT ![c] = "idle"]
  /\ UNCHANGED <<flags, ptrs, output, locals, release, user, call, notified>>

StopJoinUnlessWaiting(c) ==                       \* mutation
  /\ cpc[c] = "join"
  /\ joining[c] # None => pc[joining[c]] \in {"wait", "finished"}
  /\ joining' = [joining EXCEPT ![c] = None]
  /\ cpc' = [cpc EXCEPT ![c] = "idle"]
  /\ UNCHANGED <<flags, ptrs, output, locals, release, user, call, notified>>

(* stop(): t.join(), then the return. *)
StopJoin(c) ==
  /\ cpc[c] = "join"
  /\ joining[c] # None => pc[joining[c]] = "finished"
  /\ pc' = [w \in Workers |-> IF w = joining[c] THEN "idle" ELSE pc[w]]
  /\ joining' = [joining EXCEPT ![c] = None]
  /\ cpc' = [cpc EXCEPT ![c] = "idle"]
  /\ UNCHANGED <<flags, ptrs, output, attempt, delay, release, user, call,
                 notified>>

-----------------------------------------------------------------------------
(* run() *)

(* { lock_guard lk(mu_); if (stopping_) break; } *)
BreakOrGoOn(w, from, to) ==
  /\ pc[w] = from
  /\ pc' = [pc EXCEPT ![w] = IF stopping THEN "exit" ELSE to]
  /\ UNCHANGED <<members, attempt, delay, call, notified>>

notify(w, from, state, to) ==
  /\ pc[w] = from
  /\ notified' = state
  /\ pc' = [pc EXCEPT ![w] = to]
  /\ UNCHANGED <<members, call>>

(* The check at the top of the loop, the one after run_once(), and the one *)
(* after wait_for() has returned because stopping_ was set or the delay is *)
(* over.                                                                   *)
RunCheck(w) == BreakOrGoOn(w, "loop", "connecting")
RunReturned(w) == BreakOrGoOn(w, "returned", "disconnected")
BackoffOver(w) == BreakOrGoOn(w, "backoff", "loop")

NotifyConnecting(w) ==
  notify(w, "connecting", "connecting", "setup") /\ UNCHANGED <<attempt, delay>>

NotifyStopped(w) ==
  notify(w, "exit", "stopped", "finished") /\ UNCHANGED <<attempt, delay>>

(* From "if (got_data_) attempt = 0" to the wait_for(). *)
NotifyDisconnected(w) ==
  /\ notify(w, "disconnected", "disconnected", AfterBreak(reconnect))
  /\ delay' = [delay EXCEPT ![w] = Backoff(Failures(w))]
  /\ attempt' = [attempt EXCEPT ![w] = NextAttempt(Failures(w))]

-----------------------------------------------------------------------------
(* run_once() *)

(* The early return of the first critical section. *)
RunOnceCancelled(w) ==
  /\ pc[w] = "setup"
  /\ stopping
  /\ pc' = [pc EXCEPT ![w] = "returned"]
  /\ UNCHANGED <<members, attempt, delay, call, notified>>

(* The first critical section: a new context, the flags reset, the whole   *)
(* registry queued.                                                        *)
RunOnceSetup(w) ==
  /\ pc[w] = "setup"
  /\ ~stopping
  /\ ctx' = w
  /\ done' = FALSE /\ broken' = FALSE /\ hold_released' = FALSE
  /\ got_data' = FALSE /\ write_in_flight' = FALSE
  /\ write_queue' \in ReplayQueues(subscriptions)
  /\ call' = [call EXCEPT ![w] = NewCall]
  /\ sent' = [sent EXCEPT ![w] = EmptyTable]
  /\ unsynced' = {}
  /\ pc' = [pc EXCEPT ![w] = "bind"]
  /\ UNCHANGED <<stopping, reactor, worker, attempt, delay, ctl, subscriptions,
                 reconnect, calls, notified>>

(* The call is bound to the reactor, and Reactor::Begin() adds a hold and  *)
(* starts the first read and the call.                                     *)
RunOnceBegin(w) ==
  /\ pc[w] = "bind"
  /\ call' = [call EXCEPT ![w] = StartCall(@, 1)]
  /\ pc' = [pc EXCEPT ![w] = "publish"]
  /\ UNCHANGED <<members, attempt, delay, notified>>

(* The second critical section: the reactor becomes visible to the other   *)
(* threads, unless the stream broke or stop() arrived meanwhile.           *)
PublishReleasesOnStop == stopping /\ ~hold_released   \* mutation

PublishReleases == (stopping \/ broken) /\ ~hold_released

RunOncePublish(w) ==
  /\ pc[w] = "publish"
  /\ IF done
     THEN /\ pc' = [pc EXCEPT ![w] = "wait"]
          /\ UNCHANGED <<reactor, hold_released, output, call>>
     ELSE /\ reactor' = w
          /\ IF PublishReleases
             THEN /\ hold_released' = TRUE
                  /\ pc' = [pc EXCEPT ![w] = "release"]
                  /\ UNCHANGED <<output, call>>
             ELSE /\ pc' = [pc EXCEPT ![w] = "wait"]
                  /\ maybe_write_locked(w, write_in_flight, write_queue, call)
                  /\ UNCHANGED hold_released
  /\ UNCHANGED <<stopping, done, got_data, broken, ctx, worker, attempt, delay,
                 ctl, user, notified>>

(* release->RemoveHold() *)
RunOnceRelease(w) ==
  /\ pc[w] = "release"
  /\ call' = [call EXCEPT ![w] = RemoveHold(@)]
  /\ pc' = [pc EXCEPT ![w] = "wait"]
  /\ UNCHANGED <<members, attempt, delay, notified>>

RunOnceReturnOnStop(w) ==                         \* mutation
  /\ pc[w] = "wait"
  /\ done \/ stopping
  /\ ctx' = None
  /\ pc' = [pc EXCEPT ![w] = "returned"]
  /\ UNCHANGED <<flags, reactor, worker, output, attempt, delay, ctl, user, call,
                 notified>>

(* The wait for done_; the context and the reactor are destroyed. *)
RunOnceReturn(w) ==
  /\ pc[w] = "wait"
  /\ done
  /\ ctx' = None
  /\ pc' = [pc EXCEPT ![w] = "returned"]
  /\ UNCHANGED <<flags, reactor, worker, output, attempt, delay, ctl, user, call,
                 notified>>

-----------------------------------------------------------------------------
(* The reactor's callbacks, on gRPC threads *)

(* External: the server ends the call, or the connection is lost; to the   *)
(* reactor this looks as if the call was cancelled.                        *)
CallBreaks(w) ==
  /\ call[w].phase = "started"
  /\ ~call[w].over
  /\ call' = [call EXCEPT ![w] = TryCancel(@)]
  /\ UNCHANGED <<members, locals, notified>>

OtherMessages == got_data                         \* mutation

FirstMessage == ~got_data

(* OnReadDone(true): the critical section of handle_response().  Messages  *)
(* that arrived before the call ended are still delivered after it.        *)
OnReadDone(w) ==
  /\ call[w].phase = "started"
  /\ call[w].rd = "pending"
  /\ got_data' = TRUE
  /\ call' = [call EXCEPT ![w] = ReadMessage(@,
                          IF FirstMessage THEN "notify" ELSE "dispatch")]
  /\ UNCHANGED <<stopping, done, broken, hold_released, ptrs, output, locals,
                 ctl, user, notified>>

(* handle_response(): the first message of a connection. *)
NotifyConnected(w) ==
  /\ call[w].rd = "notify"
  /\ notified' = "connected"
  /\ call' = [call EXCEPT ![w] = ReadGoesOn(@, "dispatch")]
  /\ UNCHANGED <<members, locals>>

(* dispatch() calls the handlers; then the next StartRead(). *)
Dispatch(w) ==
  /\ call[w].rd = "dispatch"
  /\ call' = [call EXCEPT ![w] = ReadGoesOn(@, "pending")]
  /\ UNCHANGED <<members, locals, notified>>

(* The critical section of handle_read_closed(). *)
handle_read_closed ==
  /\ broken' = TRUE
  /\ hold_released' = (hold_released \/ HoldToRelease # None)
  /\ UNCHANGED <<stopping, done, got_data, ptrs, output, locals, ctl, user,
                 notified>>

(* OnReadDone(false) *)
OnReadClosed(w) ==
  /\ call[w].phase = "started"
  /\ call[w].rd = "pending"
  /\ call[w].over
  /\ call' = [call EXCEPT ![w] = ReadClosed(@, HoldToRelease)]
  /\ handle_read_closed

(* handle_read_closed() from OnReadDone: release->RemoveHold(). *)
OnReadRelease(w) ==
  /\ call[w].rrel # None
  /\ LET held == [call EXCEPT ![w] = ReadReturns(@)]
     IN  call' = [held EXCEPT ![call[w].rrel] = RemoveHold(@)]
  /\ UNCHANGED <<members, locals, notified>>

OnWriteDoneAndNoMore(w) ==                        \* mutation
  /\ call[w].wr > 0
  /\ call' = [call EXCEPT ![w] = WriteAnswered(@, None)]
  /\ write_in_flight' = FALSE
  /\ UNCHANGED <<flags, ptrs, write_queue, sent, locals, ctl, user, notified>>

(* OnWriteDone(true) *)
OnWriteDone(w) ==
  /\ call[w].wr > 0
  /\ maybe_write_locked(reactor, FALSE, write_queue,
                        [call EXCEPT ![w] = WriteAnswered(@, None)])
  /\ UNCHANGED <<flags, ptrs, locals, ctl, user, notified>>

(* OnWriteDone(false): the stream is broken. *)
OnWriteFailed(w) ==
  /\ call[w].wr > 0
  /\ call[w].over
  /\ call' = [call EXCEPT ![w] = WriteAnswered(@, HoldToRelease)]
  /\ handle_read_closed

(* handle_read_closed() from OnWriteDone: release->RemoveHold(). *)
OnWriteRelease(w) ==
  /\ call[w].wrel # None
  /\ LET held == [call EXCEPT ![w] = WriteReturns(@)]
     IN  call' = [held EXCEPT ![call[w].wrel] = RemoveHold(@)]
  /\ UNCHANGED <<members, locals, notified>>

(* OnDone: handle_done(). *)
OnDone(w) ==
  /\ MayFinish(call[w])
  /\ reactor' = None
  /\ done' = TRUE
  /\ call' = [call EXCEPT ![w] = Finish(@)]
  /\ UNCHANGED <<stopping, got_data, broken, hold_released, ctx, worker, output,
                 locals, ctl, user, notified>>

-----------------------------------------------------------------------------
(* send(), which every subscribe and unsubscribe method ends with. *)

(* "Queue only onto a live one." *)
Live == reactor # None /\ ~broken /\ ~hold_released

(* History: a change that the current call is told of is synchronised; one *)
(* it is not told of, or that the registry is not told of, is not.         *)
NextUnsynced(r, remember) ==
  IF remember /\ Live THEN unsynced \ Touched(r) ELSE unsynced \cup Touched(r)

send(r, remember) ==
  /\ calls < MaxCalls
  /\ calls' = calls + 1
  /\ IF stopping
     THEN UNCHANGED <<subscriptions, unsynced, output, call>>
     ELSE /\ subscriptions' = IF remember THEN Apply(subscriptions, r)
                              ELSE subscriptions
          /\ unsynced' = NextUnsynced(r, remember)
          /\ IF Live
             THEN maybe_write_locked(reactor, write_in_flight,
                                     Append(write_queue, r), call)
             ELSE UNCHANGED <<output, call>>
  /\ UNCHANGED <<flags, ptrs, locals, ctl, reconnect, notified>>

-----------------------------------------------------------------------------
Control(c) == start(c) \/ StopLocked(c) \/ StopRelease(c) \/ StopJoin(c)

Run(w) ==
  \/ RunCheck(w) \/ NotifyConnecting(w) \/ RunReturned(w)
  \/ NotifyDisconnected(w) \/ BackoffOver(w) \/ NotifyStopped(w)
  \/ RunOnceCancelled(w) \/ RunOnceSetup(w) \/ RunOnceBegin(w)
  \/ RunOncePublish(w) \/ RunOnceRelease(w) \/ RunOnceReturn(w)

Callback(w) ==
  \/ OnReadDone(w) \/ NotifyConnected(w) \/ Dispatch(w)
  \/ OnReadClosed(w) \/ OnReadRelease(w)
  \/ OnWriteDone(w) \/ OnWriteFailed(w) \/ OnWriteRelease(w)
  \/ OnDone(w)

Next ==
  \/ \E c \in Controllers : Control(c)
  \/ \E w \in Workers : Run(w) \/ CallBreaks(w) \/ Callback(w)
  \/ \E a \in Calls : send(a.request, a.remember)

Spec == Init /\ [][Next]_vars
-----------------------------------------------------------------------------
(* Safety.  With one controller all of these hold; the header promises     *)
(* them without that condition.                                            *)

(* The frame of run_once() that owns context and reactor is still there.   *)
InScope(w) == pc[w] \in {"bind", "publish", "release", "wait"}

(* No thread can reach a destroyed object.  The context and the reactor    *)
(* live in the frame of run_once() (lines 152-154): the frame must not be  *)
(* left while gRPC may still run a callback on the reactor, while ctx_ or  *)
(* reactor_ points into it, or while stop() or handle_read_closed() is     *)
(* about to call RemoveHold() through a copied pointer.                    *)
NoDanglingPointer ==
  /\ \A w \in Workers : call[w].phase = "started" => InScope(w)
  /\ ctx # None => InScope(ctx)
  /\ reactor # None => call[reactor].phase = "started"
  /\ \A c \in Controllers :
       release[c] # None => call[release[c]].phase = "started"
  /\ \A w \in Workers : \A v \in {call[w].rrel, call[w].wrel} \ {None} :
       call[v].phase = "started"

(* The hold that Begin() adds is removed exactly once, although stop(),    *)
(* the read callback, the write callback and the publishing step of        *)
(* run_once() race for it (hold_released_).                                *)
HoldReleasedOnce ==
  \A w \in Workers :
    /\ call[w].hold \in {0, 1}
    /\ call[w].phase # "started" => call[w].hold = 0

(* StartWrite() is only called on a started call, with no other write      *)
(* outstanding, and write_in_flight_ says so as long as there is one: user *)
(* threads and OnWriteDone start writes concurrently.                      *)
OneWriteAtATime ==
  \A w \in Workers :
    /\ call[w].wr \in {0, 1}
    /\ call[w].wr = 1 => call[w].phase = "started" /\ write_in_flight

(* The hold is never forgotten.  Once the reactor is published and the     *)
(* read side has closed, the hold is gone or some thread is on its way to  *)
(* remove it; otherwise OnDone would never come and run_once() would wait  *)
(* forever.                                                                *)
HoldNotLeaked ==
  \A w \in Workers :
    /\ pc[w] = "wait"
    /\ call[w].phase = "started"
    /\ call[w].rd = "closed"
    /\ call[w].hold > 0
    => \/ \E c \in Controllers : release[c] = w
       \/ \E v \in Workers : w \in {call[v].rrel, call[v].wrel}

UsedKeys == UNION {Touched(a.request) : a \in Calls}

(* What the server will hold for key k once call w has written the queue:  *)
(* the effect of the last queued request for k or, without one, what has   *)
(* already been written for it.                                            *)
KeyTracked(w, k) ==
  /\ \A i \in DOMAIN write_queue :
       LastTouch(write_queue, k, i) =>
         Effect(write_queue[i], k) = Lookup(subscriptions, k)
  /\ (\A i \in DOMAIN write_queue : k \notin Touched(write_queue[i])) =>
         Lookup(sent[w], k) = Lookup(subscriptions, k)

(* On an unbroken connection the requests written so far and the queue     *)
(* bring the server to exactly what the registry says, for every target    *)
(* except those changed by an unremembered request or between the          *)
(* registry's snapshot and the publication of the reactor in run_once().   *)
RegistryTracked ==
  \A w \in Workers :
    ctx = w /\ ~broken => \A k \in UsedKeys \ unsynced : KeyTracked(w, k)

(* "Subscriptions issued through this class are remembered and replayed    *)
(* after every reconnect, so the caller subscribes once": a live stream    *)
(* with nothing left to write has told the server of every subscription.   *)
DrainedIsSubscribed ==
  \A w \in Workers :
    /\ reactor = w /\ Live /\ ~write_in_flight /\ write_queue = <<>>
    => \A k \in DOMAIN subscriptions : Lookup(sent[w], k) = subscriptions[k]

(* stop() "waits for OnDone": when a call of stop() returns and no start() *)
(* has come in between, gRPC has no call left.                             *)
StopWaitsForOnDone ==
  [][\A c \in Controllers :
       cpc[c] = "join" /\ cpc'[c] = "idle" /\ stopping' =>
         \A w \in Workers : call'[w].phase # "started"]_vars

(* After stop() has returned and until the next start(), the user's        *)
(* handlers and on_state are not called and gRPC is left alone: objects    *)
(* that the callbacks use may be destroyed.                                *)
Stopped == stopping /\ worker = None /\ \A c \in Controllers : cpc[c] = "idle"

QuietAfterStop == [][Stopped => UNCHANGED <<notified, call>>]_vars

(* A connection that delivered data starts the backoff anew; one that did  *)
(* not makes the next delay longer, until the longest one is reached: a    *)
(* server that accepts calls and drops them at once is not polled at the   *)
(* initial rate.                                                           *)
BackoffGrows ==
  [][\A w \in Workers :
       pc[w] = "disconnected" /\ pc'[w] = "backoff" =>
         IF call[w].data THEN delay'[w] = Backoff(0)
         ELSE delay'[w] > delay[w] \/ delay'[w] = Backoff(MaxShift)]_vars

(* The notifications and the handlers keep the order that StreamLifecycle  *)
(* prescribes.                                                             *)
Lifecycle ==
  INSTANCE StreamLifecycle
    WITH state <- notified,
         handling <- \E w \in Workers : call[w].rd = "dispatch"

LifecycleSpec == Lifecycle!Spec

-----------------------------------------------------------------------------
(* Liveness.  Threads that can run do run, gRPC runs the callbacks it owes *)
(* and accepts a write eventually, and a read of a call that is over       *)
(* eventually fails: only finitely many messages were still under way.     *)
(* Nothing is assumed of the server, nor of the user.                      *)
Fairness ==
  /\ \A c \in Controllers : WF_vars(StopRelease(c) \/ StopJoin(c))
  /\ \A w \in Workers :
       /\ WF_vars(Run(w))
       /\ WF_vars(NotifyConnected(w) \/ Dispatch(w))
       /\ SF_vars(OnReadClosed(w))
       /\ WF_vars(OnReadRelease(w))
       /\ WF_vars(OnWriteDone(w) \/ OnWriteFailed(w))
       /\ WF_vars(OnWriteRelease(w))
       /\ WF_vars(OnDone(w))

FairSpec == Spec /\ Fairness

(* stop() returns: the worker leaves every wait it can be in. *)
StopReturns == \A c \in Controllers : cpc[c] # "idle" ~> cpc[c] = "idle"

(* A call that is over is noticed and finished: run_once() returns, and a   *)
(* new attempt follows unless stop() comes first.  StreamOptions::reconnect *)
(* says "false: stop permanently after the first break": without it the     *)
(* worker ends, and no other attempt comes in between.                      *)
BreakIsHandled ==
  /\ [][~reconnect =>
          ~(notified = "disconnected" /\ notified' = "connecting")]_vars
  /\ \A w \in Workers :
       call[w].phase = "started" /\ call[w].over ~>
         IF reconnect THEN pc[w] = "connecting" \/ stopping
         ELSE pc[w] \in {"finished", "idle"}

(* A stream that stays connected writes its whole queue: with no further   *)
(* calls of send(), the server is told of everything the registry holds,   *)
(* except the targets that RegistryTracked excepts.                        *)
StaysConnectedGetsSubscribed ==
  \A w \in Workers :
    <>[](reactor = w /\ Live) =>
      <>[](/\ write_queue = <<>> /\ ~write_in_flight
           /\ \A k \in UsedKeys \ unsynced :
                Lookup(sent[w], k) = Lookup(subscriptions, k))
=============================================================================
