----------------------------- MODULE UnaryCall ------------------------------
(***************************************************************************)
(* Unary calls: detail::unary_sync() and detail::unary_async()             *)
(* (src/include/tinvest/detail/unary.hpp), which the service wrappers of   *)
(* services.hpp expand to, and Client::load_rate_limits(), composed with   *)
(* the RateLimiter they share.                                             *)
(*                                                                         *)
(* A thread is at pc                                                       *)
(*   "idle"       outside the SDK                                          *)
(*   "acquire"    about to call rate_limiter().acquire()                   *)
(*   "wait"       blocked in it                                            *)
(*   "call"       in the stub: the request is with the server              *)
(*   "sleep"      in sleep_for() before the next attempt                   *)
(*   "configure"  load_rate_limits() has the tariff                        *)
(* and an asynchronous call is "none", "started" (its State is on the      *)
(* heap), "callback" (the user's callback runs), "deleted" or "refused".   *)
(***************************************************************************)
EXTENDS RateLimiter

CONSTANTS
  max_attempts, on_rate_limit, on_unavailable, max_wait,    \* RetryPolicy
  Answers,      \* how an RPC may end
  Retries,      \* the values of CallOptions::retry in use
  AsyncCalls,   \* the asynchronous calls that are made (a bound)
  TariffMethod, \* UsersService/GetUserTariff
  TradingMethods \* PostOrder and its like

Codes == {"OK", "RESOURCE_EXHAUSTED", "UNAVAILABLE", "OTHER"}
RetryOptions == {"unset", "on", "off"}

(* What make_error() keeps of a finished call: its code, and the seconds   *)
(* of the header x-ratelimit-reset, -1 without it.                         *)
Outcome == [code : Codes, reset : Nat \cup {-1}]

ASSUME RetryPolicyAssumption ==
  /\ max_attempts \in Int /\ max_wait \in Int
  /\ on_rate_limit \in BOOLEAN /\ on_unavailable \in BOOLEAN

ASSUME AnswersAssumption ==
  /\ Answers \subseteq Outcome
  /\ Retries \subseteq RetryOptions
  /\ TariffMethod \in Methods /\ TradingMethods \subseteq Methods

VARIABLES
  pc,           \* threads, see above
  call,         \* threads: the locals of unary_sync()
  paid,         \* history: slots the current call got from the limiter
  async,        \* asynchronous calls, see above
  callbacks     \* history: where the callback of each ran, in order

unary == <<pc, call, paid, async, callbacks>>
vars == <<limiter, unary>>

(* err before the first failure. *)
NoError == [code |-> "OK", reset |-> -1]

NoCall ==
  [method |-> TariffMethod, retry |-> "unset", load |-> FALSE, attempt |-> 1,
   err |-> NoError, delay |-> 0]

MaxAttempts == IF max_attempts > 1 THEN max_attempts ELSE 1

-----------------------------------------------------------------------------
(* Blocking calls *)

retryable(c, err) ==
  /\ \/ err.code = "RESOURCE_EXHAUSTED" /\ on_rate_limit
     \/ err.code = "UNAVAILABLE" /\ on_unavailable
  /\ c.retry # "off"

(* The sleep before the next attempt, in milliseconds. *)
delayShort(err, attempt) ==                                 \* mutation
  IF err.code = "RESOURCE_EXHAUSTED" /\ err.reset < 0 THEN 1000 * attempt
  ELSE 100 * 2^(IF attempt - 1 < 8 THEN attempt - 1 ELSE 8)

delay(err, attempt) ==
  IF err.code = "RESOURCE_EXHAUSTED"
  THEN IF err.reset >= 0 THEN 1000 * err.reset + 200 ELSE 1000 * attempt
  ELSE 100 * 2^(IF attempt - 1 < 8 THEN attempt - 1 ELSE 8)

(* unary_sync() is entered, by the user or by load_rate_limits(). *)
Enter(t, m, retry, load) ==
  /\ pc[t] = "idle"
  /\ pc' = [pc EXCEPT ![t] = "acquire"]
  /\ call' = [call EXCEPT ![t] = [NoCall EXCEPT !.method = m, !.retry = retry,
                                                !.load = load]]
  /\ UNCHANGED <<limiter, paid, async, callbacks>>

unary_sync(t, m, retry) == Enter(t, m, retry, FALSE)
load_rate_limits(t) == Enter(t, TariffMethod, "unset", TRUE)

(* What follows the critical section of acquire(). *)
AfterAcquire(t) ==
  /\ pc' = [pc EXCEPT ![t] = IF status'[t] = "idle" THEN "call" ELSE "wait"]
  /\ paid' = [paid EXCEPT ![t] = IF status'[t] = "idle" THEN @ + 1 ELSE @]
  /\ UNCHANGED <<call, async, callbacks>>

Acquire(t) ==
  /\ pc[t] = "acquire"
  /\ acquire(t, <<0, call[t].method>>)
  /\ AfterAcquire(t)

AcquireWakes(t) == pc[t] = "wait" /\ AcquireAgain(t) /\ AfterAcquire(t)

(* unary_sync() returns. *)
Return(t) ==
  /\ pc' = [pc EXCEPT ![t] = "idle"]
  /\ call' = [call EXCEPT ![t] = NoCall]
  /\ paid' = [paid EXCEPT ![t] = 0]

(* The RPC succeeds. *)
CallSucceeds(t) ==
  /\ pc[t] = "call"
  /\ \E a \in Answers : a.code = "OK"
  /\ IF call[t].load
     THEN /\ pc' = [pc EXCEPT ![t] = "configure"]
          /\ UNCHANGED <<call, paid>>
     ELSE Return(t)
  /\ UNCHANGED <<limiter, async, callbacks>>

(* The RPC fails: unary_sync() returns the error or sleeps. *)
CallFails(t, err) ==
  LET c == call[t]
  IN  /\ pc[t] = "call" /\ err.code # "OK"
      /\ IF /\ retryable(c, err) /\ c.attempt < MaxAttempts
            /\ delay(err, c.attempt) <= max_wait
         THEN /\ pc' = [pc EXCEPT ![t] = "sleep"]
              /\ call' = [call EXCEPT ![t].err = err,
                                      ![t].delay = delay(err, c.attempt)]
              /\ UNCHANGED paid
         ELSE Return(t)
      /\ UNCHANGED <<limiter, async, callbacks>>

SleepOverNoSlot(t) ==                                       \* mutation
  /\ pc[t] = "sleep"
  /\ pc' = [pc EXCEPT ![t] = "call"]
  /\ call' = [call EXCEPT ![t].attempt = @ + 1]
  /\ UNCHANGED <<limiter, paid, async, callbacks>>

(* sleep_for() returns and the loop goes round. *)
SleepOver(t) ==
  /\ pc[t] = "sleep"
  /\ pc' = [pc EXCEPT ![t] = "acquire"]
  /\ call' = [call EXCEPT ![t].attempt = @ + 1]
  /\ UNCHANGED <<limiter, paid, async, callbacks>>

(* load_rate_limits() configures the limiter with the tariff it got. *)
Configure(t) ==
  /\ pc[t] = "configure"
  /\ \E tariff \in Tariffs : configure(tariff)
  /\ Return(t)
  /\ UNCHANGED <<async, callbacks>>

-----------------------------------------------------------------------------
(* Asynchronous calls *)

(* unary_async() gets a slot: the State is allocated and the RPC started. *)
AsyncStart(t, c, m) ==
  /\ pc[t] = "idle" /\ async[c] = "none"
  /\ TryAcquireGranted(t, <<0, m>>)
  /\ async' = [async EXCEPT ![c] = "started"]
  /\ UNCHANGED <<pc, call, paid, callbacks>>

(* It is refused: the callback runs at once, and there is no State. *)
AsyncRefusedGoesOn(t, c, m) ==                              \* mutation
  /\ pc[t] = "idle" /\ async[c] = "none"
  /\ TryAcquireRefused(t, <<0, m>>)
  /\ async' = [async EXCEPT ![c] = "started"]
  /\ callbacks' = [callbacks EXCEPT ![c] = Append(@, "caller")]
  /\ UNCHANGED <<pc, call, paid>>

AsyncRefused(t, c, m) ==
  /\ pc[t] = "idle" /\ async[c] = "none"
  /\ TryAcquireRefused(t, <<0, m>>)
  /\ async' = [async EXCEPT ![c] = "refused"]
  /\ callbacks' = [callbacks EXCEPT ![c] = Append(@, "caller")]
  /\ UNCHANGED <<pc, call, paid>>

AsyncDoneDeletesFirst(c) ==                                   \* mutation
  /\ async[c] = "started"
  /\ async' = [async EXCEPT ![c] = "deleted"]
  /\ callbacks' = [callbacks EXCEPT ![c] = Append(@, "worker")]
  /\ UNCHANGED <<limiter, pc, call, paid>>

(* The RPC ends on a gRPC thread: the callback, then delete st. *)
AsyncDone(c) ==
  /\ async[c] = "started"
  /\ async' = [async EXCEPT ![c] = "callback"]
  /\ callbacks' = [callbacks EXCEPT ![c] = Append(@, "worker")]
  /\ UNCHANGED <<limiter, pc, call, paid>>

AsyncDelete(c) ==
  /\ async[c] = "callback"
  /\ async' = [async EXCEPT ![c] = "deleted"]
  /\ UNCHANGED <<limiter, pc, call, paid, callbacks>>

-----------------------------------------------------------------------------
UnaryInit ==
  /\ Init
  /\ pc = [t \in Threads |-> "idle"]
  /\ call = [t \in Threads |-> NoCall]
  /\ paid = [t \in Threads |-> 0]
  /\ async = [c \in AsyncCalls |-> "none"]
  /\ callbacks = [c \in AsyncCalls |-> <<>>]

SyncStep(t) ==
  \/ Acquire(t) \/ AcquireWakes(t) \/ CallSucceeds(t)
  \/ \E a \in Answers : CallFails(t, a)
  \/ SleepOver(t) \/ Configure(t)

UnaryNext ==
  \/ \E t \in Threads :
       \/ \E m \in Methods, r \in Retries : unary_sync(t, m, r)
       \/ load_rate_limits(t)
       \/ SyncStep(t)
       \/ \E c \in AsyncCalls, m \in Methods : AsyncStart(t, c, m) \/ AsyncRefused(t, c, m)
       \/ SpuriousWakeup(t) /\ UNCHANGED unary
  \/ \E c \in AsyncCalls : AsyncDone(c) \/ AsyncDelete(c)
  \/ \E ms \in MethodSets, n \in Limits : set_limit(ms, n) /\ UNCHANGED unary
  \/ Tick /\ UNCHANGED unary

UnarySpec == UnaryInit /\ [][UnaryNext]_vars

-----------------------------------------------------------------------------
(* Safety *)

(* Every request sent, retries included, has taken a slot of its own,      *)
(* however long the thread was blocked or slept in between.                *)
EveryAttemptPaid ==
  \A t \in Threads :
    /\ pc[t] \in {"call", "sleep", "configure"} => paid[t] = call[t].attempt
    /\ pc[t] \in {"acquire", "wait"} => paid[t] = call[t].attempt - 1

(* A request is sent again only after an error the policy allows to retry, *)
(* not against opts.retry = false, not more often than max_attempts, not   *)
(* after more than max_wait and not before the server's window was reset.  *)
RetriesJustified ==
  \A t \in Threads :
    pc[t] \in {"acquire", "wait", "call"} /\ call[t].attempt > 1 =>
      /\ call[t].retry # "off"
      /\ call[t].attempt <= max_attempts /\ call[t].delay <= max_wait
      /\ \/ call[t].err.code = "UNAVAILABLE" /\ on_unavailable
         \/ /\ call[t].err.code = "RESOURCE_EXHAUSTED" /\ on_rate_limit
            /\ call[t].delay > 1000 * call[t].err.reset

(* The callback of an asynchronous call runs at most once, and exactly     *)
(* once when the call is over, whichever way it took: in the calling       *)
(* thread when the limiter refuses it, and otherwise on a gRPC thread.     *)
(* While gRPC still may complete the call, its State is alive and nothing  *)
(* was reported.                                                           *)
CallbackOnce ==
  \A c \in AsyncCalls :
    callbacks[c] = CASE async[c] \in {"none", "started"} -> <<>>
                     [] async[c] = "refused" -> <<"caller">>
                     [] OTHER -> <<"worker">>

(* Asynchronous calls keep the contract that coroutines rely on, however   *)
(* they interleave with each other and with the limiter: the State lives   *)
(* while the callback runs, and no step is taken twice.                    *)
Contract == INSTANCE AsyncCall

AsyncCallSpec == Contract!AsyncSpec

(* By default trading methods are not retried. *)
TradingNotRetried ==
  \A t \in Threads :
    call[t].method \in TradingMethods /\ call[t].retry = "unset" =>
      call[t].attempt = 1

-----------------------------------------------------------------------------
(* Liveness: time passes, threads that can run do run, and an RPC ends     *)
(* (answer, broken connection or, where one is set, deadline).             *)
UnaryFairness ==
  /\ WF_vars(Tick /\ UNCHANGED unary)
  /\ \A t \in Threads : WF_vars(SyncStep(t))
  /\ \A c \in AsyncCalls : WF_vars(AsyncDone(c)) /\ WF_vars(AsyncDelete(c))

UnaryFairSpec == UnarySpec /\ UnaryFairness

(* Calls come to an end.  A blocking call returns, retries included,       *)
(* unless others take the slots of the group it waits for again and again; *)
(* a started asynchronous call runs its callback, and its State is deleted.*)
CallsEnd ==
  /\ \A t \in Threads : <>[](pc[t] # "idle") => []<><<SlotTaken(t)>>_vars
  /\ \A c \in AsyncCalls : async[c] = "started" ~> async[c] = "deleted"
=============================================================================
