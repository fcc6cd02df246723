----------------------------- MODULE Awaitable ------------------------------
(***************************************************************************)
(* Coroutines: detail::UnaryAwaiter, Task and sync_wait()                  *)
(* (src/include/tinvest/awaitable.hpp) on top of asynchronous calls.       *)
(*                                                                         *)
(* One thread, Main, drives the task Root with sync_wait().  The body of a *)
(* task is the user's: it creates, awaits and drops other tasks, awaits    *)
(* RPCs, and returns or throws, in any order.  Each asynchronous call      *)
(* stands also for the gRPC thread that runs its callback.                 *)
(*                                                                         *)
(* The stack of a thread holds, innermost last,                            *)
(*   "run"      the body of a task, after resume() or a transfer to it     *)
(*   "suspend"  UnaryAwaiter::await_suspend() of a task, in start()        *)
(*   "final"    FinalAwaiter::await_suspend() of a task, before done()     *)
(* and "uses" tells whether the function will still touch the task's frame *)
(* (the promise, its locals and the awaiters live there).                  *)
(***************************************************************************)
EXTENDS AsyncCall, Integers, Sequences, FiniteSets

CONSTANTS
  Tasks,        \* the coroutine frames that can be created (a bound)
  Root,         \* the one passed to sync_wait()
  Main,         \* the thread that calls sync_wait()
  None          \* a null handle

ASSUME RootAssumption ==
  Root \in Tasks /\ Main \notin AsyncCalls /\ None \notin Tasks

ASSUME CallsAssumption == IsFiniteSet(AsyncCalls)

Threads == AsyncCalls \cup {Main}

VARIABLES
  frame,        \* coroutine frames, by task
  owner,        \* the task in whose frame the Task object lives
  continuation, \* promise_type::continuation
  outcome,      \* promise_type::value and ::exception
  result,       \* UnaryAwaiter::result_ of the RPC last awaited is engaged
  waiting,      \* calls: the task whose handle the callback has captured
  stack,        \* threads, see above
  pc,           \* of sync_wait()
  done          \* its semaphore

calls    == <<async, waiting>>
promises == <<owner, continuation, outcome>>
waiter   == <<pc, done>>
vars     == <<calls, frame, promises, result, stack, waiter>>

(* A Task has been returned by the coroutine (suspend_always). *)
Init ==
  /\ AsyncInit
  /\ frame = [f \in Tasks |-> IF f = Root THEN "created" ELSE "none"]
  /\ owner = [f \in Tasks |-> None]
  /\ continuation = [f \in Tasks |-> None]
  /\ outcome = [f \in Tasks |-> "none"]
  /\ result = [f \in Tasks |-> TRUE]
  /\ waiting = [c \in AsyncCalls |-> None]
  /\ stack = [t \in Threads |-> <<>>]
  /\ pc = "start" /\ done = "none"

-----------------------------------------------------------------------------
(* Stacks *)

Run(f) == [fn |-> "run", task |-> f, uses |-> TRUE]
FinalSuspend(f) == [fn |-> "final", task |-> f, uses |-> TRUE]

(* await_suspend() has moved start_ out of the frame before it calls it. *)
SuspendInPlace(f) == [fn |-> "suspend", task |-> f, uses |-> TRUE]  \* mutation
Suspend(f) == [fn |-> "suspend", task |-> f, uses |-> FALSE]

(* What takes the place of the body of f when a call of its is refused,    *)
(* when it awaits g, and when it is over.                                  *)
RefusedTwice(f) == <<Run(f), Run(f)>>                               \* mutation
Refused(f) == <<Suspend(f), Run(f)>>

AwaitsNested(f, g) == <<Suspend(f), Run(g)>>                        \* mutation
Awaits(f, g) == <<Run(g)>>

Final(f) ==
  <<IF continuation[f] # None THEN Run(continuation[f]) ELSE FinalSuspend(f)>>

(* The innermost function of a stack, and those it will return to. *)
Top(s)   == s[Len(s)]
Below(s) == SubSeq(s, 1, Len(s) - 1)

Innermost(t, a) == stack[t] # <<>> /\ Top(stack[t]) = a

(* The innermost function of t gives way to others, in a tail call. *)
Transfer(t, s) == stack' = [stack EXCEPT ![t] = Below(@) \o s]

(* The body of f executes on t. *)
Executes(t, f) == Innermost(t, Run(f)) /\ frame[f] = "running"

-----------------------------------------------------------------------------
(* sync_wait() *)

sync_wait ==
  /\ pc = "start"
  /\ pc' = "resume" /\ done' = "0"
  /\ frame' = [frame EXCEPT ![Root] = "running"]
  /\ stack' = [stack EXCEPT ![Main] = <<Run(Root)>>]
  /\ UNCHANGED <<calls, promises, result>>

(* resume() has returned to sync_wait(), and done.acquire() returns. *)
Unawaited == TRUE                                                   \* mutation
Signalled == done = "1"

Acquire ==
  /\ pc = "resume" /\ stack[Main] = <<>>
  /\ Signalled
  /\ pc' = "read" /\ done' = "0"
  /\ UNCHANGED <<calls, frame, promises, result, stack>>

(* The result is read from the promise; the semaphore and the Task go.     *)
SyncWaitReturns ==
  /\ pc = "read"
  /\ pc' = IF outcome[Root] = "exception" THEN "thrown" ELSE "returned"
  /\ done' = "destroyed"
  /\ frame' = [frame EXCEPT ![Root] = "destroyed"]
  /\ UNCHANGED <<calls, promises, result, stack>>

-----------------------------------------------------------------------------
(* co_await of an RPC: UnaryAwaiter *)

(* The callback: result_ first, then handle.resume(). *)
ResumedOnly(f) ==                                                   \* mutation
  /\ frame' = [frame EXCEPT ![f] = "running"]
  /\ result' = [result EXCEPT ![f] = FALSE]

Resumed(f) ==
  /\ frame' = [frame EXCEPT ![f] = "running"]
  /\ result' = [result EXCEPT ![f] = TRUE]

(* await_suspend(): the call is started, and the callback may come.        *)
AwaitRpc(t, f, c) ==
  /\ Executes(t, f)
  /\ StartRpc(c)
  /\ waiting' = [waiting EXCEPT ![c] = f]
  /\ frame' = [frame EXCEPT ![f] = "await_rpc"]
  /\ result' = [result EXCEPT ![f] = FALSE]
  /\ Transfer(t, <<Suspend(f)>>)
  /\ UNCHANGED <<promises, waiter>>

(* await_suspend(): the call is refused, and the callback resumes the task *)
(* inside start().                                                         *)
AwaitRefused(t, f, c) ==
  /\ Executes(t, f)
  /\ Refuse(c)
  /\ Resumed(f)
  /\ Transfer(t, Refused(f))
  /\ UNCHANGED <<waiting, promises, waiter>>

(* await_suspend() returns, whatever has become of the task meanwhile. *)
AwaitSuspendReturns(t, f) ==
  /\ \E uses \in BOOLEAN :
       Innermost(t, [fn |-> "suspend", task |-> f, uses |-> uses])
  /\ Transfer(t, <<>>)
  /\ UNCHANGED <<calls, frame, promises, result, waiter>>

(* The callback on the gRPC thread: result_ is set, the task resumed.      *)
Callback(c) ==
  /\ RpcDone(c)
  /\ Resumed(waiting[c])
  /\ stack' = [stack EXCEPT ![c] = <<Run(waiting[c])>>]
  /\ UNCHANGED <<waiting, promises, waiter>>

(* resume() returns to the callback, which returns to unary_async().       *)
CallbackReturns(c) ==
  /\ stack[c] = <<>>
  /\ DeleteState(c)
  /\ UNCHANGED <<waiting, frame, promises, result, stack, waiter>>

-----------------------------------------------------------------------------
(* co_await of a Task *)

(* A coroutine is called: get_return_object() and initial_suspend(). *)
CallCoroutine(t, f, g) ==
  /\ Executes(t, f)
  /\ frame[g] = "none"
  /\ frame' = [frame EXCEPT ![g] = "created"]
  /\ owner' = [owner EXCEPT ![g] = f]
  /\ UNCHANGED <<calls, continuation, outcome, result, stack, waiter>>

(* The awaiter of operator co_await() transfers to the awaited task. *)
AwaitTask(t, f, g) ==
  /\ Executes(t, f)
  /\ owner[g] = f /\ frame[g] = "created"
  /\ continuation' = [continuation EXCEPT ![g] = f]
  /\ frame' = [frame EXCEPT ![f] = "await_task", ![g] = "running"]
  /\ Transfer(t, Awaits(f, g))
  /\ UNCHANGED <<calls, owner, outcome, result, waiter>>

(* ~Task() or an assignment to it, in the body of the task that owns it:   *)
(* the awaited task has finished, or was never awaited.                    *)
DestroyTask(t, f, g) ==
  /\ Executes(t, f)
  /\ owner[g] = f /\ frame[g] \in {"created", "final"}
  /\ frame' = [frame EXCEPT ![g] = "destroyed"]
  /\ UNCHANGED <<calls, promises, result, stack, waiter>>

(* The body returns or throws when the scopes of its Task objects have     *)
(* ended: return_value() or unhandled_exception(), then final_suspend(),   *)
(* which transfers to the task that awaits this one, if there is one.      *)
Finish(t, f, how) ==
  /\ Executes(t, f)
  /\ \A g \in Tasks : owner[g] = f => frame[g] = "destroyed"
  /\ outcome' = [outcome EXCEPT ![f] = how]
  /\ frame' = [g \in Tasks |-> CASE g = f -> "final"
                                 [] g = continuation[f] -> "running"
                                 [] OTHER -> frame[g]]
  /\ Transfer(t, Final(f))
  /\ UNCHANGED <<calls, owner, continuation, result, waiter>>

(* done(): the semaphore is released; nothing of the frame is used after.  *)
NotReleased == "0"                                                  \* mutation
Released == "1"

OnComplete(t, f) ==
  /\ Innermost(t, FinalSuspend(f))
  /\ done' = Released
  /\ Transfer(t, <<>>)
  /\ UNCHANGED <<calls, frame, promises, result, pc>>

-----------------------------------------------------------------------------
(* The user's code in a task. *)
Body(t, f) ==
  \/ \E c \in AsyncCalls : AwaitRpc(t, f, c) \/ AwaitRefused(t, f, c)
  \/ \E g \in Tasks :
       CallCoroutine(t, f, g) \/ AwaitTask(t, f, g) \/ DestroyTask(t, f, g)
  \/ \E how \in {"value", "exception"} : Finish(t, f, how)

Step(t) ==
  \E f \in Tasks : Body(t, f) \/ AwaitSuspendReturns(t, f) \/ OnComplete(t, f)

Next ==
  \/ sync_wait \/ Acquire \/ SyncWaitReturns
  \/ \E t \in Threads : Step(t)
  \/ \E c \in AsyncCalls : Callback(c) \/ CallbackReturns(c)

Spec == Init /\ [][Next]_vars

-----------------------------------------------------------------------------
(* Safety *)

Alive(f) == frame[f] \notin {"none", "destroyed"}

(* No function that runs, on any thread, still uses a destroyed frame, and *)
(* the handles and references that will be used lead to living ones: the   *)
(* callback's task is suspended until it comes, a task's continuation      *)
(* until it finishes, and the promise and semaphore of sync_wait() are     *)
(* there until the root task has released it.                              *)
NoDanglingFrame ==
  /\ \A t \in Threads : \A i \in DOMAIN stack[t] :
       stack[t][i].uses => Alive(stack[t][i].task)
  /\ \A c \in AsyncCalls : async[c] = "started" => frame[waiting[c]] = "await_rpc"
  /\ \A f \in Tasks :
       /\ frame[f] \in {"running", "await_rpc", "await_task"} =>
            IF continuation[f] = None THEN f = Root /\ done = "0"
            ELSE frame[continuation[f]] = "await_task"
       /\ Alive(f) /\ owner[f] # None => Alive(owner[f])

(* Where the stacks hold the body of f: thread and depth. *)
Activations(f) ==
  {p \in Threads \X (1..(Cardinality(AsyncCalls) + 1)) :
     p[2] <= Len(stack[p[1]]) /\ stack[p[1]][p[2]] = Run(f)}

(* A task is executed by one thread at a time, although a gRPC thread may  *)
(* resume it before await_suspend() has returned on the thread it left.    *)
OneThreadPerTask ==
  \A f \in Tasks : Cardinality(Activations(f)) = IF frame[f] = "running" THEN 1 ELSE 0

(* What await_resume() reads is there: a task never goes on before the RPC *)
(* it awaits has left its result, or the task it awaits its outcome.       *)
ResultReady ==
  /\ \A f \in Tasks : frame[f] = "running" => result[f]
  /\ \A f \in Tasks : frame[f] = "final" => outcome[f] # "none"

(* When sync_wait() goes on, everything the task has started is over: only *)
(* the finished root task is left, until its result has been read, and no  *)
(* callback of an RPC is still to come.                                    *)
NothingLeftBehind ==
  pc \in {"read", "returned", "thrown"} =>
    /\ \A f \in Tasks : Alive(f) => f = Root /\ frame[f] = "final" /\ pc = "read"
    /\ \A c \in AsyncCalls : async[c] # "started"

(* Awaiting and finishing tasks does not nest on the stack (symmetric      *)
(* transfer); only a refused call resumes its task inside await_suspend(). *)
StackBounded ==
  \A t \in Threads :
    Len(stack[t]) <= 1 + Cardinality({c \in AsyncCalls : async[c] = "refused"})

-----------------------------------------------------------------------------
(* Liveness: an RPC ends, and threads that can run do run. *)
Fairness ==
  /\ WF_vars(Acquire) /\ WF_vars(SyncWaitReturns)
  /\ \A t \in Threads : WF_vars(Step(t))
  /\ \A c \in AsyncCalls : WF_vars(Callback(c)) /\ WF_vars(CallbackReturns(c))

FairSpec == Spec /\ Fairness

(* sync_wait() returns, on whatever threads the task was resumed.          *)
SyncWaitEnds == pc = "resume" ~> pc \in {"returned", "thrown"}
=============================================================================
