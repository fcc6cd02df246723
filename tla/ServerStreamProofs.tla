------------------------- MODULE ServerStreamProofs -------------------------
(*****************************************************************************)
(* The safety theorems of ServerStream, for every set of workers, when     *)
(* start() and stop() are called by one thread.                            *)
(*****************************************************************************)
EXTENDS ServerStream, StreamProofs, TLAPS

(* Most leaves are first-order; the ones that need more cite SMT. *)
USE Zenon

OneController == \A c, d \in Controllers : c = d

(* The inductive invariant.  Types of what the theorems speak of. *)
Types ==
  /\ ctx \in Ptr /\ worker \in Ptr
  /\ pc \in [Workers -> WorkerPcs]
  /\ cpc \in [Controllers -> {"idle", "join"}]
  /\ joining \in [Controllers -> Ptr]
  /\ call \in [Workers -> Call(Workers)]

(* A thread that exists is in worker_, or stop() is joining it; while      *)
(* stop() is under way there is none in worker_.                           *)
Owned ==
  /\ \A w \in Workers :
       pc[w] # "idle" => worker = w \/ \E c \in Controllers : joining[c] = w
  /\ \A c \in Controllers :
       /\ cpc[c] # "idle" => worker = None
       /\ cpc[c] = "idle" => joining[c] = None

(* ctx_, done_, the control point of a worker and its call agree. *)
CallShape(w) ==
  /\ ctx = w <=> InScope(w)
  /\ call[w].phase = "started" => pc[w] = "wait"
  /\ call[w].phase # "started" => call[w].rd \in {"none", "closed"}
  /\ pc[w] = "bind" => call[w].phase = "none"
  /\ InScope(w) => (done <=> call[w].phase = "done")

IInv == Types /\ Owned /\ \A w \in Workers : CallShape(w)

-----------------------------------------------------------------------------
LEMMA OneWorker ==
  ASSUME OneController, Owned,
         NEW v \in Workers, NEW w \in Workers, pc[v] # "idle", pc[w] # "idle"
  PROVE  v = w
BY SMT, NoneAssumption DEF OneController, Owned

(* A step of the worker w, or of a callback on its call: what it does to w *)
(* is all there is, because the other workers are idle.                    *)
OnlyWorker(w) ==
  /\ pc[w] # "idle" /\ pc'[w] \in WorkerPcs \ {"idle"}
  /\ call'[w] \in Call(Workers)
  /\ pc' = [pc EXCEPT ![w] = pc'[w]]
  /\ call' = [call EXCEPT ![w] = call'[w]]
  /\ ctx' \in {ctx, w, None}
  /\ UNCHANGED <<worker, cpc, joining>>

LEMMA WorkerKeeps ==
  ASSUME OneController, IInv, NEW w \in Workers, OnlyWorker(w), CallShape(w)'
  PROVE  IInv'
<1>1. Types'
  BY DEF IInv, Types, OnlyWorker, Ptr
<1>2. Owned'
  BY DEF IInv, Types, Owned, OnlyWorker
<1>3. ASSUME NEW v \in Workers, v # w PROVE CallShape(v)'
  <2>1. pc[v] = "idle"
    BY <1>3, OneWorker DEF IInv, OnlyWorker
  <2>2. ~InScope(v) /\ ctx # v /\ call[v].phase # "started"
    BY <2>1 DEF IInv, CallShape, InScope
  <2>3. ctx' # v
    BY <1>3, <2>2, NoneAssumption DEF OnlyWorker
  <2>4. pc'[v] = pc[v]
    BY <1>3 DEF OnlyWorker, IInv, Types
  <2>5. call'[v] = call[v]
    BY <1>3 DEF OnlyWorker, IInv, Types
  <2> QED BY <2>1, <2>2, <2>3, <2>4, <2>5 DEF IInv, CallShape, InScope
<1> QED BY <1>1, <1>2, <1>3 DEF IInv

(* run() and run_once() *)
LEMMA RunStep ==
  ASSUME OneController, IInv, NEW w \in Workers, Run(w)
  PROVE  IInv'
<1> USE DEF members, locals, opts
<1>i. Types /\ CallShape(w) /\ call[w] \in Call(Workers) /\ pc[w] \in WorkerPcs
  BY DEF IInv, Types
<1>1. ASSUME NEW from \in {"loop", "returned", "backoff"},
             NEW to \in {"connecting", "disconnected", "loop"},
             BreakOrGoOn(w, from, to)
      PROVE  IInv'
  <2>1. pc[w] = from /\ pc'[w] \in {"exit", to} /\ UNCHANGED <<ctx, done, call>>
    BY <1>i, <1>1 DEF BreakOrGoOn, Types
  <2>2. OnlyWorker(w)
    BY <1>i, <1>1, <2>1 DEF BreakOrGoOn, Types, OnlyWorker, WorkerPcs
  <2>3. CallShape(w)'
    BY <1>i, <2>1 DEF CallShape, InScope
  <2> QED BY <2>2, <2>3, WorkerKeeps
<1>2. ASSUME NEW from \in {"connecting", "exit", "disconnected"}, NEW state,
             NEW to \in {"setup", "finished", "backoff", "exit"},
             notify(w, from, state, to)
      PROVE  IInv'
  <2>1. pc[w] = from /\ pc'[w] = to /\ UNCHANGED <<ctx, done, call>>
    BY <1>i, <1>2 DEF notify, Types
  <2>2. OnlyWorker(w)
    BY <1>i, <1>2, <2>1 DEF notify, Types, OnlyWorker, WorkerPcs
  <2>3. CallShape(w)'
    BY <1>i, <2>1 DEF CallShape, InScope
  <2> QED BY <2>2, <2>3, WorkerKeeps
<1>3. CASE RunCheck(w) \/ RunReturned(w) \/ BackoffOver(w)
  BY <1>1, <1>3 DEF RunCheck, RunReturned, BackoffOver
<1>4. CASE NotifyConnecting(w) \/ NotifyStopped(w) \/ NotifyDisconnected(w)
  BY <1>2, <1>4
  DEF NotifyConnecting, NotifyStopped, NotifyDisconnected, AfterBreak
<1>5. CASE RunOnceCancelled(w)
  <2>1. pc[w] = "setup" /\ pc'[w] = "returned" /\ UNCHANGED <<ctx, done, call>>
    BY <1>i, <1>5 DEF RunOnceCancelled, Types
  <2>2. OnlyWorker(w)
    BY <1>i, <1>5, <2>1 DEF RunOnceCancelled, Types, OnlyWorker, WorkerPcs
  <2>3. CallShape(w)'
    BY <1>i, <2>1 DEF CallShape, InScope
  <2> QED BY <2>2, <2>3, WorkerKeeps
<1>6. CASE RunOnceSetup(w)
  <2>1. pc[w] = "setup" /\ pc'[w] = "bind" /\ call'[w] = NewCall /\ ctx' = w /\ ~done'
    BY <1>i, <1>6 DEF RunOnceSetup, Types
  <2>2. OnlyWorker(w)
    BY <1>i, <1>6, <2>1, NewCallType DEF RunOnceSetup, Types, OnlyWorker, WorkerPcs
  <2>3. CallShape(w)'
    BY <2>1, NewCallFields DEF CallShape, InScope
  <2> QED BY <2>2, <2>3, WorkerKeeps
<1>7. CASE RunOnceBegin(w)
  <2>1. /\ pc[w] = "bind" /\ pc'[w] = "wait" /\ call'[w] = StartCall(call[w], 0)
        /\ UNCHANGED <<ctx, done>>
    BY <1>i, <1>7 DEF RunOnceBegin, Types
  <2>2. OnlyWorker(w)
    BY <1>i, <1>7, <2>1, StartFields DEF RunOnceBegin, Types, OnlyWorker, WorkerPcs
  <2>3. CallShape(w)'
    BY <1>i, <2>1, StartFields DEF CallShape, InScope
  <2> QED BY <2>2, <2>3, WorkerKeeps
<1>8. CASE RunOnceReturn(w)
  <2>1. /\ pc[w] = "wait" /\ pc'[w] = "returned" /\ done /\ ctx' = None
        /\ UNCHANGED <<done, call>>
    BY <1>i, <1>8 DEF RunOnceReturn, Types
  <2>2. OnlyWorker(w)
    BY <1>i, <1>8, <2>1 DEF RunOnceReturn, Types, OnlyWorker, WorkerPcs
  <2>3. CallShape(w)'
    BY <1>i, <2>1, NoneAssumption DEF CallShape, InScope
  <2> QED BY <2>2, <2>3, WorkerKeeps
<1> QED BY <1>3, <1>4, <1>5, <1>6, <1>7, <1>8 DEF Run

(* The callbacks, and a break of the call *)
LEMMA CallStep ==
  ASSUME OneController, IInv, NEW w \in Workers, CallBreaks(w) \/ Callback(w)
  PROVE  IInv'
<1> USE DEF members, locals, opts
<1>i. Types /\ CallShape(w) /\ call[w] \in Call(Workers)
  BY DEF IInv, Types
<1>s. call[w].phase = "started" /\ pc[w] = "wait" /\ ctx = w /\ ~done
  <2>1. call[w].phase = "started" \/ call[w].rd \in {"notify", "filter", "dispatch"}
    BY DEF CallBreaks, Callback, OnReadDone, NotifyConnected, Filter, Dispatch,
           OnReadClosed, OnDone, MayFinish
  <2> QED BY <1>i, <2>1 DEF CallShape, InScope
<1>1. ASSUME NEW k \in Call(Workers), call' = [call EXCEPT ![w] = k],
             k.phase = "started", UNCHANGED <<members, locals>>
      PROVE  IInv'
  <2>1. call'[w] = k
    BY <1>i, <1>1 DEF Types
  <2>2. OnlyWorker(w)
    BY <1>i, <1>s, <1>1, <2>1 DEF OnlyWorker, Types, WorkerPcs
  <2>3. CallShape(w)'
    BY <1>s, <1>1, <2>1 DEF CallShape, InScope
  <2> QED BY <2>2, <2>3, WorkerKeeps
<1>2. CASE CallBreaks(w)
  <2>1. TryCancel(call[w]) \in Call(Workers)
    BY <1>i, CallOpsType
  <2>2. TryCancel(call[w]).phase = "started"
    BY SMT, <1>i, <1>s, CallFields DEF SameBut
  <2> QED BY <1>1, <1>2, <2>1, <2>2 DEF CallBreaks
<1>3. ASSUME NEW rd \in ReadStates, UNCHANGED <<members, locals>>,
             \/ call' = [call EXCEPT ![w] = ReadMessage(call[w], rd)]
             \/ call' = [call EXCEPT ![w] = ReadGoesOn(call[w], rd)]
      PROVE  IInv'
  <2>1. ReadMessage(call[w], rd) \in Call(Workers) /\ ReadGoesOn(call[w], rd) \in Call(Workers)
    BY <1>i, <1>3, CallOpsType
  <2>2. ReadMessage(call[w], rd).phase = "started" /\ ReadGoesOn(call[w], rd).phase = "started"
    BY SMT, <1>i, <1>s, CallbackFields DEF SameBut
  <2> QED BY <1>1, <1>3, <2>1, <2>2
<1>4. CASE OnReadDone(w) \/ NotifyConnected(w) \/ Filter(w) \/ Dispatch(w) \/ OnReadClosed(w)
  BY <1>3, <1>4
  DEF OnReadDone, NotifyConnected, Filter, Dispatch, OnReadClosed, ReadStates
<1>5. CASE OnDone(w)
  <2>1. /\ call'[w] = Finish(call[w]) /\ done' /\ UNCHANGED <<ctx, pc>>
        /\ call[w].rd = "closed"
    BY <1>i, <1>5 DEF OnDone, MayFinish, Types
  <2>2. call'[w] \in Call(Workers)
    BY <1>i, <2>1, CallOpsType
  <2>3. call'[w].phase = "done" /\ call'[w].rd = "closed"
    BY SMT, <1>i, <2>1, CallFields DEF SameBut
  <2>4. OnlyWorker(w)
    BY <1>i, <1>s, <1>5, <2>1, <2>2 DEF OnDone, OnlyWorker, Types, WorkerPcs
  <2>5. CallShape(w)'
    BY <1>s, <2>1, <2>3 DEF CallShape, InScope
  <2> QED BY <2>4, <2>5, WorkerKeeps
<1> QED BY <1>2, <1>4, <1>5 DEF Callback

(* start(), stop() and the factories *)
LEMMA ControlStep ==
  ASSUME OneController, IInv, NEW c \in Controllers, Control(c)
  PROVE  IInv'
<1> USE DEF members, locals, opts
<1>1. ASSUME StartWorker(c) PROVE IInv'
  <2>1. PICK w \in Workers : /\ pc[w] = "idle" /\ worker' = w
                             /\ pc' = [pc EXCEPT ![w] = "loop"]
    BY <1>1 DEF StartWorker
  <2>2. UNCHANGED <<ctx, done, call, cpc, joining>> /\ cpc[c] = "idle"
    BY <1>1 DEF StartWorker
  <2>3. Types'
    BY <2>1, <2>2 DEF IInv, Types, Ptr, WorkerPcs
  <2>4. Owned'
    BY SMT, <1>1, <2>1, <2>2, NoneAssumption
    DEF IInv, Types, Owned, OneController, StartWorker
  <2>5. ASSUME NEW v \in Workers PROVE CallShape(v)'
    BY <2>1, <2>2 DEF IInv, Types, CallShape, InScope
  <2> QED BY <2>3, <2>4, <2>5 DEF IInv
<1>2. CASE start(c) \/ make_stream(c)
  BY <1>1, <1>2 DEF start, make_stream
<1>3. CASE set_ping_filter(c)
  BY <1>3 DEF set_ping_filter, IInv, Types, Owned, CallShape, InScope
<1>4. CASE StopLocked(c)
  <2>1. \A w \in Workers : call'[w] = call[w] \/ call'[w] = TryCancel(call[w])
    BY <1>4 DEF StopLocked, ContextCancelled, IInv, Types
  <2>2. ASSUME NEW w \in Workers
        PROVE  call'[w].phase = call[w].phase /\ call'[w].rd = call[w].rd
    <3>1. call[w] \in Call(Workers)
      BY DEF IInv, Types
    <3>2. SameBut(call[w], TryCancel(call[w]), {})
      BY <3>1, CallFields
    <3>3. TryCancel(call[w]).phase = call[w].phase /\ TryCancel(call[w]).rd = call[w].rd
      BY SMT, <3>2 DEF SameBut
    <3> QED BY <2>1, <3>3
  <2>3. call' \in [Workers -> Call(Workers)]
    BY <1>4, CallOpsType DEF StopLocked, ContextCancelled, IInv, Types
  <2>4. Types'
    BY <1>4, <2>3 DEF StopLocked, IInv, Types, Ptr
  <2>5. Owned'
    BY SMT, <1>4, NoneAssumption DEF StopLocked, IInv, Types, Owned, OneController
  <2>6. ASSUME NEW v \in Workers PROVE CallShape(v)'
    BY <1>4, <2>2 DEF StopLocked, IInv, CallShape, InScope
  <2> QED BY <2>4, <2>5, <2>6 DEF IInv
<1>5. CASE StopJoin(c)
  <2>1. /\ \A w \in Workers : pc'[w] = IF w = joining[c] THEN "idle" ELSE pc[w]
        /\ \A w \in Workers : w = joining[c] => pc[w] = "finished"
        /\ UNCHANGED <<ctx, done, call, worker>>
    BY <1>5, NoneAssumption DEF StopJoin, IInv, Types
  <2>2. Types'
    BY SMT, <1>5, <2>1 DEF StopJoin, IInv, Types, Ptr, WorkerPcs
  <2>3. Owned'
    BY SMT, <1>5 DEF StopJoin, IInv, Types, Owned, OneController
  <2>4. ASSUME NEW v \in Workers PROVE CallShape(v)'
    BY <2>1 DEF IInv, CallShape, InScope
  <2> QED BY <2>2, <2>3, <2>4 DEF IInv
<1> QED BY <1>2, <1>3, <1>4, <1>5 DEF Control

-----------------------------------------------------------------------------
LEMMA IInvHolds ==
  ASSUME OneController
  PROVE  Spec => []IInv
<1>1. ASSUME Init PROVE IInv
  <2>1. Types
    BY <1>1, NewCallType DEF Init, Types, Ptr, WorkerPcs
  <2>2. Owned
    BY <1>1 DEF Init, Owned
  <2>3. ASSUME NEW w \in Workers PROVE CallShape(w)
    BY <1>1, NewCallFields, NoneAssumption DEF Init, CallShape, InScope
  <2> QED BY <2>1, <2>2, <2>3 DEF IInv
<1>2. ASSUME IInv, [Next]_vars PROVE IInv'
  <2>1. CASE UNCHANGED vars
    BY <1>2, <2>1
    DEF vars, members, locals, IInv, Types, Owned, CallShape, InScope
  <2> QED BY <1>2, <2>1, ControlStep, RunStep, CallStep DEF Next
<1> QED BY <1>1, <1>2, PTL DEF Spec

(* No callback and no stop() can reach a context or reactor that           *)
(* run_once() has destroyed: it keeps its frame (lines 141-157) until      *)
(* OnDone, after which gRPC makes no callback.                             *)
THEOREM NoDangling ==
  ASSUME OneController
  PROVE  Spec => []NoDanglingPointer
<1>1. ASSUME IInv PROVE NoDanglingPointer
  BY <1>1 DEF IInv, Types, Ptr, CallShape, InScope, NoDanglingPointer
<1> QED BY <1>1, IInvHolds, PTL

(* Once stop() has returned, and until the next start(), the callbacks of  *)
(* the user are not called and gRPC is left alone.                         *)
THEOREM Quiet ==
  ASSUME OneController
  PROVE  Spec => QuietAfterStop
<1>1. ASSUME IInv, [Next]_vars
      PROVE  [Stopped => UNCHANGED <<notified, call>>]_vars
  <2> SUFFICES ASSUME Stopped, Next PROVE UNCHANGED <<notified, call>>
    BY <1>1 DEF vars
  <2>1. ASSUME NEW w \in Workers
        PROVE  /\ pc[w] = "idle" /\ call[w].phase # "started"
               /\ call[w].rd \in {"none", "closed"}
    <3>1. pc[w] = "idle"
      BY <1>1, NoneAssumption DEF Stopped, IInv, Owned
    <3> QED BY <1>1, <3>1 DEF IInv, CallShape
  <2>2. ctx = None
    BY <1>1, <2>1 DEF IInv, Types, Ptr, CallShape, InScope
  <2>3. ASSUME NEW c \in Controllers, Control(c) PROVE UNCHANGED <<notified, call>>
    BY <2>2, <2>3 DEF Stopped, Control, start, make_stream, StartWorker,
         set_ping_filter, StopLocked, ContextCancelled, StopJoin
  <2>4. ASSUME NEW w \in Workers, Run(w) PROVE FALSE
    BY <2>1, <2>4 DEF Run, RunCheck, RunReturned, BackoffOver, BreakOrGoOn, notify,
         NotifyConnecting, NotifyStopped, NotifyDisconnected, RunOnceCancelled,
         RunOnceSetup, RunOnceBegin, RunOnceReturn
  <2>5. ASSUME NEW w \in Workers, CallBreaks(w) \/ Callback(w) PROVE FALSE
    BY <2>1, <2>5 DEF CallBreaks, Callback, OnReadDone, NotifyConnected, Filter,
         Dispatch, OnReadClosed, OnDone, MayFinish
  <2> QED BY <2>3, <2>4, <2>5 DEF Next
<1> QED BY <1>1, IInvHolds, PTL DEF Spec, QuietAfterStop

-----------------------------------------------------------------------------
(* The order of the notifications: StreamLifecycle *)

(* What on_state_ was last told follows from the control point of the      *)
(* worker and, while a call is open, from got_data_ and the read.          *)
ToldBy(w) ==
  /\ pc[w] \in {"loop", "connecting"} => notified \in {"none", "disconnected", "stopped"}
  /\ pc[w] \in {"setup", "bind"} => notified = "connecting" /\ ~got_data
  /\ pc[w] = "wait" =>
       /\ call[w].rd \in {"notify", "filter", "dispatch"} => got_data
       /\ notified = IF got_data /\ call[w].rd # "notify" THEN "connected" ELSE "connecting"
  /\ pc[w] \in {"returned", "disconnected"} => notified \in {"connecting", "connected"}
  /\ pc[w] = "backoff" => notified = "disconnected"
  /\ pc[w] = "finished" => notified = "stopped"

Told ==
  /\ \A w \in Workers : ToldBy(w)
  /\ (\A w \in Workers : pc[w] = "idle") => notified \in {"none", "stopped"}

Handling == \E w \in Workers : call[w].rd = "dispatch"

(* What a step of the worker w or of a callback on its call says of w, it  *)
(* says of the stream.                                                     *)
LEMMA WorkerTold ==
  ASSUME OneController, IInv, Told, NEW w \in Workers,
         pc[w] # "idle", pc'[w] # "idle", ToldBy(w)',
         \A v \in Workers : v # w => pc'[v] = pc[v] /\ call'[v] = call[v]
  PROVE  /\ Told'
         /\ Handling = (call[w].rd = "dispatch")
         /\ Handling' = (call'[w].rd = "dispatch")
<1>1. ASSUME NEW v \in Workers, v # w
      PROVE  pc'[v] = "idle" /\ call[v].rd # "dispatch" /\ call'[v].rd # "dispatch"
  <2>1. pc[v] = "idle"
    BY <1>1, OneWorker DEF IInv
  <2>2. call[v].rd \in {"none", "closed"}
    BY <2>1 DEF IInv, CallShape
  <2> QED BY <1>1, <2>1, <2>2
<1>2. Told'
  BY <1>1 DEF Told, ToldBy
<1> QED BY <1>1, <1>2 DEF Handling

LEMMA RunTold ==
  ASSUME OneController, IInv, Told, NEW w \in Workers, Run(w)
  PROVE  Told' /\ [Lifecycle!Next]_<<notified, Handling>>
<1> USE DEF members, locals, opts
<1>i. Types /\ ToldBy(w) /\ CallShape(w)
  BY DEF IInv, Told
<1>1. ASSUME pc[w] \in WorkerPcs \ {"idle"}, NEW to \in WorkerPcs \ {"idle"},
             pc' = [pc EXCEPT ![w] = to], ToldBy(w)', UNCHANGED call
      PROVE  Told' /\ Handling = (call[w].rd = "dispatch") /\ UNCHANGED Handling
  <2>1. pc'[w] # "idle" /\ \A v \in Workers : v # w => pc'[v] = pc[v] /\ call'[v] = call[v]
    BY <1>i, <1>1 DEF Types
  <2> QED BY <1>1, <2>1, WorkerTold
<1>2. ASSUME NEW from \in {"loop", "returned", "backoff"},
             NEW to \in {"connecting", "disconnected", "loop"},
             BreakOrGoOn(w, from, to),
             <<from, to>> \in {<<"loop", "connecting">>, <<"returned", "disconnected">>,
                               <<"backoff", "loop">>}
      PROVE  Told' /\ UNCHANGED <<notified, Handling>>
  <2>1. /\ pc[w] = from /\ pc'[w] \in {"exit", to} /\ UNCHANGED <<notified, got_data, call>>
        /\ pc' = [pc EXCEPT ![w] = IF stopping THEN "exit" ELSE to]
    BY <1>i, <1>2 DEF BreakOrGoOn, Types
  <2>2. ToldBy(w)'
    BY <1>i, <1>2, <2>1, SMT DEF ToldBy
  <2>3. pc[w] \in WorkerPcs \ {"idle"} /\ (IF stopping THEN "exit" ELSE to) \in WorkerPcs \ {"idle"}
    BY <2>1 DEF WorkerPcs
  <2> QED BY <1>1, <2>1, <2>2, <2>3
<1>3. CASE RunCheck(w) \/ RunReturned(w) \/ BackoffOver(w)
  BY <1>2, <1>3 DEF RunCheck, RunReturned, BackoffOver
<1>4. CASE NotifyConnecting(w)
  <2>1. /\ pc[w] = "connecting" /\ pc' = [pc EXCEPT ![w] = "setup"] /\ pc'[w] = "setup"
        /\ notified' = "connecting" /\ ~got_data' /\ UNCHANGED call
    BY <1>i, <1>4 DEF NotifyConnecting, notify, Types
  <2>2. ToldBy(w)' /\ notified \in {"none", "disconnected", "stopped"}
    BY <1>i, <2>1 DEF ToldBy
  <2>3. call[w].rd # "dispatch"
    BY <1>i, <2>1 DEF CallShape
  <2>4. Told' /\ ~Handling /\ ~Handling'
    BY <1>1, <2>1, <2>2, <2>3 DEF WorkerPcs
  <2> QED BY <2>1, <2>2, <2>4 DEF Handling, Lifecycle!Next, Lifecycle!Connecting
<1>5. CASE NotifyStopped(w)
  <2>1. /\ pc[w] = "exit" /\ pc' = [pc EXCEPT ![w] = "finished"] /\ pc'[w] = "finished"
        /\ notified' = "stopped" /\ UNCHANGED <<call, got_data>>
    BY <1>i, <1>5 DEF NotifyStopped, notify, Types
  <2>2. ToldBy(w)'
    BY <2>1 DEF ToldBy
  <2>3. call[w].rd # "dispatch"
    BY <1>i, <2>1 DEF CallShape
  <2>4. Told' /\ ~Handling /\ ~Handling'
    BY <1>1, <2>1, <2>2, <2>3 DEF WorkerPcs
  <2> QED BY <2>1, <2>4 DEF Handling, Lifecycle!Next, Lifecycle!Stopped
<1>6. CASE NotifyDisconnected(w)
  <2>1. PICK to : to = AfterBreak(reconnect)
    OBVIOUS
  <2>2. to \in {"backoff", "exit"}
    BY <2>1 DEF AfterBreak
  <2>3. /\ pc[w] = "disconnected" /\ pc' = [pc EXCEPT ![w] = to] /\ pc'[w] = to
        /\ notified' = "disconnected" /\ UNCHANGED <<call, got_data>>
    BY <1>i, <1>6, <2>1 DEF NotifyDisconnected, notify, Types
  <2>4. ToldBy(w)' /\ notified \in {"connecting", "connected"}
    BY <1>i, <2>2, <2>3 DEF ToldBy
  <2>5. call[w].rd # "dispatch"
    BY <1>i, <2>3 DEF CallShape
  <2>6. Told' /\ ~Handling /\ ~Handling'
    BY <1>1, <2>2, <2>3, <2>4, <2>5 DEF WorkerPcs
  <2> QED BY <2>3, <2>4, <2>6 DEF Handling, Lifecycle!Next, Lifecycle!Disconnected
<1>7. CASE RunOnceCancelled(w)
  <2>1. /\ pc[w] = "setup" /\ pc' = [pc EXCEPT ![w] = "returned"] /\ pc'[w] = "returned"
        /\ UNCHANGED <<notified, got_data, call>>
    BY <1>i, <1>7 DEF RunOnceCancelled, Types
  <2>2. ToldBy(w)'
    BY <1>i, <2>1 DEF ToldBy
  <2> QED BY <1>1, <2>1, <2>2 DEF WorkerPcs
<1>8. CASE RunOnceReturn(w)
  <2>1. /\ pc[w] = "wait" /\ pc' = [pc EXCEPT ![w] = "returned"] /\ pc'[w] = "returned"
        /\ UNCHANGED <<notified, got_data, call>>
    BY <1>i, <1>8 DEF RunOnceReturn, Types
  <2>2. ToldBy(w)'
    BY <1>i, <2>1 DEF ToldBy
  <2> QED BY <1>1, <2>1, <2>2 DEF WorkerPcs
<1>9. ASSUME NEW k, call' = [call EXCEPT ![w] = k], k.rd # "dispatch", call[w].rd # "dispatch",
             pc[w] # "idle", NEW to \in WorkerPcs \ {"idle"}, pc' = [pc EXCEPT ![w] = to],
             ToldBy(w)'
      PROVE  Told' /\ UNCHANGED Handling
  <2>1. /\ pc'[w] # "idle" /\ call'[w].rd # "dispatch"
        /\ \A v \in Workers : v # w => pc'[v] = pc[v] /\ call'[v] = call[v]
    BY <1>i, <1>9 DEF Types
  <2> QED BY <1>9, <2>1, WorkerTold
<1>10. CASE RunOnceSetup(w)
  <2>1. /\ pc[w] = "setup" /\ pc' = [pc EXCEPT ![w] = "bind"] /\ pc'[w] = "bind"
        /\ call' = [call EXCEPT ![w] = NewCall] /\ UNCHANGED <<notified, got_data>>
    BY <1>i, <1>10 DEF RunOnceSetup, Types
  <2>2. ToldBy(w)'
    BY <1>i, <2>1 DEF ToldBy
  <2>3. call[w].rd # "dispatch" /\ NewCall.rd # "dispatch"
    BY <1>i, <2>1, NewCallFields DEF CallShape
  <2> QED BY <1>9, <2>1, <2>2, <2>3 DEF WorkerPcs
<1>11. CASE RunOnceBegin(w)
  <2>1. /\ pc[w] = "bind" /\ pc' = [pc EXCEPT ![w] = "wait"] /\ pc'[w] = "wait"
        /\ call' = [call EXCEPT ![w] = StartCall(call[w], 0)]
        /\ call'[w] = StartCall(call[w], 0) /\ UNCHANGED <<notified, got_data>>
    BY <1>i, <1>11 DEF RunOnceBegin, Types
  <2>2. call[w].rd # "dispatch" /\ StartCall(call[w], 0).rd = "pending"
    BY <1>i, <2>1, StartFields DEF CallShape, Types
  <2>3. ToldBy(w)'
    BY <1>i, <2>1, <2>2 DEF ToldBy
  <2> QED BY <1>9, <2>1, <2>2, <2>3 DEF WorkerPcs
<1> QED BY <1>3, <1>4, <1>5, <1>6, <1>7, <1>8, <1>10, <1>11 DEF Run

LEMMA CallTold ==
  ASSUME OneController, IInv, Told, NEW w \in Workers, CallBreaks(w) \/ Callback(w)
  PROVE  Told' /\ [Lifecycle!Next]_<<notified, Handling>>
<1> USE DEF members, locals, opts
<1>i. Types /\ ToldBy(w) /\ CallShape(w) /\ call[w] \in Call(Workers)
  BY DEF IInv, Types, Told
<1>s. call[w].phase = "started" /\ pc[w] = "wait"
  <2>1. call[w].phase = "started" \/ call[w].rd \in {"notify", "filter", "dispatch"}
    BY DEF CallBreaks, Callback, OnReadDone, NotifyConnected, Filter, Dispatch,
           OnReadClosed, OnDone, MayFinish
  <2> QED BY <1>i, <2>1 DEF CallShape, InScope
<1>t. /\ call[w].rd \in {"notify", "filter", "dispatch"} => got_data
      /\ notified = IF got_data /\ call[w].rd # "notify" THEN "connected" ELSE "connecting"
  BY <1>i, <1>s DEF ToldBy
<1>1. ASSUME NEW k, call' = [call EXCEPT ![w] = k], UNCHANGED pc,
             k.rd \in {"notify", "filter", "dispatch"} => got_data',
             notified' = IF got_data' /\ k.rd # "notify" THEN "connected" ELSE "connecting"
      PROVE  /\ Told' /\ Handling = (call[w].rd = "dispatch")
             /\ Handling' = (k.rd = "dispatch")
  <2>1. call'[w] = k /\ \A v \in Workers : v # w => pc'[v] = pc[v] /\ call'[v] = call[v]
    BY <1>i, <1>1 DEF Types
  <2>2. ToldBy(w)'
    BY <1>s, <1>1, <2>1 DEF ToldBy
  <2> QED BY <1>s, <1>1, <2>1, <2>2, WorkerTold
<1>2. CASE CallBreaks(w)
  <2>1. TryCancel(call[w]).rd = call[w].rd
    BY SMT, <1>i, CallFields DEF SameBut
  <2> QED BY <1>1, <1>2, <1>t, <2>1 DEF CallBreaks
<1>3. CASE OnReadDone(w)
  <2>1. PICK rd : rd = IF got_data THEN "filter" ELSE "notify"
    OBVIOUS
  <2>2. ReadMessage(call[w], rd).rd = rd
    BY <1>i, CallbackFields
  <2>3. /\ call' = [call EXCEPT ![w] = ReadMessage(call[w], rd)] /\ got_data' = TRUE
        /\ call[w].rd = "pending" /\ UNCHANGED <<pc, notified>>
    BY <1>3, <2>1 DEF OnReadDone
  <2>4. notified' = IF got_data' /\ rd # "notify" THEN "connected" ELSE "connecting"
    BY <1>t, <2>1, <2>3
  <2>5. Told' /\ Handling = FALSE /\ Handling' = FALSE
    BY <1>1, <2>1, <2>2, <2>3, <2>4
  <2> QED BY <2>3, <2>5
<1>4. CASE NotifyConnected(w)
  <2>1. ReadGoesOn(call[w], "filter").rd = "filter"
    BY <1>i, CallbackFields
  <2>2. /\ call' = [call EXCEPT ![w] = ReadGoesOn(call[w], "filter")] /\ UNCHANGED <<pc, got_data>>
        /\ call[w].rd = "notify" /\ notified' = "connected"
    BY <1>4 DEF NotifyConnected
  <2>3. notified = "connecting" /\ got_data
    BY <1>t, <2>2
  <2>4. Told' /\ Handling = FALSE /\ Handling' = FALSE
    BY <1>1, <2>1, <2>2, <2>3
  <2> QED BY <2>2, <2>3, <2>4 DEF Handling, Lifecycle!Next, Lifecycle!Connected
<1>5. CASE Filter(w)
  <2>1. PICK ping \in BOOLEAN :
          call' = [call EXCEPT ![w] =
                     ReadGoesOn(call[w], IF is_ping /\ ping THEN "pending" ELSE "dispatch")]
    BY <1>5 DEF Filter
  <2>2. PICK rd : rd = IF is_ping /\ ping THEN "pending" ELSE "dispatch"
    OBVIOUS
  <2>3. ReadGoesOn(call[w], rd).rd = rd
    BY <1>i, CallbackFields
  <2>4. call[w].rd = "filter" /\ UNCHANGED <<pc, got_data, notified>>
    BY <1>5 DEF Filter
  <2>5. notified = "connected" /\ got_data
    BY <1>t, <2>4
  <2>6. Told' /\ Handling = FALSE /\ Handling' = (rd = "dispatch")
    BY <1>1, <2>1, <2>2, <2>3, <2>4, <2>5
  <2>7. CASE rd = "pending"
    BY <2>4, <2>6, <2>7
  <2>8. CASE rd = "dispatch"
    BY <2>4, <2>5, <2>6, <2>8 DEF Handling, Lifecycle!Next, Lifecycle!BeginHandling
  <2> QED BY <2>2, <2>7, <2>8
<1>6. CASE Dispatch(w)
  <2>1. ReadGoesOn(call[w], "pending").rd = "pending"
    BY <1>i, CallbackFields
  <2>2. /\ call' = [call EXCEPT ![w] = ReadGoesOn(call[w], "pending")]
        /\ call[w].rd = "dispatch" /\ UNCHANGED <<pc, got_data, notified>>
    BY <1>6 DEF Dispatch
  <2>3. Told' /\ Handling = TRUE /\ Handling' = FALSE
    BY <1>1, <1>t, <2>1, <2>2
  <2> QED BY <2>2, <2>3 DEF Handling, Lifecycle!Next, Lifecycle!EndHandling
<1>7. CASE OnReadClosed(w)
  <2>1. ReadGoesOn(call[w], "closed").rd = "closed"
    BY <1>i, CallbackFields
  <2>2. /\ call' = [call EXCEPT ![w] = ReadGoesOn(call[w], "closed")]
        /\ call[w].rd = "pending" /\ UNCHANGED <<pc, got_data, notified>>
    BY <1>7 DEF OnReadClosed
  <2>3. Told' /\ Handling = FALSE /\ Handling' = FALSE
    BY <1>1, <1>t, <2>1, <2>2
  <2> QED BY <2>2, <2>3
<1>8. CASE OnDone(w)
  <2>1. Finish(call[w]).rd = call[w].rd
    BY SMT, <1>i, CallFields DEF SameBut
  <2> QED BY <1>1, <1>8, <1>t, <2>1 DEF OnDone
<1> QED BY <1>2, <1>3, <1>4, <1>5, <1>6, <1>7, <1>8 DEF Callback

LEMMA ControlTold ==
  ASSUME OneController, IInv, Told, NEW c \in Controllers, Control(c)
  PROVE  Told' /\ UNCHANGED <<notified, Handling>>
<1> USE DEF members, locals, opts
<1>i. Types
  BY DEF IInv
<1>1. ASSUME StartWorker(c) PROVE Told' /\ UNCHANGED <<notified, Handling>>
  <2>1. PICK w \in Workers : pc[w] = "idle" /\ pc' = [pc EXCEPT ![w] = "loop"]
    BY <1>1 DEF StartWorker
  <2>2. UNCHANGED <<notified, got_data, call>> /\ cpc[c] = "idle" /\ worker = None
    BY <1>1 DEF StartWorker
  <2>3. \A v \in Workers : pc[v] = "idle"
    BY SMT, <2>2, NoneAssumption DEF IInv, Owned, OneController
  <2>4. notified \in {"none", "stopped"}
    BY <2>3 DEF Told
  <2>5. \A v \in Workers : pc'[v] = IF v = w THEN "loop" ELSE "idle"
    BY <1>i, <2>1, <2>3 DEF Types
  <2>6. Told'
    BY <2>2, <2>4, <2>5 DEF Told, ToldBy
  <2> QED BY <2>2, <2>6 DEF Handling
<1>2. CASE start(c) \/ make_stream(c)
  BY <1>1, <1>2 DEF start, make_stream
<1>3. CASE set_ping_filter(c)
  BY <1>3 DEF set_ping_filter, Told, ToldBy, Handling
<1>4. CASE StopLocked(c)
  <2>1. \A w \in Workers : call'[w] = call[w] \/ call'[w] = TryCancel(call[w])
    BY <1>4 DEF StopLocked, ContextCancelled, IInv, Types
  <2>2. ASSUME NEW w \in Workers PROVE call'[w].rd = call[w].rd
    <3>1. call[w] \in Call(Workers)
      BY <1>i DEF Types
    <3>2. TryCancel(call[w]).rd = call[w].rd
      BY SMT, <3>1, CallFields DEF SameBut
    <3> QED BY <2>1, <3>2
  <2>3. UNCHANGED <<pc, notified, got_data>>
    BY <1>4 DEF StopLocked
  <2> QED BY <2>2, <2>3 DEF Told, ToldBy, Handling
<1>5. CASE StopJoin(c)
  <2>1. /\ \A w \in Workers : pc'[w] = IF w = joining[c] THEN "idle" ELSE pc[w]
        /\ \A w \in Workers : w = joining[c] => pc[w] = "finished"
        /\ UNCHANGED <<notified, got_data, call>>
    BY <1>5, NoneAssumption DEF StopJoin, IInv, Types
  <2>2. ASSUME NEW w \in Workers PROVE ToldBy(w)'
    BY <2>1 DEF Told, ToldBy
  <2>3. ASSUME \A w \in Workers : pc'[w] = "idle" PROVE notified' \in {"none", "stopped"}
    <3>1. CASE \A w \in Workers : pc[w] = "idle"
      BY <2>1, <3>1 DEF Told
    <3>2. ASSUME NEW w \in Workers, pc[w] # "idle" PROVE notified' = "stopped"
      <4>1. pc[w] = "finished"
        BY <2>1, <2>3, <3>2
      <4> QED BY <2>1, <4>1 DEF Told, ToldBy
    <3> QED BY <3>1, <3>2
  <2> QED BY <2>1, <2>2, <2>3 DEF Told, Handling
<1> QED BY <1>2, <1>3, <1>4, <1>5 DEF Control

(* The stream implements StreamLifecycle: every on_state_ and on_data_     *)
(* call, whichever thread makes it, comes in the order the StreamState     *)
(* values promise, connected at most once per attempt and before the data, *)
(* disconnected and stopped after the last handler has returned.           *)
THEOREM ImplementsLifecycle ==
  ASSUME OneController
  PROVE  Spec => LifecycleSpec
<1>1. Init => Told /\ Lifecycle!Init
  <2> SUFFICES ASSUME Init PROVE Told /\ Lifecycle!Init
    OBVIOUS
  <2>1. \A w \in Workers : pc[w] = "idle" /\ call[w].rd # "dispatch"
    BY NewCallFields DEF Init
  <2>2. Told
    BY <2>1 DEF Init, Told, ToldBy
  <2>3. Lifecycle!Init
    BY <2>1 DEF Init, Lifecycle!Init
  <2> QED BY <2>2, <2>3
<1>2. IInv /\ Told /\ [Next]_vars => Told' /\ [Lifecycle!Next]_<<notified, Handling>>
  <2> SUFFICES ASSUME IInv, Told, [Next]_vars
               PROVE  Told' /\ [Lifecycle!Next]_<<notified, Handling>>
    OBVIOUS
  <2>1. CASE UNCHANGED vars
    BY <2>1 DEF vars, members, locals, Told, ToldBy, Handling
  <2> QED BY <2>1, ControlTold, RunTold, CallTold DEF Next
<1>3. [Lifecycle!Next]_<<notified, Handling>> =>
        [Lifecycle!Next]_<<notified, \E w \in Workers : call[w].rd = "dispatch">>
  BY DEF Handling
<1> QED BY <1>1, <1>2, <1>3, IInvHolds, PTL DEF Spec, LifecycleSpec, Lifecycle!Spec
=============================================================================
