----------------------- MODULE MarketDataStreamProofs -----------------------
(***************************************************************************)
(* What each step of MarketDataStream keeps of its inductive invariant;    *)
(* type correctness, for every set of workers, of threads that call        *)
(* start() and stop(), and of calls of send(); and the safety theorems,    *)
(* when start() and stop() are called by one thread.                       *)
(***************************************************************************)
EXTENDS MarketDataStream, StreamProofs, TLAPS

(* Most leaves below are first-order; the ones that need arithmetic cite   *)
(* SMT.                                                                    *)
USE ZenonT(40)

-----------------------------------------------------------------------------
(* The inductive invariant, when start() and stop() are called by one      *)
(* thread.                                                                 *)
OneController == \A c, d \in Controllers : c = d

(* Which threads exist: a worker is in worker_, or stop() is joining it.   *)
WorkerOwned ==
  /\ \A w \in Workers :
       pc[w] # "idle" => worker = w \/ \E c \in Controllers : joining[c] = w
  /\ \A c \in Controllers :
       /\ cpc[c] # "idle" => worker = None /\ stopping
       /\ cpc[c] = "idle" => joining[c] = None
       /\ cpc[c] = "release" <=> release[c] # None

(* How the members of mu_, the control point of a worker and the state of  *)
(* its call agree.                                                         *)
CallShape(w) ==
  /\ ctx = w <=> InScope(w)
  /\ call[w].phase = "started" => pc[w] \in {"publish", "release", "wait"}
  /\ pc[w] \in {"publish", "release"} => call[w].phase = "started"
  /\ pc[w] = "bind" => call[w] = NewCall \/ call[w] = TryCancel(NewCall)
  /\ InScope(w) => (done <=> call[w].phase = "done")
  /\ reactor = w <=> pc[w] \in {"release", "wait"} /\ call[w].phase = "started"
  /\ call[w].phase # "started" => call[w].rd \in {"none", "closed"}
  /\ call[w].rrel \in {None, w} /\ call[w].wrel \in {None, w}
  /\ call[w].rrel # None => call[w].rd = "closed"
  /\ call[w].phase = "started" /\ call[w].rd = "closed" => broken
  /\ reactor = w /\ broken => hold_released
  /\ InScope(w) /\ stopping => broken

(* A write is outstanding only on a started call; then write_in_flight_ is *)
(* set, and no earlier write is still in its callback.                     *)
WriteInv(w) ==
  /\ call[w].wr \in {0, 1}
  /\ call[w].wr = 1 => call[w].phase = "started" /\ write_in_flight
  /\ call[w].wrel # None => call[w].wr = 0

(* A thread has claimed the hold of call w and not yet removed it: the     *)
(* worker, the read callback, the write callback, or stop().               *)
ClaimStop(w) == \E c \in Controllers : release[c] = w
Claimed(w) ==
  pc[w] = "release" \/ call[w].rrel = w \/ call[w].wrel = w \/ ClaimStop(w)

OneClaim(w) ==
  /\ pc[w] = "release" => call[w].rrel # w /\ call[w].wrel # w /\ ~ClaimStop(w)
  /\ call[w].rrel = w => call[w].wrel # w /\ ~ClaimStop(w)
  /\ call[w].wrel = w => ~ClaimStop(w)

(* The hold is there until it is claimed and removed; at most one thread   *)
(* has claimed it, and hold_released_ says that one has.                   *)
HoldInv(w) ==
  /\ call[w].phase # "started" => call[w].hold = 0 /\ ~Claimed(w)
  /\ call[w].phase = "started" =>
       call[w].hold = IF ~hold_released \/ Claimed(w) THEN 1 ELSE 0
  /\ OneClaim(w)
  /\ Claimed(w) => hold_released
  /\ call[w].phase = "started" /\ hold_released => broken
  /\ pc[w] \in {"bind", "publish"} => ~hold_released

InvOf(w) == CallShape(w) /\ WriteInv(w) /\ HoldInv(w)
CallInv == \A w \in Workers : InvOf(w)

(* Outside of run_once() a worker has no call, and nothing points to it. *)
Resting(w) ==
  /\ ~InScope(w)
  /\ ctx # w /\ reactor # w /\ ~ClaimStop(w)
  /\ call[w].phase # "started" /\ call[w].hold = 0 /\ call[w].wr = 0
  /\ call[w].rd \in {"none", "closed"}
  /\ call[w].rrel = None /\ call[w].wrel = None
-----------------------------------------------------------------------------
(* start() creates a worker only when there is none. *)
LEMMA OneWorker ==
  ASSUME OneController, WorkerOwned,
         NEW v \in Workers, NEW w \in Workers, pc[v] # "idle", pc[w] # "idle"
  PROVE  v = w
BY SMTT(60), NoneAssumption DEF OneController, WorkerOwned

LEMMA OwnedStep ==
  ASSUME TypeOK, OneController, WorkerOwned, [Next]_vars
  PROVE  WorkerOwned'
<1> USE DEF flags, ptrs, output, locals, ctl, user, members
<1>1. ASSUME NEW c \in Controllers, start(c) PROVE WorkerOwned'
  BY SMTT(60), <1>1 DEF WorkerOwned, start, TypeOK, OneController
<1>2. ASSUME NEW c \in Controllers, StopLocked(c) PROVE WorkerOwned'
  BY SMTT(60), <1>2 DEF WorkerOwned, StopLocked, TypeOK, OneController
<1>3. ASSUME NEW c \in Controllers, StopRelease(c) PROVE WorkerOwned'
  BY <1>3 DEF WorkerOwned, StopRelease, TypeOK, OneController
<1>4. ASSUME NEW c \in Controllers, StopJoin(c) PROVE WorkerOwned'
  BY SMTT(60), <1>4 DEF WorkerOwned, StopJoin, TypeOK, OneController
<1>5. ASSUME NEW w \in Workers, pc[w] # "idle", pc' = [pc EXCEPT ![w] = pc'[w]],
             UNCHANGED <<worker, stopping, ctl>>
      PROVE  WorkerOwned'
  BY <1>5 DEF WorkerOwned, TypeOK
<1>6. ASSUME UNCHANGED <<worker, stopping, ctl, pc>> PROVE WorkerOwned'
  BY <1>6 DEF WorkerOwned
<1>7. ASSUME NEW w \in Workers, Run(w) PROVE WorkerOwned'
  <2>1. pc[w] # "idle"
    BY <1>7 DEF Run, RunCheck, RunReturned, BackoffOver, BreakOrGoOn, notify,
         NotifyConnecting, NotifyStopped, NotifyDisconnected, RunOnceCancelled,
         RunOnceSetup, RunOnceBegin, RunOncePublish, RunOnceRelease, RunOnceReturn
  <2>2. UNCHANGED <<worker, stopping, ctl>>
    BY <1>7 DEF Run, RunCheck, RunReturned, BackoffOver, BreakOrGoOn, notify,
         NotifyConnecting, NotifyStopped, NotifyDisconnected, RunOnceCancelled,
         RunOnceSetup, RunOnceBegin, RunOncePublish, RunOnceRelease, RunOnceReturn
  <2>3. \E p : pc' = [pc EXCEPT ![w] = p]
    BY <1>7 DEF Run, RunCheck, RunReturned, BackoffOver, BreakOrGoOn, notify,
         NotifyConnecting, NotifyStopped, NotifyDisconnected, RunOnceCancelled,
         RunOnceSetup, RunOnceBegin, RunOncePublish, RunOnceRelease, RunOnceReturn
  <2>4. pc' = [pc EXCEPT ![w] = pc'[w]]
    BY <2>3 DEF TypeOK
  <2> QED BY <1>5, <2>1, <2>2, <2>4
<1>8. ASSUME NEW w \in Workers, CallBreaks(w) \/ Callback(w) PROVE WorkerOwned'
  <2>1. UNCHANGED <<worker, stopping, ctl, pc>>
    BY <1>8 DEF CallBreaks, Callback, OnReadDone, NotifyConnected, Dispatch,
         OnReadClosed, OnReadRelease, OnWriteDone, OnWriteFailed, OnWriteRelease,
         OnDone, handle_read_closed
  <2> QED BY <1>6, <2>1
<1>9. ASSUME NEW a \in Calls, send(a.request, a.remember) PROVE WorkerOwned'
  BY <1>6, <1>9 DEF send
<1>10. CASE UNCHANGED vars
  BY <1>6, <1>10 DEF vars
<1> QED BY <1>1, <1>2, <1>3, <1>4, <1>7, <1>8, <1>9, <1>10 DEF Next, Control

-----------------------------------------------------------------------------
LEMMA InvOfResting ==
  ASSUME NEW w \in Workers, InvOf(w), ~InScope(w)
  PROVE  Resting(w)
BY NoneAssumption
   DEF InvOf, CallShape, WriteInv, HoldInv, Claimed, ClaimStop, Resting, InScope

LEMMA RestingIsInvOf ==
  ASSUME NEW w \in Workers, Resting(w)'
  PROVE  InvOf(w)'
BY SMTT(60), NoneAssumption
   DEF InvOf, CallShape, WriteInv, HoldInv, OneClaim, Claimed, ClaimStop, Resting,
       InScope

(* A step of worker w, or of a callback of its call, while w is in         *)
(* run_once(), leaves the other workers alone.                             *)
LEMMA OthersRest ==
  ASSUME OneController, WorkerOwned, CallInv,
         NEW w \in Workers, pc[w] # "idle",
         NEW v \in Workers, v # w, pc'[v] = pc[v], call'[v] = call[v],
         ctx' \in {ctx, w, None}, reactor' \in {reactor, w, None},
         \A c \in Controllers : release'[c] \in {release[c], w, None}
  PROVE  InvOf(v)'
<1>1. pc[v] = "idle"
  BY OneWorker
<1>2. Resting(v)
  BY <1>1, InvOfResting DEF CallInv, InScope
<1>3. Resting(v)'
  BY SMTT(60), <1>1, <1>2, NoneAssumption DEF Resting, InScope, ClaimStop
<1> QED BY <1>3, RestingIsInvOf

(* So does a step that changes nothing but its own call. *)
LEMMA OthersKept ==
  ASSUME CallInv, NEW v \in Workers, pc'[v] = pc[v], call'[v] = call[v],
         UNCHANGED <<ctx, reactor, release, done, broken, hold_released,
                     write_in_flight>>, stopping' => stopping
  PROVE  InvOf(v)'
BY SMTT(60) DEF CallInv, InvOf, CallShape, WriteInv, HoldInv, OneClaim, Claimed, ClaimStop,
       InScope

(* start() and stop() *)
LEMMA ControlStep ==
  ASSUME TypeOK, TypeOK', OneController, WorkerOwned, CallInv,
         NEW c \in Controllers, Control(c)
  PROVE  CallInv'
<1> USE DEF flags, ptrs, output, locals, ctl, user, members
<1>1. CASE start(c)
  <2>1. PICK w \in Workers : pc[w] = "idle" /\ pc' = [pc EXCEPT ![w] = "loop"]
    BY <1>1 DEF start
  <2>2. /\ UNCHANGED <<ctx, reactor, release, done, broken, hold_released,
                       write_in_flight, call>>
        /\ ~stopping'
    BY <1>1 DEF start
  <2>3. ASSUME NEW v \in Workers, v # w PROVE InvOf(v)'
    BY <2>1, <2>2, <2>3, OthersKept DEF TypeOK
  <2>4. Resting(w)
    BY <2>1, InvOfResting DEF CallInv, InScope
  <2>5. Resting(w)'
    BY <2>1, <2>2, <2>4 DEF Resting, InScope, ClaimStop, TypeOK
  <2> QED BY <2>3, <2>5, RestingIsInvOf DEF CallInv
<1>2. CASE StopLocked(c)
  <2>1. /\ \A d \in Controllers : d = c /\ release[d] = None
        /\ release'[c] = HoldToRelease /\ broken'
        /\ hold_released' = (hold_released \/ HoldToRelease # None)
        /\ UNCHANGED <<ctx, reactor, done, write_in_flight, pc>>
    BY <1>2 DEF StopLocked, TypeOK, OneController, WorkerOwned
  <2>2. ASSUME NEW v \in Workers, ~InScope(v) PROVE InvOf(v)'
    <3>1. Resting(v)
      BY <2>2, InvOfResting DEF CallInv
    <3>2. call'[v] = call[v]
      BY <1>2, <3>1 DEF StopLocked, ContextCancelled, TypeOK, Resting
    <3>3. ~ClaimStop(v)'
      BY <2>1, <3>1, NoneAssumption DEF ClaimStop, HoldToRelease, Resting
    <3>4. Resting(v)'
      BY <2>1, <3>1, <3>2, <3>3 DEF Resting, InScope
    <3> QED BY <3>4, RestingIsInvOf
  <2>3. ASSUME NEW v \in Workers, InScope(v) PROVE InvOf(v)'
    <3>1. InvOf(v)
      BY DEF CallInv
    <3>2. ctx = v
      BY <2>3, <3>1 DEF InvOf, CallShape
    <3>3. call'[v] = TryCancel(call[v])
      BY <1>2, <3>2, NoneAssumption DEF StopLocked, ContextCancelled, TypeOK
    <3>4. SameBut(call[v], call'[v], {})
      <4>1. call[v] \in Call(Workers)
        BY DEF TypeOK
      <4> QED BY SMTT(60), <3>3, <4>1, CallFields
    <3>5. reactor \in {None, v}
      <4>1. reactor # None => reactor \in Workers /\ pc[reactor] # "idle"
        BY DEF TypeOK, Ptr, CallInv, InvOf, CallShape
      <4>2. pc[v] # "idle"
        BY <2>3 DEF InScope
      <4> QED BY <4>1, <4>2, OneWorker
    <3>6. ~ClaimStop(v) /\ (ClaimStop(v)' <=> HoldToRelease = v)
      BY <2>1, NoneAssumption DEF ClaimStop
    <3>7. pc[v] = "bind" => call'[v] = TryCancel(NewCall)
      BY <3>1, <3>3 DEF InvOf, CallShape, TryCancel, NewCall
    <3>8. CallShape(v)'
      BY <2>1, <3>1, <3>4, <3>5, <3>7, NoneAssumption
      DEF InvOf, CallShape, HoldInv, SameBut, HoldToRelease, InScope
    <3>9. WriteInv(v)'
      BY <2>1, <3>1, <3>4 DEF InvOf, WriteInv, SameBut
    <3>10. HoldInv(v)'
      BY <2>1, <3>1, <3>4, <3>5, <3>6, NoneAssumption
      DEF InvOf, CallShape, HoldInv, OneClaim, Claimed, SameBut, HoldToRelease
    <3> QED BY <3>8, <3>9, <3>10 DEF InvOf
  <2> QED BY <2>2, <2>3 DEF CallInv
<1>3. CASE StopRelease(c)
  <2>1. PICK w \in Workers : w = release[c] /\ \A d \in Controllers : d = c
    BY SMTT(60), <1>3 DEF StopRelease, WorkerOwned, TypeOK, Ptr, OneController
  <2>2. ClaimStop(w) /\ InvOf(w)
    BY <2>1 DEF ClaimStop, CallInv
  <2>3. /\ UNCHANGED <<ctx, reactor, done, broken, hold_released, write_in_flight, pc,
                       stopping>>
        /\ release'[c] = None /\ call' = [call EXCEPT ![w] = RemoveHold(@)]
    BY <1>3, <2>1 DEF StopRelease, TypeOK
  <2>4. call'[w] = RemoveHold(call[w]) /\ \A v \in Workers : v # w => call'[v] = call[v]
    BY <2>1, <2>3 DEF TypeOK
  <2>5. SameBut(call[w], call'[w], {"hold"}) /\ call'[w].hold = call[w].hold - 1
    <3>1. call[w] \in Call(Workers)
      BY DEF TypeOK
    <3> QED BY ZenonT(40), <2>4, <3>1, CallFields
  <2>6. ~ClaimStop(w)'
    BY <2>1, <2>3, NoneAssumption DEF ClaimStop
  <2>7. call[w].phase = "started" /\ pc[w] # "bind" /\ pc[w] # "idle"
    BY <2>2 DEF InvOf, CallShape, HoldInv, Claimed
  <2>8. InvOf(w)'
    <3>1. CallShape(w)'
      BY <2>2, <2>3, <2>5, <2>7 DEF InvOf, CallShape, SameBut, InScope
    <3>2. WriteInv(w)'
      BY <2>2, <2>3, <2>5 DEF InvOf, WriteInv, SameBut
    <3>3. HoldInv(w)'
      BY SMTT(60), <2>2, <2>3, <2>5, <2>6, <2>7
      DEF InvOf, HoldInv, OneClaim, Claimed, SameBut
    <3> QED BY <3>1, <3>2, <3>3 DEF InvOf
  <2>9. ASSUME NEW v \in Workers, v # w PROVE InvOf(v)'
    <3>1. \A d \in Controllers : release'[d] \in {release[d], w, None}
      BY <2>1, <2>3
    <3> QED BY <2>1, <2>3, <2>4, <2>7, <2>9, <3>1, OthersRest
  <2> QED BY <2>8, <2>9 DEF CallInv
<1>4. CASE StopJoin(c)
  <2>1. UNCHANGED <<ctx, reactor, release, done, broken, hold_released,
                    write_in_flight, call, stopping>>
    BY <1>4 DEF StopJoin
  <2>2. ASSUME NEW v \in Workers PROVE InvOf(v)'
    <3>1. CASE pc'[v] = pc[v]
      BY <2>1, <3>1, OthersKept
    <3>2. CASE pc'[v] # pc[v]
      <4>1. pc[v] = "finished" /\ pc'[v] = "idle"
        BY <1>4, <3>2, NoneAssumption DEF StopJoin, TypeOK
      <4>2. Resting(v)
        BY <4>1, InvOfResting DEF CallInv, InScope
      <4>3. Resting(v)'
        BY <2>1, <4>1, <4>2 DEF Resting, InScope, ClaimStop
      <4> QED BY <4>3, RestingIsInvOf
    <3> QED BY <3>1, <3>2
  <2> QED BY <2>2 DEF CallInv
<1> QED BY <1>1, <1>2, <1>3, <1>4 DEF Control

(* run() and run_once() *)
LEMMA RunStep ==
  ASSUME TypeOK, TypeOK', OneController, WorkerOwned, CallInv,
         NEW w \in Workers, Run(w)
  PROVE  CallInv'
<1> USE DEF flags, ptrs, output, locals, ctl, user, members
<1>i. InvOf(w) /\ call[w] \in Call(Workers)
  BY DEF CallInv, TypeOK
<1>1. CASE \/ RunCheck(w) \/ NotifyConnecting(w) \/ RunReturned(w)
           \/ NotifyDisconnected(w) \/ BackoffOver(w) \/ NotifyStopped(w)
           \/ RunOnceCancelled(w)
  <2>1. /\ ~InScope(w) /\ ~InScope(w)' /\ \A v \in Workers : v # w => pc'[v] = pc[v]
        /\ UNCHANGED <<members, call>>
    BY <1>1 DEF RunCheck, RunReturned, BackoffOver, BreakOrGoOn, notify,
         NotifyConnecting, NotifyStopped, NotifyDisconnected, AfterBreak,
         RunOnceCancelled, InScope, TypeOK
  <2>2. ASSUME NEW v \in Workers, v # w PROVE InvOf(v)'
    BY <2>1, <2>2, OthersKept
  <2>3. Resting(w)
    BY <1>i, <2>1, InvOfResting
  <2>4. Resting(w)'
    BY <2>1, <2>3 DEF Resting, ClaimStop
  <2> QED BY <2>2, <2>4, RestingIsInvOf DEF CallInv
<1>2. CASE RunOnceSetup(w)
  <2>1. /\ pc[w] = "setup" /\ pc'[w] = "bind" /\ ctx' = w /\ call'[w] = NewCall
        /\ ~stopping /\ ~done' /\ ~broken' /\ ~hold_released' /\ ~write_in_flight'
        /\ UNCHANGED <<stopping, reactor, release>>
        /\ \A v \in Workers : v # w => pc'[v] = pc[v] /\ call'[v] = call[v]
    BY <1>2 DEF RunOnceSetup, TypeOK
  <2>2. ASSUME NEW v \in Workers, v # w PROVE InvOf(v)'
    BY <2>1, <2>2, OthersRest
  <2>3. Resting(w)
    BY <1>i, <2>1, InvOfResting DEF InScope
  <2>4. InvOf(w)'
    <3>1. CallShape(w)'
      BY <2>1, <2>3, NewCallFields, NoneAssumption DEF Resting, CallShape, InScope
    <3>2. WriteInv(w)'
      BY SMTT(60), <2>1, NewCallFields, NoneAssumption DEF WriteInv
    <3>3. HoldInv(w)'
      BY <2>1, <2>3, NewCallFields, NoneAssumption
      DEF Resting, HoldInv, OneClaim, Claimed, ClaimStop
    <3> QED BY <3>1, <3>2, <3>3 DEF InvOf
  <2> QED BY <2>2, <2>4 DEF CallInv
<1>3. CASE RunOnceBegin(w)
  <2>1. /\ pc[w] = "bind" /\ pc'[w] = "publish" /\ call'[w] = StartCall(call[w], 1)
        /\ UNCHANGED members
        /\ \A v \in Workers : v # w => pc'[v] = pc[v] /\ call'[v] = call[v]
    BY <1>3 DEF RunOnceBegin, TypeOK
  <2>2. ASSUME NEW v \in Workers, v # w PROVE InvOf(v)'
    BY <2>1, <2>2, OthersKept
  <2>3. /\ SameBut(call[w], call'[w], {"phase", "hold", "rd"})
        /\ call'[w].phase = "started" /\ call'[w].hold = 1 /\ call'[w].rd = "pending"
    <3>1. PICK c \in Call(Workers) : c = call[w]
      BY <1>i
    <3>2. /\ SameBut(c, StartCall(c, 1), {"phase", "hold", "rd"})
          /\ StartCall(c, 1).phase = "started" /\ StartCall(c, 1).hold = 1
          /\ StartCall(c, 1).rd = "pending"
      BY CallFields
    <3> QED BY <2>1, <3>1, <3>2
  <2>4. call[w].phase = "none" /\ call[w].wr = 0 /\ call[w].rrel = None /\ call[w].wrel = None
    <3>1. NewCall \in Call(Workers)
      BY NewCallType
    <3>2. SameBut(NewCall, TryCancel(NewCall), {})
      BY <3>1, CallFields
    <3> QED BY <1>i, <2>1, <3>2, NewCallFields DEF InvOf, CallShape, SameBut
  <2>5. InvOf(w)'
    BY <1>i, <2>1, <2>3, <2>4, NoneAssumption
    DEF InvOf, CallShape, WriteInv, HoldInv, OneClaim, Claimed, ClaimStop, InScope,
        SameBut
  <2> QED BY <2>2, <2>5 DEF CallInv
<1>4. CASE RunOnceRelease(w)
  <2>1. /\ pc[w] = "release" /\ pc'[w] = "wait" /\ call'[w] = RemoveHold(call[w])
        /\ UNCHANGED members
        /\ \A v \in Workers : v # w => pc'[v] = pc[v] /\ call'[v] = call[v]
    BY <1>4 DEF RunOnceRelease, TypeOK
  <2>2. ASSUME NEW v \in Workers, v # w PROVE InvOf(v)'
    BY <2>1, <2>2, OthersKept
  <2>3. SameBut(call[w], call'[w], {"hold"}) /\ call'[w].hold = call[w].hold - 1
    BY SMTT(60), <1>i, <2>1, CallFields
  <2>4. InvOf(w)'
    BY SMTT(60), <1>i, <2>1, <2>3
    DEF InvOf, CallShape, WriteInv, HoldInv, OneClaim, Claimed, ClaimStop, InScope,
        SameBut
  <2> QED BY <2>2, <2>4 DEF CallInv
<1>5. CASE RunOnceReturn(w)
  <2>1. /\ pc[w] = "wait" /\ pc'[w] = "returned" /\ done /\ ctx' = None
        /\ UNCHANGED <<call, reactor, release>>
        /\ \A v \in Workers : v # w => pc'[v] = pc[v]
    BY <1>5 DEF RunOnceReturn, TypeOK
  <2>2. ASSUME NEW v \in Workers, v # w PROVE InvOf(v)'
    BY <2>1, <2>2, OthersRest
  <2>3. Resting(w)'
    BY <1>i, <2>1, NoneAssumption
    DEF Resting, InvOf, CallShape, WriteInv, HoldInv, Claimed, ClaimStop, InScope
  <2> QED BY <2>2, <2>3, RestingIsInvOf DEF CallInv
<1>6. CASE RunOncePublish(w)
  <2>1. /\ pc[w] = "publish" /\ UNCHANGED <<ctx, release, stopping, broken, done>>
        /\ \A v \in Workers : v # w => pc'[v] = pc[v]
    BY <1>6 DEF RunOncePublish, TypeOK
  <2>2. call[w].phase = "started" /\ ~done /\ ~hold_released
    BY <1>i, <2>1 DEF InvOf, CallShape, HoldInv, InScope
  <2>3. reactor' = w
    BY <1>6, <2>2 DEF RunOncePublish
  <2>4. CASE PublishReleases
    <3>1. pc'[w] = "release" /\ hold_released' /\ UNCHANGED <<call, write_in_flight>>
      BY <1>6, <2>2, <2>4 DEF RunOncePublish, TypeOK
    <3>2. ASSUME NEW v \in Workers, v # w PROVE InvOf(v)'
      BY <2>1, <2>3, <3>1, <3>2, OthersRest
    <3>3. broken
      BY <1>i, <2>1, <2>4 DEF PublishReleases, InvOf, CallShape, InScope
    <3>4. InvOf(w)'
      BY <1>i, <2>1, <2>2, <2>3, <3>1, <3>3
      DEF InvOf, CallShape, WriteInv, HoldInv, OneClaim, Claimed, ClaimStop, InScope
    <3> QED BY <3>2, <3>4 DEF CallInv
  <2>5. CASE ~PublishReleases
    <3>1. /\ pc'[w] = "wait" /\ UNCHANGED hold_released
          /\ maybe_write_locked(w, write_in_flight, write_queue, call)
      BY <1>6, <2>2, <2>5 DEF RunOncePublish, TypeOK
    <3>2. /\ \A v \in Workers : v # w => call'[v] = call[v]
          /\ \/ call'[w] = call[w] /\ UNCHANGED write_in_flight
             \/ call'[w] = StartWrite(call[w]) /\ ~write_in_flight /\ write_in_flight'
      BY <3>1 DEF maybe_write_locked, MayWrite, TypeOK
    <3>3. ASSUME NEW v \in Workers, v # w PROVE InvOf(v)'
      BY <2>1, <2>3, <3>1, <3>2, <3>3, OthersRest
    <3>4. ~broken
      BY <2>2, <2>5 DEF PublishReleases
    <3>5. SameBut(call[w], call'[w], {"wr"})
      <4>1. SameBut(call[w], StartWrite(call[w]), {"wr"})
        BY <1>i, CallFields
      <4>2. SameBut(call[w], call[w], {"wr"})
        BY DEF SameBut
      <4> QED BY <3>2, <4>1, <4>2
    <3>6. WriteInv(w)'
      <4>1. CASE call'[w] = call[w] /\ UNCHANGED write_in_flight
        BY <1>i, <4>1 DEF InvOf, WriteInv
      <4>2. CASE call'[w] = StartWrite(call[w]) /\ ~write_in_flight /\ write_in_flight'
        <5>1. call'[w].wr = call[w].wr + 1
          BY <1>i, <4>2, CallFields
        <5>2. call[w].wrel = None
          BY <1>i, <2>2 DEF InvOf, CallShape, HoldInv, Claimed
        <5> QED BY SMTT(60), <1>i, <2>2, <3>5, <4>2, <5>1, <5>2 DEF InvOf, WriteInv, SameBut
      <4> QED BY <3>2, <4>1, <4>2
    <3>7. CallShape(w)' /\ HoldInv(w)'
      BY <1>i, <2>1, <2>2, <2>3, <3>1, <3>4, <3>5
      DEF InvOf, CallShape, HoldInv, OneClaim, Claimed, ClaimStop, InScope, SameBut
    <3> QED BY <3>3, <3>6, <3>7 DEF CallInv, InvOf
  <2> QED BY <2>4, <2>5
<1> QED BY <1>1, <1>2, <1>3, <1>4, <1>5, <1>6 DEF Run

-----------------------------------------------------------------------------
(* gRPC and send() *)

(* The reactor that is published is the one of the call under way. *)
LEMMA ReactorOf ==
  ASSUME TypeOK, OneController, WorkerOwned, CallInv,
         NEW w \in Workers, call[w].phase = "started"
  PROVE  pc[w] # "idle" /\ reactor \in {None, w}
<1>1. pc[w] # "idle"
  BY DEF CallInv, InvOf, CallShape
<1>2. reactor # None => reactor \in Workers /\ pc[reactor] # "idle"
  BY DEF TypeOK, Ptr, CallInv, InvOf, CallShape
<1> QED BY <1>1, <1>2, OneWorker

(* The callbacks of gRPC that only concern their own call *)
LEMMA CallStep ==
  ASSUME TypeOK, TypeOK', OneController, WorkerOwned, CallInv, NEW w \in Workers,
         \/ CallBreaks(w) \/ OnReadDone(w) \/ NotifyConnected(w) \/ Dispatch(w)
         \/ OnReadRelease(w) \/ OnWriteRelease(w)
  PROVE  CallInv'
<1> USE DEF flags, ptrs, output, locals, ctl, user, members
<1>i. InvOf(w) /\ call[w] \in Call(Workers)
  BY DEF CallInv, TypeOK
<1>m. UNCHANGED <<ctx, reactor, release, done, broken, hold_released,
                  write_in_flight, stopping, pc>>
  BY DEF CallBreaks, OnReadDone, NotifyConnected, Dispatch, OnReadRelease,
         OnWriteRelease
<1>b. ASSUME pc[w] = "bind" PROVE call[w].phase = "none" /\ call[w].rd = "none"
                               /\ call[w].rrel = None /\ call[w].wrel = None
  <2>1. NewCall \in Call(Workers)
    BY NewCallType
  <2>2. SameBut(NewCall, TryCancel(NewCall), {})
    BY <2>1, CallFields
  <2> QED BY <1>i, <1>b, <2>2, NewCallFields DEF InvOf, CallShape, SameBut
<1>1. CASE CallBreaks(w)
  <2>1. /\ call[w].phase = "started" /\ call'[w] = TryCancel(call[w])
        /\ \A v \in Workers : v # w => call'[v] = call[v]
    BY <1>1 DEF CallBreaks, TypeOK
  <2>2. SameBut(call[w], call'[w], {})
    BY <1>i, <2>1, CallFields
  <2>3. InvOf(w)'
    BY <1>i, <1>m, <1>b, <2>1, <2>2
    DEF InvOf, CallShape, WriteInv, HoldInv, OneClaim, Claimed, ClaimStop, InScope,
        SameBut
  <2> QED BY <1>m, <2>1, <2>3, OthersKept DEF CallInv
<1>2. CASE OnReadDone(w) \/ NotifyConnected(w) \/ Dispatch(w)
  <2>1. PICK rd \in {"notify", "dispatch", "pending"} :
          call'[w] = ReadMessage(call[w], rd) \/ call'[w] = ReadGoesOn(call[w], rd)
    BY <1>2 DEF OnReadDone, NotifyConnected, Dispatch, TypeOK
  <2>2. /\ call[w].rd \in {"pending", "notify", "dispatch"}
        /\ pc[w] = "bind" => call[w].rd = "none"
        /\ \A v \in Workers : v # w => call'[v] = call[v]
    BY <1>2, <1>b DEF OnReadDone, NotifyConnected, Dispatch, TypeOK
  <2>3. SameBut(call[w], call'[w], {"rd"}) /\ call'[w].rd = rd
    BY SMTT(60), <1>i, <2>1, CallbackFields
  <2>4. InvOf(w)'
    BY <1>i, <1>m, <2>2, <2>3
    DEF InvOf, CallShape, WriteInv, HoldInv, OneClaim, Claimed, ClaimStop, InScope,
        SameBut
  <2> QED BY <1>m, <2>2, <2>4, OthersKept DEF CallInv
<1>3. CASE OnReadRelease(w)
  <2> DEFINE mid == ReadReturns(call[w])
  <2>1. call[w].rrel = w
    BY <1>i, <1>3 DEF OnReadRelease, InvOf, CallShape
  <2>2. /\ call'[w] = RemoveHold(mid)
        /\ \A v \in Workers : v # w => call'[v] = call[v]
    BY <1>3, <2>1 DEF OnReadRelease, TypeOK
  <2>3. mid \in Call(Workers) /\ SameBut(call[w], mid, {"rrel"}) /\ mid.rrel = None
    BY <1>i, CallFields, CallOpsType
  <2> HIDE DEF mid
  <2>4. SameBut(mid, call'[w], {"hold"}) /\ call'[w].hold = mid.hold - 1
    BY <2>2, <2>3, CallFields
  <2>5. InvOf(w)'
    <3>1. CallShape(w)'
      BY <1>i, <1>m, <1>b, <2>1, <2>3, <2>4, NoneAssumption
      DEF InvOf, CallShape, InScope, SameBut
    <3>2. WriteInv(w)'
      BY <1>i, <1>m, <2>3, <2>4 DEF InvOf, WriteInv, SameBut
    <3>3. HoldInv(w)'
      BY SMTT(60), <1>i, <1>m, <2>1, <2>3, <2>4, NoneAssumption
      DEF InvOf, HoldInv, OneClaim, Claimed, ClaimStop, SameBut
    <3> QED BY <3>1, <3>2, <3>3 DEF InvOf
  <2> QED BY <1>m, <2>2, <2>5, OthersKept DEF CallInv
<1>4. CASE OnWriteRelease(w)
  <2> DEFINE mid == WriteReturns(call[w])
  <2>1. call[w].wrel = w
    BY ZenonT(30), <1>i, <1>4 DEF OnWriteRelease, InvOf, CallShape
  <2>2. /\ call'[w] = RemoveHold(mid)
        /\ \A v \in Workers : v # w => call'[v] = call[v]
    BY ZenonT(30), <1>4, <2>1 DEF OnWriteRelease, TypeOK
  <2>3. mid \in Call(Workers) /\ SameBut(call[w], mid, {"wrel"}) /\ mid.wrel = None
    BY <1>i, CallFields, CallOpsType
  <2> HIDE DEF mid
  <2>4. SameBut(mid, call'[w], {"hold"}) /\ call'[w].hold = mid.hold - 1
    BY <2>2, <2>3, CallFields
  <2>5. InvOf(w)'
    <3>1. CallShape(w)'
      BY <1>i, <1>m, <1>b, <2>1, <2>3, <2>4, NoneAssumption
      DEF InvOf, CallShape, InScope, SameBut
    <3>2. WriteInv(w)'
      BY ZenonT(40), <1>i, <1>m, <2>3, <2>4 DEF InvOf, WriteInv, SameBut
    <3>3. HoldInv(w)'
      BY SMTT(60), <1>i, <1>m, <2>1, <2>3, <2>4, NoneAssumption
      DEF InvOf, HoldInv, OneClaim, Claimed, ClaimStop, SameBut
    <3> QED BY <3>1, <3>2, <3>3 DEF InvOf
  <2> QED BY <1>m, <2>2, <2>5, OthersKept DEF CallInv
<1> QED BY <1>1, <1>2, <1>3, <1>4

(* The callbacks that take mu_ *)
LEMMA CallbackStep ==
  ASSUME TypeOK, TypeOK', OneController, WorkerOwned, CallInv, NEW w \in Workers,
         \/ OnReadClosed(w) \/ OnWriteDone(w) \/ OnWriteFailed(w) \/ OnDone(w)
  PROVE  CallInv'
<1> USE DEF flags, ptrs, output, locals, ctl, user, members
<1>i. InvOf(w) /\ call[w] \in Call(Workers)
  BY DEF CallInv, TypeOK
<1>s. call[w].phase = "started"
  <2>1. call[w].phase = "started" \/ call[w].wr > 0
    BY DEF OnReadClosed, OnWriteDone, OnWriteFailed, OnDone, MayFinish
  <2> QED BY SMTT(60), <1>i, <2>1 DEF InvOf, WriteInv
<1>r. /\ pc[w] # "idle" /\ pc[w] # "bind" /\ InScope(w)
      /\ reactor \in {None, w} /\ HoldToRelease \in {None, w}
  BY <1>i, <1>s, ReactorOf DEF InvOf, CallShape, HoldToRelease, InScope
<1>m. UNCHANGED <<ctx, release, stopping, pc>> /\ reactor' \in {reactor, None}
  BY DEF OnReadClosed, OnWriteDone, OnWriteFailed, OnDone, handle_read_closed
<1>o. ASSUME \A v \in Workers : v # w => call'[v] = call[v]
      PROVE  \A v \in Workers : v # w => InvOf(v)'
  BY <1>r, <1>m, <1>o, OthersRest
<1>1. CASE OnReadClosed(w)
  <2>1. /\ call'[w] = ReadClosed(call[w], HoldToRelease) /\ call[w].rd = "pending"
        /\ \A v \in Workers : v # w => call'[v] = call[v]
        /\ broken' /\ hold_released' = (hold_released \/ HoldToRelease # None)
        /\ UNCHANGED <<done, reactor, write_in_flight>>
    BY <1>1 DEF OnReadClosed, handle_read_closed, TypeOK
  <2>2. /\ SameBut(call[w], call'[w], {"rd", "rrel"})
        /\ call'[w].rd = "closed" /\ call'[w].rrel = HoldToRelease
    <3>1. PICK h : h = HoldToRelease
      OBVIOUS
    <3>2. /\ SameBut(call[w], ReadClosed(call[w], h), {"rd", "rrel"})
          /\ ReadClosed(call[w], h).rd = "closed" /\ ReadClosed(call[w], h).rrel = h
      BY <1>i, CallbackFields
    <3> QED BY <2>1, <3>1, <3>2
  <2>3. InvOf(w)'
    BY <1>i, <1>s, <1>r, <1>m, <2>1, <2>2, NoneAssumption
    DEF InvOf, CallShape, WriteInv, HoldInv, OneClaim, Claimed, ClaimStop, InScope,
        SameBut, HoldToRelease
  <2> QED BY <1>o, <2>1, <2>3 DEF CallInv
<1>2. CASE OnWriteFailed(w)
  <2>1. /\ call'[w] = WriteAnswered(call[w], HoldToRelease) /\ call[w].wr > 0
        /\ \A v \in Workers : v # w => call'[v] = call[v]
        /\ broken' /\ hold_released' = (hold_released \/ HoldToRelease # None)
        /\ UNCHANGED <<done, reactor, write_in_flight>>
    BY <1>2 DEF OnWriteFailed, handle_read_closed, TypeOK
  <2>2. /\ SameBut(call[w], call'[w], {"wr", "wrel"})
        /\ call'[w].wr = call[w].wr - 1 /\ call'[w].wrel = HoldToRelease
    BY SMTT(60), <1>i, <2>1, CallbackFields
  <2>3. call[w].wrel = None /\ call'[w].wr = 0
    BY SMTT(60), <1>i, <2>1, <2>2 DEF InvOf, WriteInv
  <2>4. InvOf(w)'
    BY <1>i, <1>s, <1>r, <1>m, <2>1, <2>2, <2>3, NoneAssumption
    DEF InvOf, CallShape, WriteInv, HoldInv, OneClaim, Claimed, ClaimStop, InScope,
        SameBut, HoldToRelease
  <2> QED BY <1>o, <2>1, <2>4 DEF CallInv
<1>3. CASE OnWriteDone(w)
  <2> DEFINE mid == WriteAnswered(call[w], None)
  <2>1. /\ call[w].wr > 0
        /\ maybe_write_locked(reactor, FALSE, write_queue, [call EXCEPT ![w] = mid])
        /\ UNCHANGED <<flags, ptrs>>
    BY <1>3 DEF OnWriteDone
  <2>2. /\ mid \in Call(Workers) /\ SameBut(call[w], mid, {"wr", "wrel"})
        /\ mid.wr = call[w].wr - 1 /\ mid.wrel = None
    BY <1>i, CallbackFields, CallOpsType DEF Ptr
  <2> HIDE DEF mid
  <2>3. mid.wr = 0 /\ call[w].wrel = None
    BY SMTT(60), <1>i, <2>1, <2>2 DEF InvOf, WriteInv
  <2>4. /\ \A v \in Workers : v # w => call'[v] = call[v]
        /\ \/ call'[w] = mid
           \/ call'[w] = StartWrite(mid) /\ write_in_flight' /\ ~hold_released
    BY <1>r, <2>1 DEF maybe_write_locked, MayWrite, TypeOK
  <2>5. /\ SameBut(call[w], call'[w], {"wr", "wrel"}) /\ call'[w].wrel = None
        /\ call'[w].wr = 0 \/ (call'[w].wr = 1 /\ write_in_flight')
    <3>1. SameBut(mid, StartWrite(mid), {"wr"}) /\ StartWrite(mid).wr = mid.wr + 1
      BY <2>2, CallFields
    <3> QED BY SMTT(60), <2>2, <2>3, <2>4, <3>1 DEF SameBut
  <2>6. UNCHANGED <<ctx, reactor, release, stopping, done, broken, hold_released, pc>>
    BY <1>m, <2>1
  <2>7. CallShape(w)'
    BY <1>i, <1>s, <1>r, <2>5, <2>6 DEF InvOf, CallShape, InScope, SameBut
  <2>8. WriteInv(w)'
    BY SMTT(60), <1>s, <2>5 DEF WriteInv, SameBut
  <2>9. HoldInv(w)'
    BY <1>i, <1>s, <2>3, <2>5, <2>6
    DEF InvOf, HoldInv, OneClaim, Claimed, ClaimStop, SameBut
  <2> QED BY <1>o, <2>4, <2>7, <2>8, <2>9 DEF CallInv, InvOf
<1>4. CASE OnDone(w)
  <2>1. /\ call'[w] = Finish(call[w]) /\ reactor' = None /\ done'
        /\ \A v \in Workers : v # w => call'[v] = call[v]
        /\ UNCHANGED <<broken, hold_released, write_in_flight>>
    BY <1>4 DEF OnDone, TypeOK
  <2>2. /\ call[w].hold = 0 /\ call[w].wr = 0 /\ call[w].rd = "closed"
        /\ call[w].rrel = None /\ call[w].wrel = None
    BY <1>4 DEF OnDone, MayFinish
  <2>3. SameBut(call[w], call'[w], {"phase"}) /\ call'[w].phase = "done"
    BY ZenonT(40), <1>i, <2>1, CallFields
  <2>4. InvOf(w)'
    <3>1. CallShape(w)'
      <4>1. /\ call'[w].rd = "closed" /\ call'[w].rrel = None /\ call'[w].wrel = None
            /\ call'[w].phase = "done"
        BY <2>2, <2>3 DEF SameBut
      <4>2. pc[w] = "wait"
        <5>1. pc[w] \in {"publish", "release", "wait"}
          BY <1>i, <1>s DEF InvOf, CallShape
        <5>2. hold_released /\ ~Claimed(w)
          BY SMTT(60), <1>i, <1>s, <2>2 DEF InvOf, HoldInv
        <5> QED BY <1>i, <5>1, <5>2 DEF InvOf, HoldInv, Claimed
      <4> QED BY <1>i, <1>r, <1>m, <2>1, <4>1, <4>2, NoneAssumption
              DEF InvOf, CallShape, InScope
    <3>2. WriteInv(w)'
      BY SMTT(60), <2>2, <2>3 DEF WriteInv, SameBut
    <3>3. HoldInv(w)'
      BY SMTT(60), <1>i, <1>s, <1>m, <2>1, <2>2, <2>3, NoneAssumption
      DEF InvOf, CallShape, HoldInv, OneClaim, Claimed, ClaimStop, SameBut
    <3> QED BY <3>1, <3>2, <3>3 DEF InvOf
  <2> QED BY <1>o, <2>1, <2>4 DEF CallInv
<1> QED BY <1>1, <1>2, <1>3, <1>4

(* send() *)
LEMMA SendStep ==
  ASSUME TypeOK, TypeOK', OneController, WorkerOwned, CallInv,
         NEW r, NEW remember, send(r, remember)
  PROVE  CallInv'
<1> USE DEF flags, ptrs, output, locals, ctl, user, members
<1>m. UNCHANGED <<ctx, reactor, release, done, broken, hold_released, stopping, pc>>
  BY DEF send
<1>1. CASE UNCHANGED <<write_in_flight, call>>
  BY <1>m, <1>1, OthersKept DEF CallInv
<1>2. CASE ~UNCHANGED <<write_in_flight, call>>
  <2>1. /\ Live
        /\ maybe_write_locked(reactor, write_in_flight, Append(write_queue, r), call)
    BY <1>2 DEF send
  <2>2. PICK w \in Workers : w = reactor
    BY <2>1 DEF Live, TypeOK, Ptr
  <2>3. /\ call'[w] = StartWrite(call[w]) /\ ~write_in_flight /\ write_in_flight'
        /\ \A v \in Workers : v # w => call'[v] = call[v]
    BY <1>2, <2>1, <2>2 DEF maybe_write_locked, MayWrite, TypeOK
  <2>4. InvOf(w) /\ call[w] \in Call(Workers)
    BY DEF CallInv, TypeOK
  <2>5. SameBut(call[w], call'[w], {"wr"}) /\ call'[w].wr = call[w].wr + 1
    BY <2>3, <2>4, CallFields
  <2>6. call[w].phase = "started" /\ pc[w] \in {"release", "wait"} /\ ~hold_released
    BY <2>1, <2>2, <2>4 DEF Live, InvOf, CallShape
  <2>7. InvOf(w)'
    <3>1. CallShape(w)'
      BY <1>m, <2>4, <2>5, <2>6 DEF InvOf, CallShape, InScope, SameBut
    <3>2. call[w].wrel = None
      BY <2>4, <2>6 DEF InvOf, CallShape, HoldInv, Claimed
    <3>3. WriteInv(w)'
      BY SMTT(60), <2>3, <2>4, <2>5, <2>6, <3>2 DEF InvOf, WriteInv, SameBut
    <3>4. HoldInv(w)'
      BY <1>m, <2>4, <2>5, <2>6
      DEF InvOf, HoldInv, OneClaim, Claimed, ClaimStop, SameBut
    <3> QED BY <3>1, <3>3, <3>4 DEF InvOf
  <2>8. ASSUME NEW v \in Workers, v # w PROVE InvOf(v)'
    BY <1>m, <2>3, <2>6, <2>8, OthersRest
  <2> QED BY <2>7, <2>8 DEF CallInv
<1> QED BY <1>1, <1>2

-----------------------------------------------------------------------------
(* Types *)

(* maybe_write_locked() keeps the types of what it changes. *)
LEMMA MaybeWriteType ==
  ASSUME TypeOK, NEW r \in Ptr, NEW f \in BOOLEAN, NEW q \in Seq(Request),
         NEW cs \in [Workers -> Call(Workers)],
         maybe_write_locked(r, f, q, cs)
  PROVE  /\ write_in_flight' \in BOOLEAN
         /\ write_queue' \in Seq(Request)
         /\ call' \in [Workers -> Call(Workers)]
         /\ DOMAIN sent' = Workers /\ \A w \in Workers : IsTable(sent'[w])
<1>1. CASE MayWrite(r, f, q)
  <2>1. r \in Workers /\ q # <<>>
    BY <1>1 DEF MayWrite, Ptr
  <2>2. Head(q) \in Request /\ Tail(q) \in Seq(Request)
    BY SMTT(60), <2>1
  <2>3. IsTable(Apply(sent[r], Head(q)))
    BY <2>1, <2>2, ApplyTable DEF TypeOK
  <2>4. StartWrite(cs[r]) \in Call(Workers)
    BY <2>1, CallOpsType
  <2>5. DOMAIN sent' = Workers /\ \A w \in Workers : IsTable(sent'[w])
    <3>1. sent' = [sent EXCEPT ![r] = Apply(@, Head(q))]
      BY <1>1 DEF maybe_write_locked
    <3>2. sent' = [w \in Workers |-> IF w = r THEN Apply(sent[r], Head(q)) ELSE sent[w]]
      BY <3>1 DEF TypeOK
    <3> QED BY <3>2, <2>3 DEF TypeOK
  <2> QED BY <1>1, <2>1, <2>2, <2>4, <2>5 DEF maybe_write_locked
<1>2. CASE ~MayWrite(r, f, q)
  BY <1>2 DEF maybe_write_locked, TypeOK
<1> QED BY <1>1, <1>2

(* Every step keeps the types. *)
LEMMA TypeStep == TypeOK /\ [Next]_vars => TypeOK'
<1> SUFFICES ASSUME TypeOK, [Next]_vars PROVE TypeOK'
  OBVIOUS
<1> USE DEF flags, ptrs, output, locals, ctl, user, members, Ptr
<1>1. ASSUME NEW c \in Controllers, start(c) PROVE TypeOK'
  <2>1. PICK w \in Workers :
          /\ worker' = w
          /\ pc' = [pc EXCEPT ![w] = "loop"]
          /\ attempt' = [attempt EXCEPT ![w] = 0]
          /\ delay' = [delay EXCEPT ![w] = 0]
    BY <1>1 DEF start
  <2>2. attempt' \in [Workers -> 0..MaxShift] /\ delay' \in [Workers -> 0..max_backoff]
    BY SMTT(60), <2>1, BackoffAssumption DEF TypeOK
  <2>3. pc' \in [Workers -> WorkerPcs] /\ worker' \in Ptr
    BY <2>1 DEF TypeOK, WorkerPcs
  <2> QED BY <1>1, <2>2, <2>3 DEF TypeOK, start
<1>2. ASSUME NEW c \in Controllers, StopLocked(c) PROVE TypeOK'
  <2>1. HoldToRelease \in Ptr
    BY DEF TypeOK, HoldToRelease
  <2>2. call' \in [Workers -> Call(Workers)]
    BY <1>2, CallOpsType DEF TypeOK, StopLocked, ContextCancelled
  <2> QED BY <1>2, <2>1, <2>2 DEF TypeOK, StopLocked
<1>3. ASSUME NEW c \in Controllers, StopRelease(c) PROVE TypeOK'
  <2>1. call' \in [Workers -> Call(Workers)]
    BY <1>3, CallOpsType DEF TypeOK, StopRelease
  <2> QED BY ZenonT(40), <1>3, <2>1 DEF TypeOK, StopRelease
<1>4. ASSUME NEW c \in Controllers, StopJoin(c) PROVE TypeOK'
  BY SMTT(60), <1>4 DEF TypeOK, StopJoin, WorkerPcs
<1>5. ASSUME NEW w \in Workers, NEW from \in WorkerPcs, NEW to \in WorkerPcs,
             BreakOrGoOn(w, from, to)
      PROVE  TypeOK'
  BY SMTT(60), <1>5 DEF TypeOK, BreakOrGoOn, WorkerPcs
<1>6. ASSUME NEW w \in Workers, RunCheck(w) \/ RunReturned(w) \/ BackoffOver(w)
      PROVE  TypeOK'
  BY <1>5, <1>6 DEF RunCheck, RunReturned, BackoffOver, WorkerPcs
<1>7. ASSUME NEW w \in Workers, NotifyConnecting(w) \/ NotifyStopped(w)
      PROVE  TypeOK'
  BY ZenonT(40), <1>7 DEF TypeOK, NotifyConnecting, NotifyStopped, notify, WorkerPcs,
              StreamStates
<1>8. ASSUME NEW w \in Workers, NotifyDisconnected(w) PROVE TypeOK'
  <2>1. Failures(w) \in 0..MaxShift
    BY SMTT(60), BackoffAssumption DEF TypeOK, Failures
  <2>2. Backoff(Failures(w)) \in 0..max_backoff /\ NextAttempt(Failures(w)) \in 0..MaxShift
    BY <2>1, BackoffType
  <2>3. AfterBreak(reconnect) \in WorkerPcs
    BY DEF AfterBreak, WorkerPcs
  <2> QED BY SMTT(60), <1>8, <2>2, <2>3 DEF TypeOK, NotifyDisconnected, notify, StreamStates
<1>9. ASSUME NEW w \in Workers, RunOnceCancelled(w) PROVE TypeOK'
  BY <1>9 DEF TypeOK, RunOnceCancelled, WorkerPcs
<1>10. ASSUME NEW w \in Workers, RunOnceSetup(w) PROVE TypeOK'
  <2>1. write_queue' \in Seq(Request)
    BY <1>10, ReplayFacts DEF RunOnceSetup, TypeOK
  <2>2. DOMAIN sent' = Workers /\ \A v \in Workers : IsTable(sent'[v])
    <3>1. DOMAIN sent' = DOMAIN sent
      BY <1>10 DEF RunOnceSetup
    <3>2. \A v \in Workers : sent'[v] = IF v = w THEN EmptyTable ELSE sent[v]
      BY <1>10 DEF RunOnceSetup, TypeOK
    <3> QED BY <3>1, <3>2, EmptyTableFacts DEF TypeOK
  <2> QED BY <1>10, <2>1, <2>2, NewCallType DEF TypeOK, RunOnceSetup, WorkerPcs
<1>11. ASSUME NEW w \in Workers, RunOnceBegin(w) PROVE TypeOK'
  <2>1. call' \in [Workers -> Call(Workers)]
    BY <1>11, CallOpsType DEF TypeOK, RunOnceBegin
  <2> QED BY SMTT(60), <1>11, <2>1 DEF TypeOK, RunOnceBegin, WorkerPcs
<1>12. ASSUME NEW w \in Workers, RunOncePublish(w) PROVE TypeOK'
  <2>1. CASE done \/ PublishReleases
    BY ZenonT(40), <1>12, <2>1 DEF TypeOK, RunOncePublish, WorkerPcs
  <2>2. CASE ~done /\ ~PublishReleases
    <3>1. maybe_write_locked(w, write_in_flight, write_queue, call)
      BY <1>12, <2>2 DEF RunOncePublish
    <3>2. /\ write_in_flight' \in BOOLEAN
          /\ write_queue' \in Seq(Request)
          /\ call' \in [Workers -> Call(Workers)]
          /\ DOMAIN sent' = Workers /\ \A v \in Workers : IsTable(sent'[v])
      BY <3>1, MaybeWriteType DEF TypeOK
    <3> QED BY <1>12, <2>2, <3>2 DEF TypeOK, RunOncePublish, WorkerPcs
  <2> QED BY <2>1, <2>2
<1>13. ASSUME NEW w \in Workers, RunOnceRelease(w) PROVE TypeOK'
  <2>1. call' \in [Workers -> Call(Workers)]
    BY <1>13, CallOpsType DEF TypeOK, RunOnceRelease
  <2> QED BY SMTT(60), <1>13, <2>1 DEF TypeOK, RunOnceRelease, WorkerPcs
<1>14. ASSUME NEW w \in Workers, RunOnceReturn(w) PROVE TypeOK'
  BY <1>14 DEF TypeOK, RunOnceReturn, WorkerPcs
<1>15. ASSUME NEW w \in Workers, CallBreaks(w) PROVE TypeOK'
  <2>1. call' \in [Workers -> Call(Workers)]
    BY <1>15, CallOpsType DEF TypeOK, CallBreaks
  <2> QED BY ZenonT(40), <1>15, <2>1 DEF TypeOK, CallBreaks
<1>16. ASSUME NEW w \in Workers, OnReadDone(w) PROVE TypeOK'
  <2>1. call' \in [Workers -> Call(Workers)]
    BY <1>16, CallOpsType DEF TypeOK, OnReadDone, ReadStates
  <2> QED BY <1>16, <2>1 DEF TypeOK, OnReadDone
<1>17. ASSUME NEW w \in Workers, NotifyConnected(w) PROVE TypeOK'
  <2>1. call' \in [Workers -> Call(Workers)]
    BY <1>17, CallOpsType DEF TypeOK, NotifyConnected, ReadStates
  <2> QED BY ZenonT(40), <1>17, <2>1 DEF TypeOK, NotifyConnected, StreamStates
<1>18. ASSUME NEW w \in Workers, Dispatch(w) PROVE TypeOK'
  <2>1. call' \in [Workers -> Call(Workers)]
    BY <1>18, CallOpsType DEF TypeOK, Dispatch, ReadStates
  <2> QED BY ZenonT(40), <1>18, <2>1 DEF TypeOK, Dispatch
<1>19. ASSUME NEW w \in Workers, OnReadClosed(w) \/ OnWriteFailed(w) PROVE TypeOK'
  <2>1. HoldToRelease \in Ptr
    BY DEF TypeOK, HoldToRelease
  <2>2. call' \in [Workers -> Call(Workers)]
    <3>1. call[w] \in Call(Workers)
      BY DEF TypeOK
    <3>2. /\ ReadClosed(call[w], HoldToRelease) \in Call(Workers)
          /\ WriteAnswered(call[w], HoldToRelease) \in Call(Workers)
      BY <2>1, <3>1, CallOpsType
    <3> QED BY <1>19, <3>2 DEF TypeOK, OnReadClosed, OnWriteFailed
  <2> QED BY <1>19, <2>2 DEF TypeOK, OnReadClosed, OnWriteFailed, handle_read_closed
<1>20. ASSUME NEW w \in Workers, OnReadRelease(w) PROVE TypeOK'
  <2> DEFINE held == [call EXCEPT ![w] = ReadReturns(@)]
  <2>1. held \in [Workers -> Call(Workers)]
    BY CallOpsType DEF TypeOK
  <2>2. call[w].rrel \in Workers
    BY <1>20 DEF OnReadRelease, TypeOK, Call
  <2>3. call' = [held EXCEPT ![call[w].rrel] = RemoveHold(@)]
    BY <1>20 DEF OnReadRelease
  <2> HIDE DEF held
  <2>4. call' \in [Workers -> Call(Workers)]
    BY <2>1, <2>2, <2>3, CallOpsType
  <2> QED BY ZenonT(40), <1>20, <2>4 DEF TypeOK, OnReadRelease
<1>21. ASSUME NEW w \in Workers, OnWriteRelease(w) PROVE TypeOK'
  <2> DEFINE held == [call EXCEPT ![w] = WriteReturns(@)]
  <2>1. held \in [Workers -> Call(Workers)]
    BY CallOpsType DEF TypeOK
  <2>2. call[w].wrel \in Workers
    BY <1>21 DEF OnWriteRelease, TypeOK, Call
  <2>3. call' = [held EXCEPT ![call[w].wrel] = RemoveHold(@)]
    BY <1>21 DEF OnWriteRelease
  <2> HIDE DEF held
  <2>4. call' \in [Workers -> Call(Workers)]
    BY <2>1, <2>2, <2>3, CallOpsType
  <2> QED BY ZenonT(40), <1>21, <2>4 DEF TypeOK, OnWriteRelease
<1>22. ASSUME NEW w \in Workers, OnWriteDone(w) PROVE TypeOK'
  <2> DEFINE answered == [call EXCEPT ![w] = WriteAnswered(@, None)]
  <2>1. answered \in [Workers -> Call(Workers)]
    BY CallOpsType DEF TypeOK
  <2>2. maybe_write_locked(reactor, FALSE, write_queue, answered)
    BY <1>22 DEF OnWriteDone
  <2> HIDE DEF answered
  <2>3. /\ write_in_flight' \in BOOLEAN
        /\ write_queue' \in Seq(Request)
        /\ call' \in [Workers -> Call(Workers)]
        /\ DOMAIN sent' = Workers /\ \A v \in Workers : IsTable(sent'[v])
    BY <2>1, <2>2, MaybeWriteType DEF TypeOK
  <2> QED BY <1>22, <2>3 DEF TypeOK, OnWriteDone
<1>23. ASSUME NEW w \in Workers, OnDone(w) PROVE TypeOK'
  <2>1. call' \in [Workers -> Call(Workers)]
    BY <1>23, CallOpsType DEF TypeOK, OnDone
  <2> QED BY <1>23, <2>1 DEF TypeOK, OnDone
<1>24. ASSUME NEW a \in Calls, send(a.request, a.remember) PROVE TypeOK'
  <2> DEFINE r == a.request
  <2>1. r \in Request /\ a.remember \in BOOLEAN
    BY CallsAssumption
  <2>2. IsTable(subscriptions')
    BY <1>24, <2>1, ApplyTable DEF send, TypeOK
  <2>3. Touched(r) \subseteq Key
    BY <2>1, KeysOfType DEF Touched
  <2>4. unsynced' \subseteq Key
    BY <1>24, <2>3 DEF send, NextUnsynced, TypeOK
  <2>5. /\ write_in_flight' \in BOOLEAN
        /\ write_queue' \in Seq(Request)
        /\ call' \in [Workers -> Call(Workers)]
        /\ DOMAIN sent' = Workers /\ \A v \in Workers : IsTable(sent'[v])
    <3>1. CASE ~stopping /\ Live
      <4>1. maybe_write_locked(reactor, write_in_flight, Append(write_queue, r), call)
        BY <1>24, <3>1 DEF send
      <4>2. Append(write_queue, r) \in Seq(Request)
        BY SMTT(60), <2>1 DEF TypeOK
      <4> QED BY <4>1, <4>2, MaybeWriteType DEF TypeOK
    <3>2. CASE ~(~stopping /\ Live)
      BY <1>24, <3>2 DEF send, TypeOK
    <3> QED BY <3>1, <3>2
  <2>6. calls' \in 0..MaxCalls
    BY SMTT(60), <1>24, CallsAssumption DEF send, TypeOK
  <2> QED BY <1>24, <2>2, <2>4, <2>5, <2>6 DEF TypeOK, send
<1>25. CASE UNCHANGED vars
  BY SMTT(60), <1>25 DEF TypeOK, vars
<1>26. ASSUME NEW c \in Controllers, Control(c) PROVE TypeOK'
  BY <1>1, <1>2, <1>3, <1>4, <1>26 DEF Control
<1>27. ASSUME NEW w \in Workers, Run(w) PROVE TypeOK'
  BY <1>6, <1>7, <1>8, <1>9, <1>10, <1>11, <1>12, <1>13, <1>14, <1>27 DEF Run
<1>28. ASSUME NEW w \in Workers, Callback(w) PROVE TypeOK'
  BY <1>16, <1>17, <1>18, <1>19, <1>20, <1>21, <1>22, <1>23, <1>28 DEF Callback
<1> QED BY <1>15, <1>24, <1>25, <1>26, <1>27, <1>28 DEF Next

(* Types, and the bound of the reconnect delay (run(), lines 141-143), for *)
(* any number of threads that call start() and stop().                     *)
THEOREM TypeCorrect == Spec => []TypeOK
<1>1. ASSUME Init PROVE TypeOK
  <2>1. IsTable(subscriptions) /\ DOMAIN sent = Workers
        /\ \A w \in Workers : IsTable(sent[w])
    BY <1>1, EmptyTableFacts DEF Init
  <2>2. call \in [Workers -> Call(Workers)]
    BY <1>1, NewCallType DEF Init
  <2>3. /\ attempt \in [Workers -> 0..MaxShift]
        /\ delay \in [Workers -> 0..max_backoff]
        /\ calls \in 0..MaxCalls
    BY SMTT(60), <1>1, BackoffAssumption, CallsAssumption DEF Init
  <2>4. write_queue \in Seq(Request) /\ unsynced \subseteq Key
    BY SMTT(60), <1>1 DEF Init
  <2> QED BY <1>1, <2>1, <2>2, <2>3, <2>4
          DEF Init, TypeOK, Ptr, WorkerPcs, StreamStates
<1> QED BY <1>1, TypeStep, PTL DEF Spec

-----------------------------------------------------------------------------
IInv == TypeOK /\ WorkerOwned /\ CallInv

LEMMA IInvInit ==
  ASSUME Init, TypeOK
  PROVE  IInv
<1>1. WorkerOwned
  BY DEF Init, WorkerOwned
<1>2. CallInv
  BY SMTT(60), NewCallFields, NoneAssumption
  DEF Init, CallInv, InvOf, CallShape, WriteInv, HoldInv, OneClaim, Claimed,
      ClaimStop, InScope
<1> QED BY <1>1, <1>2 DEF IInv

LEMMA IInvStep ==
  ASSUME OneController, IInv, [Next]_vars
  PROVE  IInv'
<1>1. TypeOK /\ TypeOK' /\ WorkerOwned /\ WorkerOwned' /\ CallInv
  BY TypeStep, OwnedStep DEF IInv
<1>2. CASE UNCHANGED vars
  BY <1>1, <1>2, OthersKept
  DEF CallInv, IInv, vars, flags, ptrs, output, locals, ctl, user, members
<1>3. CASE \E c \in Controllers : Control(c)
  BY <1>1, <1>3, ControlStep DEF IInv
<1>4. CASE \E w \in Workers : Run(w) \/ CallBreaks(w) \/ Callback(w)
  BY <1>1, <1>4, RunStep, CallStep, CallbackStep DEF Callback, IInv
<1>5. CASE \E a \in Calls : send(a.request, a.remember)
  BY <1>1, <1>5, SendStep DEF IInv
<1> QED BY <1>2, <1>3, <1>4, <1>5 DEF Next

LEMMA IInvHolds ==
  ASSUME OneController
  PROVE  Spec => []IInv
<1>1. ASSUME Init, TypeOK PROVE IInv
  BY <1>1, IInvInit
<1>2. ASSUME IInv, [Next]_vars PROVE IInv'
  BY <1>2, IInvStep
<1> QED BY <1>1, <1>2, TypeCorrect, PTL DEF Spec

-----------------------------------------------------------------------------
(* No thread can reach a destroyed ClientContext or Reactor: run_once()    *)
(* keeps its frame (lines 152-193) until the last callback has returned    *)
(* and nobody holds a pointer into it.                                     *)
THEOREM NoDangling ==
  ASSUME OneController
  PROVE  Spec => []NoDanglingPointer
<1>1. ASSUME IInv PROVE NoDanglingPointer
  BY SMTT(60), <1>1, NoneAssumption
  DEF IInv, TypeOK, Ptr, CallInv, InvOf, CallShape, HoldInv, Claimed, ClaimStop,
      InScope, NoDanglingPointer
<1> QED BY <1>1, IInvHolds, PTL

(* The four places that may remove the hold (stop(), the two callbacks and *)
(* the publication of the reactor) remove it exactly once per call.        *)
THEOREM HoldOnce ==
  ASSUME OneController
  PROVE  Spec => []HoldReleasedOnce
<1>1. ASSUME IInv PROVE HoldReleasedOnce
  BY <1>1 DEF IInv, CallInv, InvOf, HoldInv, HoldReleasedOnce
<1> QED BY <1>1, IInvHolds, PTL

(* Whatever threads call send(), there is one StartWrite() at a time. *)
THEOREM OneWrite ==
  ASSUME OneController
  PROVE  Spec => []OneWriteAtATime
<1>1. ASSUME IInv PROVE OneWriteAtATime
  BY <1>1 DEF IInv, CallInv, InvOf, WriteInv, OneWriteAtATime
<1> QED BY <1>1, IInvHolds, PTL

(* Once the read side of a published reactor has closed, its hold is gone  *)
(* or some thread is about to remove it, so OnDone can come.               *)
THEOREM HoldKept ==
  ASSUME OneController
  PROVE  Spec => []HoldNotLeaked
<1>1. ASSUME IInv PROVE HoldNotLeaked
  BY SMTT(60), <1>1 DEF IInv, CallInv, InvOf, CallShape, HoldInv, Claimed, ClaimStop,
              HoldNotLeaked
<1> QED BY <1>1, IInvHolds, PTL

-----------------------------------------------------------------------------
(* When stop() returns, gRPC has no call of the stream left: OnDone has    *)
(* come and run() has ended.                                               *)
THEOREM StopWaits ==
  ASSUME OneController
  PROVE  Spec => StopWaitsForOnDone
<1>1. ASSUME IInv, IInv', [Next]_vars
      PROVE  [\A c \in Controllers :
                cpc[c] = "join" /\ cpc'[c] = "idle" /\ stopping' =>
                  \A w \in Workers : call'[w].phase # "started"]_vars
  <2> SUFFICES ASSUME NEW c \in Controllers, cpc[c] = "join", cpc'[c] = "idle",
                      NEW w \in Workers, call'[w].phase = "started"
               PROVE  FALSE
    OBVIOUS
  <2>1. pc'[w] # "idle"
    BY <1>1 DEF IInv, CallInv, InvOf, CallShape
  <2>2. worker' = w
    <3>1. worker' = w \/ \E d \in Controllers : joining'[d] = w
      BY <1>1, <2>1 DEF IInv, WorkerOwned
    <3>2. joining'[c] = None
      BY <1>1 DEF IInv, WorkerOwned
    <3> QED BY <3>1, <3>2, NoneAssumption DEF OneController
  <2>3. worker = None
    BY <1>1 DEF IInv, WorkerOwned
  <2>4. UNCHANGED worker
    <3>1. ASSUME NEW d \in Controllers, start(d) \/ StopLocked(d) PROVE FALSE
      BY <3>1 DEF OneController, start, StopLocked
    <3>2. ASSUME NEW d \in Controllers, Control(d) PROVE UNCHANGED worker
      BY <3>1, <3>2 DEF Control, StopRelease, StopJoin, ptrs
    <3>3. ASSUME NEW v \in Workers, Run(v) \/ CallBreaks(v) \/ Callback(v)
          PROVE  UNCHANGED worker
      BY <3>3 DEF Run, RunCheck, RunReturned, BackoffOver, BreakOrGoOn, notify,
           NotifyConnecting, NotifyStopped, NotifyDisconnected, RunOnceCancelled,
           RunOnceSetup, RunOnceBegin, RunOncePublish, RunOnceRelease, RunOnceReturn,
           CallBreaks, Callback, OnReadDone, NotifyConnected, Dispatch, OnReadClosed,
           OnReadRelease, OnWriteDone, OnWriteFailed, OnWriteRelease, OnDone,
           handle_read_closed, members, ptrs
    <3>4. ASSUME NEW a \in Calls, send(a.request, a.remember) PROVE UNCHANGED worker
      BY <3>4 DEF send, ptrs
    <3>5. CASE UNCHANGED vars
      BY <3>5 DEF vars, members, ptrs
    <3> QED BY <1>1, <3>2, <3>3, <3>4, <3>5 DEF Next
  <2> QED BY <2>2, <2>3, <2>4, NoneAssumption
<1> QED BY <1>1, IInvHolds, PTL DEF Spec, StopWaitsForOnDone

(* After stop() and until the next start() no handler runs, on_state is    *)
(* not called and gRPC is left alone.                                      *)
THEOREM Quiet ==
  ASSUME OneController
  PROVE  Spec => QuietAfterStop
<1>1. ASSUME IInv, [Next]_vars
      PROVE  [Stopped => UNCHANGED <<notified, call>>]_vars
  <2> SUFFICES ASSUME Stopped, Next PROVE UNCHANGED <<notified, call>>
    BY <1>1 DEF vars
  <2>1. \A w \in Workers : pc[w] = "idle"
    BY <1>1, NoneAssumption DEF Stopped, IInv, WorkerOwned
  <2>2. \A w \in Workers : Resting(w)
    BY <1>1, <2>1, InvOfResting DEF IInv, CallInv, InScope
  <2>3. ctx = None
    BY <1>1, <2>2 DEF IInv, TypeOK, Ptr, Resting
  <2>4. ASSUME NEW c \in Controllers, Control(c) PROVE UNCHANGED <<notified, call>>
    BY <2>3, <2>4 DEF Stopped, Control, start, StopLocked, ContextCancelled,
         StopRelease, StopJoin
  <2>5. ASSUME NEW w \in Workers, Run(w) PROVE FALSE
    BY <2>1, <2>5 DEF Run, RunCheck, RunReturned, BackoffOver, BreakOrGoOn, notify,
         NotifyConnecting, NotifyStopped, NotifyDisconnected, RunOnceCancelled,
         RunOnceSetup, RunOnceBegin, RunOncePublish, RunOnceRelease, RunOnceReturn
  <2>6. ASSUME NEW w \in Workers, CallBreaks(w) \/ Callback(w) PROVE FALSE
    <3>1. /\ call[w].phase # "started" /\ ~(call[w].wr > 0)
          /\ call[w].rd \notin {"pending", "notify", "dispatch"}
          /\ call[w].rrel = None /\ call[w].wrel = None
      BY SMTT(60), <2>2 DEF Resting
    <3>2. ~MayFinish(call[w])
      BY <3>1 DEF MayFinish
    <3>3. ~CallBreaks(w) /\ ~OnReadDone(w) /\ ~NotifyConnected(w) /\ ~Dispatch(w)
      BY <3>1 DEF CallBreaks, OnReadDone, NotifyConnected, Dispatch
    <3>4. ~OnReadClosed(w) /\ ~OnReadRelease(w) /\ ~OnWriteFailed(w)
      BY <3>1 DEF OnReadClosed, OnReadRelease, OnWriteFailed
    <3>5. ~OnWriteDone(w) /\ ~OnWriteRelease(w) /\ ~OnDone(w)
      BY <3>1, <3>2 DEF OnWriteDone, OnWriteRelease, OnDone
    <3> QED BY <2>6, <3>3, <3>4, <3>5 DEF Callback
  <2>7. ASSUME NEW a \in Calls, send(a.request, a.remember)
        PROVE  UNCHANGED <<notified, call>>
    BY <2>7 DEF send, Stopped
  <2> QED BY <2>4, <2>5, <2>6, <2>7 DEF Next
<1> QED BY <1>1, IInvHolds, PTL DEF Spec, QuietAfterStop

-----------------------------------------------------------------------------
(* The order of the notifications: StreamLifecycle *)

(* What on_state_ was last told follows from the control point of the      *)
(* worker and, while a call is open, from got_data_ and the read; and      *)
(* got_data_ is about the call that the worker made last.                  *)
ToldBy(w) ==
  /\ pc[w] \in {"loop", "connecting"} => notified \in {"none", "disconnected", "stopped"}
  /\ pc[w] = "setup" => notified = "connecting"
  /\ InScope(w) =>
       /\ call[w].rd \in {"notify", "dispatch"} => got_data
       /\ notified = IF got_data /\ call[w].rd # "notify" THEN "connected" ELSE "connecting"
       /\ call[w].data = got_data
  /\ pc[w] \in {"returned", "disconnected"} => notified \in {"connecting", "connected"}
  /\ pc[w] = "returned" /\ ~stopping => call[w].data = got_data
  /\ pc[w] = "disconnected" => call[w].data = got_data
  /\ pc[w] = "backoff" => notified = "disconnected"
  /\ pc[w] = "finished" => notified = "stopped"

Told ==
  /\ \A w \in Workers : ToldBy(w)
  /\ (\A w \in Workers : pc[w] = "idle") => notified \in {"none", "stopped"}

Handling == \E w \in Workers : call[w].rd = "dispatch"

(* What a step of the worker w or of a callback on its call says of w, it  *)
(* says of the stream.                                                     *)
LEMMA WorkerTold ==
  ASSUME OneController, IInv, Told, NEW w \in Workers,
         pc[w] # "idle", pc'[w] # "idle", ToldBy(w)',
         \A v \in Workers : v # w => pc'[v] = pc[v] /\ call'[v] = call[v]
  PROVE  /\ Told'
         /\ Handling = (call[w].rd = "dispatch")
         /\ Handling' = (call'[w].rd = "dispatch")
<1>1. ASSUME NEW v \in Workers, v # w
      PROVE  pc'[v] = "idle" /\ call[v].rd # "dispatch" /\ call'[v].rd # "dispatch"
  <2>1. pc[v] = "idle"
    BY <1>1, OneWorker DEF IInv
  <2>2. call[v].rd \in {"none", "closed"}
    BY <2>1, InvOfResting DEF IInv, CallInv, InScope, Resting
  <2> QED BY <1>1, <2>1, <2>2
<1>2. Told'
  BY <1>1 DEF Told, ToldBy, InScope
<1> QED BY <1>1, <1>2 DEF Handling

(* Steps that leave the read side alone say nothing. *)
LEMMA SilentTold ==
  ASSUME Told, UNCHANGED <<notified, got_data>>, stopping => stopping',
         \A w \in Workers : pc'[w] = pc[w] /\ SameReading(call[w], call'[w])
  PROVE  Told' /\ UNCHANGED <<notified, Handling>>
<1>1. \A w \in Workers : call'[w].rd = call[w].rd /\ call'[w].data = call[w].data
  BY DEF SameReading
<1>2. ASSUME NEW w \in Workers PROVE ToldBy(w)'
  BY <1>1 DEF Told, ToldBy, InScope
<1>3. (\A w \in Workers : pc'[w] = "idle") => notified' \in {"none", "stopped"}
  BY DEF Told
<1>4. UNCHANGED Handling
  BY <1>1 DEF Handling
<1> QED BY <1>2, <1>3, <1>4 DEF Told

LEMMA WriteReading ==
  ASSUME NEW r \in Ptr, NEW f, NEW q, NEW cs \in [Workers -> Call(Workers)],
         maybe_write_locked(r, f, q, cs)
  PROVE  \A v \in Workers : SameReading(cs[v], call'[v])
<1>1. CASE MayWrite(r, f, q)
  <2>1. r \in Workers /\ call' = [cs EXCEPT ![r] = StartWrite(cs[r])]
    BY <1>1 DEF MayWrite, Ptr, maybe_write_locked
  <2>2. SameReading(cs[r], StartWrite(cs[r]))
    BY <2>1, ReadingKept
  <2>3. ASSUME NEW v \in Workers PROVE SameReading(cs[v], call'[v])
    <3>1. CASE v = r
      BY <2>1, <2>2, <3>1
    <3>2. CASE v # r
      BY <2>1, <3>2 DEF SameReading
    <3> QED BY <3>1, <3>2
  <2> QED BY <2>3
<1>2. CASE ~MayWrite(r, f, q)
  BY <1>2 DEF maybe_write_locked, SameReading
<1> QED BY <1>1, <1>2

LEMMA RunTold ==
  ASSUME OneController, IInv, Told, NEW w \in Workers, Run(w)
  PROVE  Told' /\ [Lifecycle!Next]_<<notified, Handling>>
<1> USE DEF flags, ptrs, output, locals, ctl, user, members
<1>i. TypeOK /\ ToldBy(w) /\ CallShape(w) /\ call[w] \in Call(Workers)
  BY DEF IInv, Told, CallInv, InvOf, TypeOK
<1>1. ASSUME pc[w] \in WorkerPcs \ {"idle"}, NEW to \in WorkerPcs \ {"idle"},
             pc' = [pc EXCEPT ![w] = to], ToldBy(w)', UNCHANGED call
      PROVE  Told' /\ Handling = (call[w].rd = "dispatch") /\ UNCHANGED Handling
  <2>1. pc'[w] # "idle" /\ \A v \in Workers : v # w => pc'[v] = pc[v] /\ call'[v] = call[v]
    BY <1>i, <1>1 DEF TypeOK
  <2> QED BY <1>1, <2>1, WorkerTold
<1>2. ASSUME NEW from \in {"loop", "returned", "backoff"},
             NEW to \in {"connecting", "disconnected", "loop"},
             BreakOrGoOn(w, from, to),
             <<from, to>> \in {<<"loop", "connecting">>, <<"returned", "disconnected">>,
                               <<"backoff", "loop">>}
      PROVE  Told' /\ UNCHANGED <<notified, Handling>>
  <2>1. /\ pc[w] = from /\ pc'[w] = (IF stopping THEN "exit" ELSE to)
        /\ UNCHANGED <<notified, got_data, call, stopping>>
        /\ pc' = [pc EXCEPT ![w] = IF stopping THEN "exit" ELSE to]
    BY <1>i, <1>2 DEF BreakOrGoOn, TypeOK
  <2>2. ToldBy(w)'
    BY <1>i, <1>2, <2>1, SMT DEF ToldBy, InScope
  <2>3. pc[w] \in WorkerPcs \ {"idle"} /\ (IF stopping THEN "exit" ELSE to) \in WorkerPcs \ {"idle"}
    BY <2>1 DEF WorkerPcs
  <2> QED BY <1>1, <2>1, <2>2, <2>3
<1>3. CASE RunCheck(w) \/ RunReturned(w) \/ BackoffOver(w)
  BY <1>2, <1>3 DEF RunCheck, RunReturned, BackoffOver
<1>r. ASSUME ~InScope(w) PROVE call[w].rd # "dispatch"
  BY <1>i, <1>r DEF CallShape, InScope
<1>4. CASE NotifyConnecting(w)
  <2>1. /\ pc[w] = "connecting" /\ pc' = [pc EXCEPT ![w] = "setup"] /\ pc'[w] = "setup"
        /\ notified' = "connecting" /\ UNCHANGED call
    BY <1>i, <1>4 DEF NotifyConnecting, notify, TypeOK
  <2>2. ToldBy(w)' /\ notified \in {"none", "disconnected", "stopped"}
    BY <1>i, <2>1 DEF ToldBy, InScope
  <2>3. Told' /\ ~Handling /\ ~Handling'
    BY <1>1, <1>r, <2>1, <2>2 DEF WorkerPcs, InScope
  <2> QED BY <2>1, <2>2, <2>3 DEF Handling, Lifecycle!Next, Lifecycle!Connecting
<1>5. CASE NotifyStopped(w)
  <2>1. /\ pc[w] = "exit" /\ pc' = [pc EXCEPT ![w] = "finished"] /\ pc'[w] = "finished"
        /\ notified' = "stopped" /\ UNCHANGED call
    BY <1>i, <1>5 DEF NotifyStopped, notify, TypeOK
  <2>2. ToldBy(w)'
    BY <2>1 DEF ToldBy, InScope
  <2>3. Told' /\ ~Handling /\ ~Handling'
    BY <1>1, <1>r, <2>1, <2>2 DEF WorkerPcs, InScope
  <2> QED BY <2>1, <2>3 DEF Handling, Lifecycle!Next, Lifecycle!Stopped
<1>6. CASE NotifyDisconnected(w)
  <2>1. PICK to : to = AfterBreak(reconnect)
    OBVIOUS
  <2>2. to \in {"backoff", "exit"}
    BY <2>1 DEF AfterBreak
  <2>3. /\ pc[w] = "disconnected" /\ pc' = [pc EXCEPT ![w] = to] /\ pc'[w] = to
        /\ notified' = "disconnected" /\ UNCHANGED call
    BY <1>i, <1>6, <2>1 DEF NotifyDisconnected, notify, TypeOK
  <2>4. ToldBy(w)' /\ notified \in {"connecting", "connected"}
    BY <1>i, <2>2, <2>3 DEF ToldBy, InScope
  <2>5. Told' /\ ~Handling /\ ~Handling'
    BY <1>1, <1>r, <2>2, <2>3, <2>4 DEF WorkerPcs, InScope
  <2> QED BY <2>3, <2>4, <2>5 DEF Handling, Lifecycle!Next, Lifecycle!Disconnected
<1>7. CASE RunOnceCancelled(w)
  <2>1. /\ pc[w] = "setup" /\ pc' = [pc EXCEPT ![w] = "returned"] /\ pc'[w] = "returned"
        /\ stopping /\ UNCHANGED <<notified, got_data, call, stopping>>
    BY <1>i, <1>7 DEF RunOnceCancelled, TypeOK
  <2>2. ToldBy(w)'
    BY <1>i, <2>1 DEF ToldBy, InScope
  <2> QED BY <1>1, <2>1, <2>2 DEF WorkerPcs
<1>8. CASE RunOnceReturn(w)
  <2>1. /\ pc[w] = "wait" /\ pc' = [pc EXCEPT ![w] = "returned"] /\ pc'[w] = "returned"
        /\ UNCHANGED <<notified, got_data, call, stopping>>
    BY <1>i, <1>8 DEF RunOnceReturn, TypeOK
  <2>2. ToldBy(w)'
    BY <1>i, <2>1 DEF ToldBy, InScope
  <2> QED BY <1>1, <2>1, <2>2 DEF WorkerPcs
<1>9. ASSUME NEW k, \A v \in Workers : call'[v] = IF v = w THEN k ELSE call[v],
             (k.rd = "dispatch") = (call[w].rd = "dispatch"),
             pc[w] # "idle", NEW to \in WorkerPcs \ {"idle"}, pc' = [pc EXCEPT ![w] = to],
             ToldBy(w)'
      PROVE  Told' /\ UNCHANGED Handling
  <2>1. /\ pc'[w] # "idle" /\ call'[w] = k
        /\ \A v \in Workers : v # w => pc'[v] = pc[v] /\ call'[v] = call[v]
    BY <1>i, <1>9 DEF TypeOK
  <2> QED BY <1>9, <2>1, WorkerTold
<1>10. CASE RunOnceSetup(w)
  <2>1. /\ pc[w] = "setup" /\ pc' = [pc EXCEPT ![w] = "bind"] /\ pc'[w] = "bind"
        /\ \A v \in Workers : call'[v] = IF v = w THEN NewCall ELSE call[v]
        /\ got_data' = FALSE /\ UNCHANGED notified
    BY <1>i, <1>10 DEF RunOnceSetup, TypeOK
  <2>2. NewCall.rd = "none" /\ NewCall.data = FALSE
    BY <1>i, NewCallFields, DataFields
  <2>3. ToldBy(w)'
    BY <1>i, <2>1, <2>2 DEF ToldBy, InScope
  <2>4. ~InScope(w)
    BY <2>1 DEF InScope
  <2>5. (NewCall.rd = "dispatch") = FALSE /\ (call[w].rd = "dispatch") = FALSE
    BY <1>r, <2>2, <2>4
  <2> QED BY <1>9, <2>1, <2>3, <2>5 DEF WorkerPcs
<1>11. CASE RunOnceBegin(w)
  <2>1. PICK k : k = StartCall(call[w], 1)
    OBVIOUS
  <2>2. /\ pc[w] = "bind" /\ pc' = [pc EXCEPT ![w] = "publish"] /\ pc'[w] = "publish"
        /\ \A v \in Workers : call'[v] = IF v = w THEN k ELSE call[v]
        /\ UNCHANGED <<notified, got_data>>
    BY <1>i, <1>11, <2>1 DEF RunOnceBegin, TypeOK
  <2>3. k.rd = "pending" /\ k.data = call[w].data
    BY <1>i, <2>1, CallFields, DataFields
  <2>4. call[w].rd = "none"
    <3>1. SameReading(NewCall, TryCancel(NewCall))
      BY NewCallType, ReadingKept
    <3> QED BY <1>i, <2>2, <3>1, NewCallFields DEF CallShape, SameReading
  <2>5. ToldBy(w)'
    BY <1>i, <2>2, <2>3, <2>4 DEF ToldBy, InScope
  <2>6. (k.rd = "dispatch") = FALSE /\ (call[w].rd = "dispatch") = FALSE
    BY <2>3, <2>4
  <2> QED BY <1>9, <2>2, <2>5, <2>6 DEF WorkerPcs
<1>12. ASSUME pc[w] \in {"publish", "release"}, NEW to \in {"release", "wait"},
              pc' = [pc EXCEPT ![w] = to], UNCHANGED <<notified, got_data, stopping>>,
              \A v \in Workers : SameReading(call[v], call'[v])
       PROVE  Told' /\ UNCHANGED <<notified, Handling>>
  <2>1. \A v \in Workers : call'[v].rd = call[v].rd /\ call'[v].data = call[v].data
    BY <1>12 DEF SameReading
  <2>2. \A v \in Workers : pc'[v] = IF v = w THEN to ELSE pc[v]
    BY <1>i, <1>12 DEF TypeOK
  <2>3. ASSUME NEW v \in Workers PROVE ToldBy(v)'
    <3>1. CASE v = w
      BY <1>i, <1>12, <2>1, <2>2, <3>1 DEF ToldBy, InScope
    <3>2. CASE v # w
      <4>1. ToldBy(v) /\ pc'[v] = pc[v]
        BY <2>2, <3>2 DEF Told
      <4> QED BY <1>12, <2>1, <4>1 DEF ToldBy, InScope
    <3> QED BY <3>1, <3>2
  <2>4. pc'[w] # "idle"
    BY <2>2
  <2> QED BY <1>12, <2>1, <2>3, <2>4 DEF Told, Handling
<1>13. CASE RunOncePublish(w)
  <2>1. PICK to \in {"release", "wait"} : pc' = [pc EXCEPT ![w] = to]
    BY <1>13 DEF RunOncePublish
  <2>2. pc[w] = "publish" /\ UNCHANGED <<notified, got_data, stopping>>
    BY <1>13 DEF RunOncePublish
  <2>3. \/ UNCHANGED call
        \/ maybe_write_locked(w, write_in_flight, write_queue, call)
    BY <1>13 DEF RunOncePublish
  <2>4. \A v \in Workers : SameReading(call[v], call'[v])
    <3>1. CASE UNCHANGED call
      BY <3>1 DEF SameReading
    <3>2. CASE maybe_write_locked(w, write_in_flight, write_queue, call)
      BY <1>i, <3>2, WriteReading DEF TypeOK, Ptr
    <3> QED BY <2>3, <3>1, <3>2
  <2> QED BY <1>12, <2>1, <2>2, <2>4
<1>14. CASE RunOnceRelease(w)
  <2>1. /\ pc[w] = "release" /\ pc' = [pc EXCEPT ![w] = "wait"]
        /\ UNCHANGED <<notified, got_data, stopping>>
        /\ \A v \in Workers : call'[v] = IF v = w THEN RemoveHold(call[w]) ELSE call[v]
    BY <1>i, <1>14 DEF RunOnceRelease, TypeOK
  <2>2. SameReading(call[w], RemoveHold(call[w]))
    BY <1>i, ReadingKept
  <2>3. ASSUME NEW v \in Workers PROVE SameReading(call[v], call'[v])
    BY <2>1, <2>2 DEF SameReading
  <2> QED BY <1>12, <2>1, <2>3
<1> QED BY <1>3, <1>4, <1>5, <1>6, <1>7, <1>8, <1>10, <1>11, <1>13, <1>14 DEF Run

LEMMA CallTold ==
  ASSUME OneController, IInv, Told, NEW w \in Workers, CallBreaks(w) \/ Callback(w)
  PROVE  Told' /\ [Lifecycle!Next]_<<notified, Handling>>
<1> USE DEF flags, ptrs, output, locals, ctl, user, members
<1>i. TypeOK /\ ToldBy(w) /\ InvOf(w) /\ CallShape(w) /\ call[w] \in Call(Workers)
  BY DEF IInv, Told, CallInv, InvOf, TypeOK
<1>1. ASSUME UNCHANGED <<notified, got_data, stopping, pc>>,
             \A v \in Workers : SameReading(call[v], call'[v])
      PROVE  Told' /\ UNCHANGED <<notified, Handling>>
  BY <1>1, SilentTold
<1>2. ASSUME UNCHANGED <<notified, got_data, stopping, pc>>, NEW k, SameReading(call[w], k),
             call' = [call EXCEPT ![w] = k]
      PROVE  Told' /\ UNCHANGED <<notified, Handling>>
  <2>1. ASSUME NEW v \in Workers PROVE SameReading(call[v], call'[v])
    <3>1. CASE v = w
      BY <1>i, <1>2, <3>1 DEF TypeOK
    <3>2. CASE v # w
      BY <1>i, <1>2, <3>2 DEF TypeOK, SameReading
    <3> QED BY <3>1, <3>2
  <2> QED BY <1>1, <1>2, <2>1
<1>3. CASE CallBreaks(w)
  BY <1>2, <1>3, <1>i, ReadingKept DEF CallBreaks
<1>4. CASE OnDone(w)
  BY <1>2, <1>4, <1>i, ReadingKept DEF OnDone
<1>5. CASE OnWriteFailed(w)
  BY <1>2, <1>5, <1>i, ReadingKept DEF OnWriteFailed, handle_read_closed
<1>6. CASE OnWriteDone(w)
  <2>1. PICK cs : cs = [call EXCEPT ![w] = WriteAnswered(call[w], None)]
    OBVIOUS
  <2>2. cs \in [Workers -> Call(Workers)]
    BY <1>i, <2>1, CallOpsType DEF TypeOK
  <2>3. maybe_write_locked(reactor, FALSE, write_queue, cs)
    BY <1>6, <2>1 DEF OnWriteDone
  <2>4. ASSUME NEW v \in Workers PROVE SameReading(call[v], call'[v])
    <3>1. SameReading(cs[v], call'[v])
      BY <1>i, <2>2, <2>3, WriteReading DEF TypeOK
    <3>2. SameReading(call[w], WriteAnswered(call[w], None))
      BY <1>i, ReadingKept
    <3>3. cs[v] = IF v = w THEN WriteAnswered(call[w], None) ELSE call[v]
      BY <1>i, <2>1 DEF TypeOK
    <3> QED BY <3>1, <3>2, <3>3 DEF SameReading
  <2>5. UNCHANGED <<notified, got_data, stopping, pc>>
    BY <1>6 DEF OnWriteDone
  <2> QED BY <1>1, <2>4, <2>5
<1>7. ASSUME NEW d, NEW x \in Workers, SameReading(call[w], d), d \in Call(Workers),
             x = w, call' = [[call EXCEPT ![w] = d] EXCEPT ![x] = RemoveHold(@)],
             UNCHANGED <<notified, got_data, stopping, pc>>
      PROVE  Told' /\ UNCHANGED <<notified, Handling>>
  <2>1. \A v \in Workers : call'[v] = IF v = w THEN RemoveHold(d) ELSE call[v]
    BY <1>i, <1>7 DEF TypeOK
  <2>2. SameReading(d, RemoveHold(d))
    BY <1>7, ReadingKept
  <2>3. ASSUME NEW v \in Workers PROVE SameReading(call[v], call'[v])
    BY <1>7, <2>1, <2>2 DEF SameReading
  <2> QED BY <1>1, <1>7, <2>3
<1>8. CASE OnReadRelease(w)
  <2>1. call[w].rrel = w
    BY <1>8, <1>i DEF OnReadRelease, CallShape
  <2>2. SameReading(call[w], ReadReturns(call[w])) /\ ReadReturns(call[w]) \in Call(Workers)
    BY <1>i, ReadingKept, CallOpsType
  <2> QED BY <1>7, <1>8, <2>1, <2>2 DEF OnReadRelease
<1>9. CASE OnWriteRelease(w)
  <2>1. call[w].wrel = w
    BY <1>9, <1>i DEF OnWriteRelease, CallShape
  <2>2. SameReading(call[w], WriteReturns(call[w])) /\ WriteReturns(call[w]) \in Call(Workers)
    BY <1>i, ReadingKept, CallOpsType
  <2> QED BY <1>7, <1>9, <2>1, <2>2 DEF OnWriteRelease
<1>10. ASSUME call[w].phase = "started" \/ call[w].rd \in {"notify", "dispatch"},
              NEW k, call' = [call EXCEPT ![w] = k], UNCHANGED pc,
              k.rd \in {"notify", "dispatch"} => got_data', k.data = got_data',
              notified' = IF got_data' /\ k.rd # "notify" THEN "connected" ELSE "connecting"
       PROVE  /\ Told' /\ Handling = (call[w].rd = "dispatch")
              /\ Handling' = (k.rd = "dispatch")
  <2>1. call'[w] = k /\ \A v \in Workers : v # w => pc'[v] = pc[v] /\ call'[v] = call[v]
    BY <1>i, <1>10 DEF TypeOK
  <2>2. pc[w] \in {"publish", "release", "wait"}
    BY <1>i, <1>10 DEF CallShape
  <2>3. ToldBy(w)'
    BY <1>10, <2>1, <2>2 DEF ToldBy, InScope
  <2> QED BY <1>10, <2>1, <2>2, <2>3, WorkerTold
<1>t. ASSUME call[w].phase = "started" \/ call[w].rd \in {"notify", "dispatch"}
      PROVE  /\ call[w].rd \in {"notify", "dispatch"} => got_data
             /\ notified = IF got_data /\ call[w].rd # "notify" THEN "connected" ELSE "connecting"
             /\ call[w].data = got_data
  <2>1. InScope(w)
    BY <1>i, <1>t DEF CallShape, InScope
  <2> QED BY <1>i, <2>1 DEF ToldBy
<1>11. CASE OnReadDone(w)
  <2>1. PICK rd : rd = IF FirstMessage THEN "notify" ELSE "dispatch"
    OBVIOUS
  <2>k. PICK k : k = ReadMessage(call[w], rd)
    OBVIOUS
  <2>2. k.rd = rd /\ k.data = TRUE
    <3>1. k.rd = rd
      BY <1>i, <2>k, CallbackFields
    <3>2. k.data = TRUE
      BY <1>i, <2>k, DataFields
    <3> QED BY <3>1, <3>2
  <2>3. /\ call' = [call EXCEPT ![w] = k] /\ got_data' = TRUE
        /\ call[w].rd = "pending" /\ call[w].phase = "started" /\ UNCHANGED <<pc, notified>>
    BY <1>11, <2>1, <2>k DEF OnReadDone
  <2>4. rd = IF got_data THEN "dispatch" ELSE "notify"
    BY <2>1 DEF FirstMessage
  <2>5. notified = IF got_data THEN "connected" ELSE "connecting"
    BY <1>t, <2>3
  <2>6. notified' = IF got_data' /\ rd # "notify" THEN "connected" ELSE "connecting"
    BY <2>3, <2>4, <2>5
  <2>7. Told' /\ Handling = FALSE /\ Handling' = (rd = "dispatch")
    <3>1. k.rd \in {"notify", "dispatch"} => got_data'
      BY <2>3
    <3>2. k.data = got_data' /\ (call[w].rd = "dispatch") = FALSE
      BY <2>2, <2>3
    <3>3. notified' = IF got_data' /\ k.rd # "notify" THEN "connected" ELSE "connecting"
      BY <2>2, <2>6
    <3>4. Told' /\ Handling = (call[w].rd = "dispatch") /\ Handling' = (k.rd = "dispatch")
      BY <1>10, <2>3, <3>1, <3>2, <3>3
    <3> QED BY <2>2, <3>2, <3>4
  <2>8. CASE got_data
    BY <2>3, <2>4, <2>5, <2>7, <2>8 DEF Handling, Lifecycle!Next, Lifecycle!BeginHandling
  <2>9. CASE ~got_data
    BY <2>3, <2>4, <2>7, <2>9
  <2> QED BY <2>8, <2>9
<1>12. CASE NotifyConnected(w)
  <2>1. /\ ReadGoesOn(call[w], "dispatch").rd = "dispatch"
        /\ ReadGoesOn(call[w], "dispatch").data = call[w].data
    <3>1. ReadGoesOn(call[w], "dispatch").rd = "dispatch"
      BY <1>i, CallbackFields
    <3>2. ReadGoesOn(call[w], "dispatch").data = call[w].data
      BY <1>i, DataFields
    <3> QED BY <3>1, <3>2
  <2>2. /\ call' = [call EXCEPT ![w] = ReadGoesOn(call[w], "dispatch")]
        /\ call[w].rd = "notify" /\ notified' = "connected" /\ UNCHANGED <<pc, got_data>>
    BY <1>12 DEF NotifyConnected
  <2>3. notified = "connecting" /\ got_data /\ call[w].data = got_data
    BY <1>t, <2>2
  <2>4. Told' /\ Handling = FALSE /\ Handling' = TRUE
    BY <1>10, <2>1, <2>2, <2>3
  <2> QED BY <2>2, <2>3, <2>4 DEF Handling, Lifecycle!Next, Lifecycle!Connected
<1>13. CASE Dispatch(w)
  <2>1. /\ ReadGoesOn(call[w], "pending").rd = "pending"
        /\ ReadGoesOn(call[w], "pending").data = call[w].data
    <3>1. ReadGoesOn(call[w], "pending").rd = "pending"
      BY <1>i, CallbackFields
    <3>2. ReadGoesOn(call[w], "pending").data = call[w].data
      BY <1>i, DataFields
    <3> QED BY <3>1, <3>2
  <2>2. /\ call' = [call EXCEPT ![w] = ReadGoesOn(call[w], "pending")]
        /\ call[w].rd = "dispatch" /\ UNCHANGED <<pc, got_data, notified>>
    BY <1>13 DEF Dispatch
  <2>3. Told' /\ Handling = TRUE /\ Handling' = FALSE
    BY <1>10, <1>t, <2>1, <2>2
  <2> QED BY <2>2, <2>3 DEF Handling, Lifecycle!Next, Lifecycle!EndHandling
<1>14. CASE OnReadClosed(w)
  <2>1. PICK k : k = ReadClosed(call[w], HoldToRelease)
    OBVIOUS
  <2>2. k.rd = "closed" /\ k.data = call[w].data
    <3>1. k.rd = "closed"
      BY <1>i, <2>1, CallbackFields
    <3>2. k.data = call[w].data
      BY <1>i, <2>1, DataFields
    <3> QED BY <3>1, <3>2
  <2>3. /\ call' = [call EXCEPT ![w] = k] /\ call[w].phase = "started"
        /\ call[w].rd = "pending" /\ UNCHANGED <<pc, got_data, notified>>
    BY <1>14, <2>1 DEF OnReadClosed, handle_read_closed
  <2>4. Told' /\ Handling = FALSE /\ Handling' = FALSE
    BY <1>10, <1>t, <2>2, <2>3
  <2> QED BY <2>3, <2>4
<1> QED BY <1>3, <1>4, <1>5, <1>6, <1>8, <1>9, <1>11, <1>12, <1>13, <1>14 DEF Callback

LEMMA ControlTold ==
  ASSUME OneController, IInv, Told, NEW c \in Controllers, Control(c)
  PROVE  Told' /\ UNCHANGED <<notified, Handling>>
<1> USE DEF flags, ptrs, output, locals, ctl, user, members
<1>i. TypeOK
  BY DEF IInv
<1>1. CASE start(c)
  <2>1. PICK w \in Workers : pc[w] = "idle" /\ pc' = [pc EXCEPT ![w] = "loop"]
    BY <1>1 DEF start
  <2>2. UNCHANGED <<notified, got_data, call>> /\ cpc[c] = "idle" /\ worker = None
    BY <1>1 DEF start
  <2>3. \A v \in Workers : pc[v] = "idle"
    BY SMTT(60), <2>2, NoneAssumption DEF IInv, WorkerOwned, OneController
  <2>4. notified \in {"none", "stopped"}
    BY <2>3 DEF Told
  <2>5. \A v \in Workers : pc'[v] = IF v = w THEN "loop" ELSE "idle"
    BY <1>i, <2>1, <2>3 DEF TypeOK
  <2>6. Told'
    BY <2>2, <2>4, <2>5 DEF Told, ToldBy, InScope
  <2> QED BY <2>2, <2>6 DEF Handling
<1>2. CASE StopLocked(c)
  <2>1. \A w \in Workers : call'[w] = call[w] \/ call'[w] = TryCancel(call[w])
    BY <1>i, <1>2 DEF StopLocked, ContextCancelled, TypeOK
  <2>2. ASSUME NEW w \in Workers PROVE SameReading(call[w], call'[w])
    <3>1. call[w] \in Call(Workers)
      BY <1>i DEF TypeOK
    <3>2. SameReading(call[w], TryCancel(call[w]))
      BY <3>1, ReadingKept
    <3> QED BY <2>1, <3>2 DEF SameReading
  <2>3. UNCHANGED <<pc, notified, got_data>> /\ stopping'
    BY <1>2 DEF StopLocked
  <2> QED BY <2>2, <2>3, SilentTold
<1>3. CASE StopRelease(c)
  <2>1. PICK w \in Workers : w = release[c]
    BY SMTT(60), <1>i, <1>3 DEF StopRelease, IInv, WorkerOwned, TypeOK, Ptr
  <2>2. /\ \A v \in Workers : call'[v] = IF v = w THEN RemoveHold(call[w]) ELSE call[v]
        /\ UNCHANGED <<pc, notified, got_data, stopping>>
    BY <1>i, <1>3, <2>1 DEF StopRelease, TypeOK
  <2>3. SameReading(call[w], RemoveHold(call[w]))
    BY <1>i, ReadingKept DEF TypeOK
  <2>4. ASSUME NEW v \in Workers PROVE SameReading(call[v], call'[v])
    BY <2>2, <2>3 DEF SameReading
  <2> QED BY <2>2, <2>4, SilentTold
<1>4. CASE StopJoin(c)
  <2>1. /\ \A w \in Workers : pc'[w] = IF w = joining[c] THEN "idle" ELSE pc[w]
        /\ \A w \in Workers : w = joining[c] => pc[w] = "finished"
        /\ UNCHANGED <<notified, got_data, call, stopping>>
    BY <1>i, <1>4, NoneAssumption DEF StopJoin, TypeOK
  <2>2. ASSUME NEW w \in Workers PROVE ToldBy(w)'
    BY <2>1 DEF Told, ToldBy, InScope
  <2>3. ASSUME \A w \in Workers : pc'[w] = "idle" PROVE notified' \in {"none", "stopped"}
    <3>1. CASE \A w \in Workers : pc[w] = "idle"
      BY <2>1, <3>1 DEF Told
    <3>2. ASSUME NEW w \in Workers, pc[w] # "idle" PROVE notified' = "stopped"
      <4>1. pc[w] = "finished"
        BY <2>1, <2>3, <3>2
      <4> QED BY <2>1, <4>1 DEF Told, ToldBy
    <3> QED BY <3>1, <3>2
  <2> QED BY <2>1, <2>2, <2>3 DEF Told, Handling
<1> QED BY <1>1, <1>2, <1>3, <1>4 DEF Control

LEMMA SendTold ==
  ASSUME IInv, Told, NEW a \in Calls, send(a.request, a.remember)
  PROVE  Told' /\ UNCHANGED <<notified, Handling>>
<1> USE DEF flags, ptrs, output, locals, ctl, user, members
<1>1. UNCHANGED <<pc, notified, got_data, stopping>>
  BY DEF send
<1>2. \/ UNCHANGED call
      \/ maybe_write_locked(reactor, write_in_flight, Append(write_queue, a.request), call)
  BY DEF send
<1>3. \A w \in Workers : SameReading(call[w], call'[w])
  <2>1. CASE UNCHANGED call
    BY <2>1 DEF SameReading
  <2>2. CASE maybe_write_locked(reactor, write_in_flight, Append(write_queue, a.request), call)
    BY <2>2, WriteReading DEF IInv, TypeOK
  <2> QED BY <1>2, <2>1, <2>2
<1> QED BY <1>1, <1>3, SilentTold

LEMMA ToldStep ==
  ASSUME OneController, IInv, Told, [Next]_vars
  PROVE  Told' /\ [Lifecycle!Next]_<<notified, Handling>>
<1>1. CASE UNCHANGED vars
  <2>1. UNCHANGED <<notified, got_data, stopping, pc, call>>
    BY <1>1 DEF vars, members, flags, locals
  <2> QED BY <2>1, SilentTold DEF SameReading
<1> QED BY <1>1, ControlTold, RunTold, CallTold, SendTold DEF Next

LEMMA ToldInit == Init => Told /\ Lifecycle!Init
<1> SUFFICES ASSUME Init PROVE Told /\ Lifecycle!Init
  OBVIOUS
<1>1. \A w \in Workers : pc[w] = "idle" /\ call[w].rd # "dispatch"
  BY NewCallFields DEF Init
<1>2. Told
  BY <1>1 DEF Init, Told, ToldBy, InScope
<1>3. Lifecycle!Init
  BY <1>1 DEF Init, Lifecycle!Init
<1> QED BY <1>2, <1>3

(* The stream implements StreamLifecycle: whichever threads call on_state_ *)
(* and the handlers, the calls come in the order that the StreamState      *)
(* values promise, connected at most once per attempt and before the data, *)
(* disconnected and stopped after the last handler has returned.           *)
THEOREM ImplementsLifecycle ==
  ASSUME OneController
  PROVE  Spec => LifecycleSpec
<1>1. Init => Told /\ Lifecycle!Init
  BY ToldInit
<1>2. IInv /\ Told /\ [Next]_vars => Told' /\ [Lifecycle!Next]_<<notified, Handling>>
  BY ToldStep
<1>3. [Lifecycle!Next]_<<notified, Handling>> =>
        [Lifecycle!Next]_<<notified, \E w \in Workers : call[w].rd = "dispatch">>
  BY DEF Handling
<1> QED BY <1>1, <1>2, <1>3, IInvHolds, PTL DEF Spec, LifecycleSpec, Lifecycle!Spec

-----------------------------------------------------------------------------
(* The reconnect delay *)

(* The last delay is the one that belongs to the number of failures. *)
Delayed ==
  \A w \in Workers :
    \/ attempt[w] = 0 /\ delay[w] = 0
    \/ attempt[w] > 0 /\ delay[w] = Backoff(attempt[w] - 1)
    \/ attempt[w] = MaxShift /\ delay[w] = Backoff(MaxShift)

LEMMA DelayedStep ==
  ASSUME IInv, Delayed, [Next]_vars
  PROVE  Delayed'
<1> USE DEF flags, ptrs, output, locals, ctl, user, members
<1>1. TypeOK
  BY DEF IInv
<1>2. CASE \E w \in Workers : NotifyDisconnected(w)
  <2>1. PICK w \in Workers : NotifyDisconnected(w)
    BY <1>2
  <2>2. PICK n : n = Failures(w)
    OBVIOUS
  <2>3. n \in 0..MaxShift
    <3>1. attempt[w] \in 0..MaxShift /\ 0 \in 0..MaxShift
      BY <1>1, BackoffAssumption, SMT DEF TypeOK
    <3> QED BY <2>2, <3>1 DEF Failures
  <2>4. \A v \in Workers : /\ delay'[v] = IF v = w THEN Backoff(n) ELSE delay[v]
                           /\ attempt'[v] = IF v = w THEN NextAttempt(n) ELSE attempt[v]
    BY <1>1, <2>1, <2>2 DEF NotifyDisconnected, TypeOK
  <2>5. \/ NextAttempt(n) > 0 /\ NextAttempt(n) - 1 = n
        \/ NextAttempt(n) = MaxShift /\ n = MaxShift
    BY <2>3, BackoffAssumption, SMT DEF NextAttempt
  <2> QED BY <2>4, <2>5 DEF Delayed
<1>3. CASE \E c \in Controllers : start(c)
  <2>1. PICK w \in Workers : /\ attempt' = [attempt EXCEPT ![w] = 0]
                             /\ delay' = [delay EXCEPT ![w] = 0]
    BY <1>3 DEF start
  <2>2. \A v \in Workers : /\ delay'[v] = IF v = w THEN 0 ELSE delay[v]
                           /\ attempt'[v] = IF v = w THEN 0 ELSE attempt[v]
    BY <1>1, <2>1 DEF TypeOK
  <2> QED BY <2>2 DEF Delayed
<1>4. CASE UNCHANGED <<attempt, delay>>
  BY <1>4 DEF Delayed
<1>5. ASSUME NEW c \in Controllers, Control(c), ~start(c) PROVE UNCHANGED <<attempt, delay>>
  BY <1>5 DEF Control, StopLocked, StopRelease, StopJoin
<1>6. ASSUME NEW w \in Workers, Run(w), ~NotifyDisconnected(w)
      PROVE  UNCHANGED <<attempt, delay>>
  BY <1>6 DEF Run, RunCheck, RunReturned, BackoffOver, BreakOrGoOn, NotifyConnecting,
       NotifyStopped, RunOnceCancelled, RunOnceSetup, RunOnceBegin, RunOncePublish,
       RunOnceRelease, RunOnceReturn
<1>7. ASSUME NEW w \in Workers, CallBreaks(w) \/ Callback(w) PROVE UNCHANGED <<attempt, delay>>
  BY <1>7 DEF CallBreaks, Callback, OnReadDone, NotifyConnected, Dispatch, OnReadClosed,
       OnReadRelease, OnWriteDone, OnWriteFailed, OnWriteRelease, OnDone, handle_read_closed
<1>8. ASSUME NEW a \in Calls, send(a.request, a.remember) PROVE UNCHANGED <<attempt, delay>>
  BY <1>8 DEF send
<1>9. CASE UNCHANGED vars
  BY <1>4, <1>9 DEF vars
<1> QED BY <1>2, <1>3, <1>4, <1>5, <1>6, <1>7, <1>8, <1>9 DEF Next

(* Whatever the stop() and start() calls in between, a connection that     *)
(* delivered no data makes the next delay longer, up to the longest one,   *)
(* and one that did makes it the shortest.                                 *)
THEOREM DelaysGrow ==
  ASSUME OneController
  PROVE  Spec => BackoffGrows
<1>1. Init => Delayed
  BY DEF Init, Delayed
<1>2. IInv /\ Delayed /\ [Next]_vars => Delayed'
  BY DelayedStep
<1>3. IInv /\ Told /\ [Next]_vars => Told'
  BY ToldStep
<1>4. ASSUME IInv, Told, Delayed, [Next]_vars,
             NEW w \in Workers, pc[w] = "disconnected", pc'[w] = "backoff"
      PROVE  IF call[w].data THEN delay'[w] = Backoff(0)
             ELSE delay'[w] > delay[w] \/ delay'[w] = Backoff(MaxShift)
  <2> USE DEF flags, ptrs, output, locals, ctl, user, members
  <2>1. TypeOK /\ call[w].data = got_data
    BY <1>4 DEF IInv, Told, ToldBy
  <2>2. NotifyDisconnected(w)
    <3>1. ~UNCHANGED pc
      BY <1>4
    <3>2. ASSUME NEW c \in Controllers, Control(c) PROVE FALSE
      BY <1>4, <2>1, <3>1, <3>2 DEF Control, start, StopLocked, StopRelease, StopJoin, TypeOK
    <3>3. ASSUME NEW v \in Workers, CallBreaks(v) \/ Callback(v) PROVE FALSE
      BY <3>1, <3>3 DEF CallBreaks, Callback, OnReadDone, NotifyConnected, Dispatch,
           OnReadClosed, OnReadRelease, OnWriteDone, OnWriteFailed, OnWriteRelease, OnDone,
           handle_read_closed
    <3>4. ASSUME NEW a \in Calls, send(a.request, a.remember) PROVE FALSE
      BY <3>1, <3>4 DEF send
    <3>5. ASSUME NEW v \in Workers, Run(v) PROVE v = w
      <4>1. \E p : pc' = [pc EXCEPT ![v] = p]
        BY <3>5 DEF Run, RunCheck, RunReturned, BackoffOver, BreakOrGoOn, notify,
             NotifyConnecting, NotifyStopped, NotifyDisconnected, RunOnceCancelled,
             RunOnceSetup, RunOnceBegin, RunOncePublish, RunOnceRelease, RunOnceReturn
      <4> QED BY <1>4, <2>1, <4>1 DEF TypeOK
    <3>6. Run(w)
      BY <1>4, <3>1, <3>2, <3>3, <3>4, <3>5 DEF Next, vars
    <3> QED BY <1>4, <3>6 DEF Run, RunCheck, RunReturned, BackoffOver, BreakOrGoOn, notify,
             NotifyConnecting, NotifyStopped, RunOnceCancelled,
             RunOnceSetup, RunOnceBegin, RunOncePublish, RunOnceRelease, RunOnceReturn
  <2>3. delay'[w] = Backoff(Failures(w))
    BY <2>1, <2>2 DEF NotifyDisconnected, TypeOK
  <2>4. CASE got_data
    BY <2>1, <2>3, <2>4 DEF Failures
  <2>5. CASE ~got_data
    <3>1. delay'[w] = Backoff(attempt[w]) /\ attempt[w] \in 0..MaxShift
      BY <2>1, <2>3, <2>5 DEF Failures, TypeOK
    <3>2. /\ attempt[w] > 0 => \/ Backoff(attempt[w]) > Backoff(attempt[w] - 1)
                               \/ Backoff(attempt[w]) = Backoff(MaxShift)
          /\ Backoff(0) > 0 \/ Backoff(0) = Backoff(MaxShift)
      BY <3>1, BackoffSteps
    <3>3. delay'[w] > delay[w] \/ delay'[w] = Backoff(MaxShift)
      BY <1>4, <3>1, <3>2 DEF Delayed
    <3> QED BY <2>1, <2>5, <3>3
  <2> QED BY <2>4, <2>5
<1>5. IInv /\ Told /\ Delayed /\ [Next]_vars =>
        [\A w \in Workers :
           pc[w] = "disconnected" /\ pc'[w] = "backoff" =>
             IF call[w].data THEN delay'[w] = Backoff(0)
             ELSE delay'[w] > delay[w] \/ delay'[w] = Backoff(MaxShift)]_vars
  BY <1>4
<1>6. Init => Told
  BY ToldInit
<1> QED BY <1>1, <1>2, <1>3, <1>5, <1>6, IInvHolds, PTL DEF Spec, BackoffGrows

-----------------------------------------------------------------------------
(* The registry and the server *)

(* maybe_write_locked() on the reactor of the call, if there is one. *)
LEMMA TracksWrite ==
  ASSUME TypeOK, NEW w \in Workers, NEW r \in {None, w}, NEW f, NEW q \in Seq(Request),
         NEW cs, maybe_write_locked(r, f, q, cs), NEW t, NEW k, Tracks(q, sent[w], t, k)
  PROVE  Tracks(write_queue', sent'[w], t, k)
<1>1. CASE MayWrite(r, f, q)
  <2>1. r = w /\ q # <<>>
    BY <1>1 DEF MayWrite
  <2>2. write_queue' = Tail(q) /\ sent' = [sent EXCEPT ![w] = Apply(sent[w], Head(q))]
    BY <1>1, <2>1 DEF maybe_write_locked
  <2>3. sent'[w] = Apply(sent[w], Head(q))
    BY <2>2 DEF TypeOK
  <2> QED BY <2>1, <2>2, <2>3, TracksTail
<1>2. CASE ~MayWrite(r, f, q)
  BY <1>2 DEF maybe_write_locked
<1> QED BY <1>1, <1>2

(* What reactor_ points to is the reactor of the call that ctx_ belongs to. *)
LEMMA ReactorIsCtx ==
  ASSUME IInv
  PROVE  reactor \in {None, ctx}
BY DEF IInv, TypeOK, Ptr, CallInv, InvOf, CallShape, InScope

(* The queue on top of what the current call has been sent gives the       *)
(* registry, which is well keyed, outside the excepted targets.            *)
Registered ==
  /\ WellKeyed(subscriptions)
  /\ \A w \in Workers : ctx = w /\ ~broken =>
       \A k \in UsedKeys \ unsynced : Tracks(write_queue, sent[w], subscriptions, k)

LEMMA WriteRegistered ==
  ASSUME TypeOK, Registered, NEW r, ctx # None => r \in {None, ctx}, NEW f, NEW cs,
         maybe_write_locked(r, f, write_queue, cs),
         UNCHANGED <<ctx, broken, subscriptions, unsynced>>
  PROVE  Registered'
<1>1. ASSUME NEW w \in Workers, ctx = w, ~broken, NEW k \in UsedKeys \ unsynced
      PROVE  Tracks(write_queue', sent'[w], subscriptions, k)
  <2>1. r \in {None, w} /\ write_queue \in Seq(Request)
    BY <1>1, NoneAssumption DEF TypeOK
  <2>2. Tracks(write_queue, sent[w], subscriptions, k)
    BY <1>1 DEF Registered
  <2> QED BY <2>1, <2>2, TracksWrite
<1>2. \A w \in Workers : ctx' = w /\ ~broken' =>
        \A k \in (UsedKeys \ unsynced)' : Tracks(write_queue', sent'[w], subscriptions', k)
  BY <1>1 DEF UsedKeys
<1> QED BY <1>2 DEF Registered, Tracks, WellKeyed, UsedKeys

LEMMA SendRegistered ==
  ASSUME IInv, Registered, NEW a \in Calls, send(a.request, a.remember)
  PROVE  Registered'
<1> USE DEF flags, ptrs, locals, ctl
<1>1. TypeOK /\ a.request \in Request /\ a.remember \in BOOLEAN
  BY CallsAssumption DEF IInv
<1>2. PICK r : r = a.request
  OBVIOUS
<1>3. UNCHANGED <<ctx, broken, reactor, hold_released>>
  BY DEF send
<1>k. ASSUME UNCHANGED <<ctx, broken, subscriptions, unsynced, write_queue, sent>>
      PROVE  Registered'
  BY <1>k DEF Registered, Tracks, WellKeyed, UsedKeys
<1>4. CASE stopping
  BY <1>k, <1>3, <1>4 DEF send, output
<1>5. CASE ~stopping
  <2>1. /\ subscriptions' = IF a.remember THEN Apply(subscriptions, r) ELSE subscriptions
        /\ unsynced' = NextUnsynced(r, a.remember)
    BY <1>2, <1>5 DEF send
  <2>2. IF Live THEN maybe_write_locked(reactor, write_in_flight, Append(write_queue, r), call)
        ELSE UNCHANGED <<write_queue, sent>>
    BY <1>2, <1>5 DEF send, output
  <2>3. WellKeyed(subscriptions')
    BY <1>1, <1>2, <2>1, ApplyTable DEF Registered, TypeOK
  <2>4. ASSUME NEW k, k \notin Touched(r) \/ ~a.remember
        PROVE  Lookup(subscriptions', k) = Lookup(subscriptions, k)
    <3>1. Lookup(Apply(subscriptions, r), k) =
            IF k \in Touched(r) THEN Effect(r, k) ELSE Lookup(subscriptions, k)
      BY <1>1, <1>2, ApplyLookup
    <3> QED BY <2>1, <2>4, <3>1
  <2>5. ASSUME NEW k, k \in Touched(r), a.remember
        PROVE  Lookup(subscriptions', k) = Effect(r, k)
    <3>1. Lookup(Apply(subscriptions, r), k) =
            IF k \in Touched(r) THEN Effect(r, k) ELSE Lookup(subscriptions, k)
      BY <1>1, <1>2, ApplyLookup
    <3> QED BY <2>1, <2>5, <3>1
  <2>6. ASSUME NEW w \in Workers, ctx = w, ~broken, NEW k \in UsedKeys, k \notin unsynced'
        PROVE  Tracks(write_queue', sent'[w], subscriptions', k)
    <3>1. CASE Live
      <4>1. k \in Touched(r) => a.remember
        BY <2>1, <2>6, <3>1 DEF NextUnsynced
      <4>2. k \notin Touched(r) => k \notin unsynced
        BY <2>1, <2>6, <3>1 DEF NextUnsynced
      <4>3. k \notin Touched(r) =>
              /\ Tracks(write_queue, sent[w], subscriptions, k)
              /\ Lookup(subscriptions', k) = Lookup(subscriptions, k)
        BY <2>4, <2>6, <4>2 DEF Registered
      <4>4. k \in Touched(r) => Lookup(subscriptions', k) = Effect(r, k)
        BY <2>5, <4>1
      <4>5. PICK t, t2 : t = subscriptions /\ t2 = subscriptions'
        OBVIOUS
      <4>6. Tracks(Append(write_queue, r), sent[w], t2, k)
        BY <1>1, <1>2, <4>3, <4>4, <4>5, TracksAppend DEF TypeOK
      <4>7. reactor \in {None, w} /\ Append(write_queue, r) \in Seq(Request)
        <5>1. reactor \in {None, w}
          BY <2>6, ReactorIsCtx
        <5>2. Append(write_queue, r) \in Seq(Request)
          BY <1>1, <1>2, SMT DEF TypeOK
        <5> QED BY <5>1, <5>2
      <4>8. Tracks(write_queue', sent'[w], t2, k)
        BY <1>1, <2>2, <3>1, <4>6, <4>7, TracksWrite
      <4> QED BY <4>5, <4>8
    <3>2. CASE ~Live
      <4>1. k \notin Touched(r) /\ k \notin unsynced
        BY <2>1, <2>6, <3>2 DEF NextUnsynced
      <4>2. Tracks(write_queue, sent[w], subscriptions, k)
        BY <2>6, <4>1 DEF Registered
      <4>3. Lookup(subscriptions', k) = Lookup(subscriptions, k)
        BY <2>4, <4>1
      <4> QED BY <2>2, <3>2, <4>2, <4>3 DEF Tracks
    <3> QED BY <3>1, <3>2
  <2>7. \A w \in Workers : ctx' = w /\ ~broken' =>
          \A k \in (UsedKeys \ unsynced)' : Tracks(write_queue', sent'[w], subscriptions', k)
    BY <1>3, <2>6 DEF UsedKeys
  <2> QED BY <2>3, <2>7 DEF Registered, Tracks, WellKeyed, UsedKeys
<1> QED BY <1>4, <1>5

(* A new connection starts from nothing and replays the registry. *)
LEMMA SetupRegistered ==
  ASSUME IInv, Registered, NEW w \in Workers, RunOnceSetup(w)
  PROVE  Registered'
<1>1. TypeOK /\ IsTable(subscriptions) /\ WellKeyed(subscriptions)
  BY DEF IInv, TypeOK, Registered
<1>2. /\ ctx' = w /\ write_queue' \in ReplayQueues(subscriptions) /\ UNCHANGED subscriptions
      /\ sent' = [sent EXCEPT ![w] = EmptyTable]
  BY DEF RunOnceSetup
<1>3. sent'[w] = EmptyTable
  BY <1>1, <1>2 DEF TypeOK
<1>4. PICK q \in ReplayQueues(subscriptions) : q = write_queue'
  BY <1>2
<1>5. ASSUME NEW k PROVE Tracks(q, EmptyTable, subscriptions, k)
  <2>1. /\ \A i \in DOMAIN q : k \in Touched(q[i]) => Effect(q[i], k) = Lookup(subscriptions, k)
        /\ (\A i \in DOMAIN q : k \notin Touched(q[i])) => Lookup(subscriptions, k) = NoRequest
    BY <1>1, ReplayFacts
  <2> QED BY <2>1, EmptyTableFacts DEF Tracks, LastTouch
<1>6. \A v \in Workers : ctx' = v =>
        \A k : Tracks(write_queue', sent'[v], subscriptions', k)
  BY <1>2, <1>3, <1>4, <1>5
<1>7. WellKeyed(subscriptions')
  BY <1>1, <1>2
<1> QED BY <1>6, <1>7 DEF Registered, Tracks, WellKeyed

LEMMA RegisteredStep ==
  ASSUME IInv, Registered, [Next]_vars
  PROVE  Registered'
<1> USE DEF flags, ptrs, output, locals, ctl, user, members
<1>1. ASSUME UNCHANGED <<subscriptions, unsynced, write_queue, sent>>,
             ctx' \in {ctx, None}, broken => broken'
      PROVE  Registered'
  <2>1. ASSUME NEW w \in Workers, ctx' = w, ~broken' PROVE ctx = w /\ ~broken
    BY <1>1, <2>1, NoneAssumption
  <2> QED BY <1>1, <2>1 DEF Registered, Tracks, WellKeyed, UsedKeys
<1>2. ASSUME NEW c \in Controllers, Control(c) PROVE Registered'
  BY <1>1, <1>2 DEF Control, start, StopLocked, StopRelease, StopJoin
<1>3. ASSUME NEW w \in Workers, Run(w), ~RunOncePublish(w), ~RunOnceSetup(w)
      PROVE  Registered'
  <2>1. UNCHANGED <<subscriptions, unsynced, write_queue, sent, broken>> /\ ctx' \in {ctx, None}
    BY <1>3 DEF Run, RunCheck, RunReturned, BackoffOver, BreakOrGoOn, notify,
         NotifyConnecting, NotifyStopped, NotifyDisconnected, RunOnceCancelled,
         RunOnceBegin, RunOnceRelease, RunOnceReturn
  <2> QED BY <1>1, <2>1
<1>4. ASSUME NEW w \in Workers, RunOncePublish(w) PROVE Registered'
  <2>1. UNCHANGED <<ctx, broken, subscriptions, unsynced>>
    BY <1>4 DEF RunOncePublish
  <2>2. ctx = w
    BY <1>4 DEF RunOncePublish, IInv, CallInv, InvOf, CallShape, InScope
  <2>3. \/ UNCHANGED <<write_queue, sent>>
        \/ maybe_write_locked(w, write_in_flight, write_queue, call)
    BY <1>4 DEF RunOncePublish
  <2>4. CASE UNCHANGED <<write_queue, sent>>
    BY <1>1, <2>1, <2>4
  <2>5. CASE maybe_write_locked(w, write_in_flight, write_queue, call)
    BY <2>1, <2>2, <2>5, WriteRegistered DEF IInv
  <2> QED BY <2>3, <2>4, <2>5
<1>5. ASSUME NEW w \in Workers, OnWriteDone(w) PROVE Registered'
  <2>1. UNCHANGED <<ctx, broken, subscriptions, unsynced>>
    BY <1>5 DEF OnWriteDone
  <2>2. PICK cs : maybe_write_locked(reactor, FALSE, write_queue, cs)
    BY <1>5 DEF OnWriteDone
  <2> QED BY <2>1, <2>2, ReactorIsCtx, WriteRegistered DEF IInv
<1>6. ASSUME NEW w \in Workers, CallBreaks(w) \/ Callback(w), ~OnWriteDone(w)
      PROVE  Registered'
  <2>1. CASE OnReadClosed(w) \/ OnWriteFailed(w)
    <3>1. UNCHANGED <<subscriptions, unsynced, write_queue, sent, ctx>> /\ broken' = TRUE
      BY <2>1 DEF OnReadClosed, OnWriteFailed, handle_read_closed
    <3> QED BY <1>1, <3>1
  <2>2. CASE ~OnReadClosed(w) /\ ~OnWriteFailed(w)
    <3>1. UNCHANGED <<subscriptions, unsynced, write_queue, sent, ctx, broken>>
      BY <1>6, <2>2 DEF CallBreaks, Callback, OnReadDone, NotifyConnected, Dispatch,
           OnReadRelease, OnWriteRelease, OnDone
    <3> QED BY <1>1, <3>1
  <2> QED BY <2>1, <2>2
<1>7. CASE UNCHANGED vars
  BY <1>1, <1>7 DEF vars
<1> QED BY <1>2, <1>3, <1>4, <1>5, <1>6, <1>7, SetupRegistered, SendRegistered DEF Next

(* On every unbroken connection what has been written and what is queued   *)
(* bring the server to exactly what the registry says, for every target    *)
(* but those that RegistryTracked excepts: whatever requests are sent,     *)
(* remembered or not, from however many threads, while the stream          *)
(* connects, writes, breaks and replays.                                   *)
THEOREM RegistryIsTracked ==
  ASSUME OneController
  PROVE  Spec => []RegistryTracked
<1>1. ASSUME Init PROVE Registered
  <2>1. subscriptions = EmptyTable /\ ctx = None
    BY <1>1 DEF Init
  <2>2. WellKeyed(subscriptions) /\ \A w \in Workers : ctx # w
    BY <2>1, EmptyTableFacts, NoneAssumption
  <2> QED BY <2>2 DEF Registered
<1>2. IInv /\ Registered /\ [Next]_vars => Registered'
  BY RegisteredStep
<1>3. Registered => RegistryTracked
  BY DEF Registered, RegistryTracked, KeyTracked, Tracks
<1> QED BY <1>1, <1>2, <1>3, IInvHolds, PTL DEF Spec
=============================================================================
