-------------------------- MODULE AwaitableProofs ---------------------------
(***************************************************************************)
(* Tasks, UnaryAwaiter and sync_wait(), for every number of tasks and      *)
(* asynchronous calls.                                                     *)
(*                                                                         *)
(* However many threads take part, a task and the tasks it awaits are one  *)
(* strand of execution: it is on one thread, or one gRPC call has it.      *)
(***************************************************************************)
EXTENDS Awaitable, FiniteSetTheorems, SequenceTheorems, WellFoundedInduction, TLAPS

(***************************************************************************)
(* The inductive invariant.                                                *)
(***************************************************************************)
FrameStates ==
  {"none", "created", "running", "await_rpc", "await_task", "final", "destroyed"}

Entries == UNION {{Run(f), Suspend(f), FinalSuspend(f)} : f \in Tasks}

Types ==
  /\ frame \in [Tasks -> FrameStates]
  /\ owner \in [Tasks -> Tasks \cup {None}]
  /\ continuation \in [Tasks -> Tasks \cup {None}]
  /\ outcome \in [Tasks -> {"none", "value", "exception"}]
  /\ result \in [Tasks -> BOOLEAN]
  /\ async \in [AsyncCalls -> {"none", "refused", "started", "callback", "deleted"}]
  /\ waiting \in [AsyncCalls -> Tasks \cup {None}]
  /\ DOMAIN stack = Threads
  /\ pc \in {"start", "resume", "read", "returned", "thrown"}
  /\ done \in {"none", "0", "1", "destroyed"}

(* The body of f has begun and is not over. *)
Active(f) == frame[f] \in {"running", "await_rpc", "await_task"}

(* Task objects live in the frames of active tasks, and form a tree. *)
Tree ==
  /\ frame[Root] # "none" /\ owner[Root] = None
  /\ \A f \in Tasks \ {Root} : owner[f] = None <=> frame[f] = "none"
  /\ \A f \in Tasks : owner[f] # None => frame[owner[f]] # "none"
  /\ \A f \in Tasks : owner[f] # None /\ frame[f] # "destroyed" => Active(owner[f])

(* A task is deeper than its owner: the tree has no cycles. *)
Ranked ==
  \E depth \in [Tasks -> Nat] :
    \A f \in Tasks : owner[f] # None => depth[owner[f]] < depth[f]

(* The active tasks are the chain of continuations that ends in the root. *)
Chain ==
  /\ continuation[Root] = None
  /\ \A f \in Tasks : Active(f) => IF continuation[f] = None THEN f = Root
                                  ELSE frame[continuation[f]] = "await_task"
  /\ \A f, g \in Tasks : Active(f) /\ Active(g) /\ continuation[f] = continuation[g] => f = g

(* What await_resume() will read is there. *)
Results ==
  /\ \A f \in Tasks : ~result[f] => frame[f] = "await_rpc"
  /\ \A f \in Tasks : frame[f] = "final" => outcome[f] # "none"

(* How far sync_wait() and the root task are, seen from each other. *)
Waiter ==
  /\ pc = "start" => \A t \in Threads : stack[t] = <<>>
  /\ pc = "start" => \A c \in AsyncCalls : async[c] = "none"
  /\ frame[Root] = "created" <=> pc = "start"
  /\ Active(Root) => pc = "resume" /\ done = "0"
  /\ done = "1" => pc = "resume" /\ frame[Root] = "final"
  /\ pc = "read" => frame[Root] = "final"
  /\ pc \in {"returned", "thrown"} => frame[Root] = "destroyed"

(* Only await_suspend() calls are below the innermost function. *)
Shape(s) == s \in Seq(Entries) /\ \A i \in 1..(Len(s) - 1) : s[i].fn = "suspend"

(* A body, or final_suspend(), is executed on this stack. *)
Leads(s) == s # <<>> /\ Top(s).fn # "suspend"

Stacks ==
  /\ \A t \in Threads : Shape(stack[t])
  /\ \A c \in AsyncCalls : stack[c] # <<>> => async[c] = "callback"

(* At most one thread executes a body, and then no RPC is awaited; and at  *)
(* most one RPC is awaited.                                                *)
Strand ==
  /\ \A t, u \in Threads : Leads(stack[t]) /\ Leads(stack[u]) => t = u
  /\ \A t \in Threads, c \in AsyncCalls : Leads(stack[t]) => async[c] # "started"
  /\ \A c, d \in AsyncCalls : async[c] = "started" /\ async[d] = "started" => c = d

(* The handles the callbacks and the stacks hold lead to the frames that   *)
(* wait for them.                                                          *)
Handles ==
  /\ \A c \in AsyncCalls :
       async[c] = "started" => waiting[c] \in Tasks /\ frame[waiting[c]] = "await_rpc"
  /\ \A t \in Threads, f \in Tasks : Innermost(t, Run(f)) => frame[f] = "running"
  /\ \A f \in Tasks : frame[f] = "running" => \E t \in Threads : Innermost(t, Run(f))
  /\ \A t \in Threads, f \in Tasks :
       Innermost(t, FinalSuspend(f)) =>
         f = Root /\ frame[Root] = "final" /\ pc = "resume" /\ done = "0"

IInv == Types /\ Tree /\ Ranked /\ Chain /\ Results /\ Waiter /\ Stacks /\ Strand /\ Handles

-----------------------------------------------------------------------------
(* Stacks *)

LEMMA EntryFacts ==
  /\ \A f \in Tasks : /\ Run(f) \in Entries /\ Run(f).fn = "run" /\ Run(f).task = f
                      /\ Suspend(f) \in Entries /\ Suspend(f).fn = "suspend"
                      /\ FinalSuspend(f) \in Entries /\ FinalSuspend(f).fn = "final"
                      /\ FinalSuspend(f).task = f
  /\ \A a \in Entries : \/ a.fn = "suspend" /\ ~a.uses
                        \/ \E f \in Tasks : a = Run(f) \/ a = FinalSuspend(f)
<1>1. ASSUME NEW f \in Tasks
      PROVE  {Run(f), Suspend(f), FinalSuspend(f)} \subseteq Entries
  BY <1>1 DEF Entries
<1>2. ASSUME NEW f
      PROVE  /\ Run(f).fn = "run" /\ Run(f).task = f
             /\ Suspend(f).fn = "suspend" /\ Suspend(f).uses = FALSE
             /\ FinalSuspend(f).fn = "final" /\ FinalSuspend(f).task = f
  BY DEF Run, Suspend, FinalSuspend
<1>3. ASSUME NEW a \in Entries
      PROVE  \E f \in Tasks : a = Run(f) \/ a = Suspend(f) \/ a = FinalSuspend(f)
  BY DEF Entries
<1>4. ASSUME NEW a \in Entries
      PROVE  \/ a.fn = "suspend" /\ ~a.uses
             \/ \E f \in Tasks : a = Run(f) \/ a = FinalSuspend(f)
  <2>1. PICK f \in Tasks : a = Run(f) \/ a = Suspend(f) \/ a = FinalSuspend(f)
    BY <1>3
  <2>2. CASE a = Suspend(f)
    BY Zenon, <1>2, <2>2
  <2> QED BY <2>1, <2>2
<1> QED BY Zenon, <1>1, <1>2, <1>4

LEMMA EntriesDiffer ==
  ASSUME NEW f \in Tasks, NEW g \in Tasks
  PROVE  /\ Run(f) = Run(g) => f = g
         /\ FinalSuspend(f) = FinalSuspend(g) => f = g
         /\ Run(f) # FinalSuspend(g) /\ Suspend(f) # Run(g) /\ Suspend(f) # FinalSuspend(g)
<1>1. Run(f).fn = "run" /\ Suspend(f).fn = "suspend" /\ FinalSuspend(g).fn = "final"
      /\ Run(g).fn = "run" /\ Run(f).task = f /\ Run(g).task = g
      /\ FinalSuspend(f).task = f /\ FinalSuspend(g).task = g
  BY EntryFacts
<1> QED BY <1>1

LEMMA FrontFacts ==
  ASSUME NEW s \in Seq(Entries), s # <<>>
  PROVE  /\ Len(s) \in Nat \ {0}
         /\ Below(s) \in Seq(Entries) /\ Len(Below(s)) = Len(s) - 1
         /\ \A i \in 1..(Len(s) - 1) : Below(s)[i] = s[i]
<1>1. Len(s) \in Nat \ {0} /\ \A i \in 1..(Len(s) - 1) : s[i] \in Entries
  OBVIOUS
<1>2. PICK n \in Int : n = Len(s) - 1 /\ n >= 0
  <2>1. Len(s) - 1 \in Int /\ Len(s) - 1 >= 0
    BY <1>1
  <2> QED BY <2>1
<1>3. /\ SubSeq(s, 1, n) \in Seq(Entries)
      /\ Len(SubSeq(s, 1, n)) = IF 1 <= n THEN n - 1 + 1 ELSE 0
      /\ \A i \in 1 .. n - 1 + 1 : SubSeq(s, 1, n)[i] = s[1 + i - 1]
  BY <1>1, <1>2, SubSeqProperties
<1>4. Below(s) = SubSeq(s, 1, n)
  BY <1>2 DEF Below
<1>5. \A i \in 1..(Len(s) - 1) : i \in 1 .. n - 1 + 1 /\ 1 + i - 1 = i
  BY <1>2
<1> QED BY <1>1, <1>2, <1>3, <1>4, <1>5

(* The innermost function is replaced by another one. *)
LEMMA ReplaceLast ==
  ASSUME NEW s, Shape(s), s # <<>>, NEW a \in Entries
  PROVE  LET u == Below(s) \o <<a>>
         IN  Shape(u) /\ u # <<>> /\ Top(u) = a /\ Len(u) = Len(s)
<1>1. s \in Seq(Entries) /\ Len(s) \in Nat \ {0}
  BY DEF Shape
<1>2. Below(s) \in Seq(Entries) /\ Len(Below(s)) = Len(s) - 1
      /\ \A i \in 1..(Len(s) - 1) : Below(s)[i] = s[i]
  BY <1>1, FrontFacts
<1>3. PICK u : u = Below(s) \o <<a>>
  BY Zenon
<1>4. u \in Seq(Entries) /\ Len(u) = Len(s) /\ u[Len(s)] = a
      /\ \A i \in 1..(Len(s) - 1) : u[i] = s[i]
  BY <1>1, <1>2, <1>3
<1>5. Shape(u) /\ u # <<>> /\ Top(u) = a
  BY <1>1, <1>4 DEF Shape, Top
<1> QED BY <1>3, <1>4, <1>5

(* It returns. *)
LEMMA DropLast ==
  ASSUME NEW s, Shape(s), s # <<>>
  PROVE  LET u == Below(s) \o <<>>
         IN  Shape(u) /\ ~Leads(u) /\ Len(u) = Len(s) - 1
<1>1. s \in Seq(Entries) /\ Len(s) \in Nat \ {0}
  BY DEF Shape
<1>2. PICK u : u = Below(s) \o <<>>
  OBVIOUS
<1>3. u \in Seq(Entries) /\ Len(u) = Len(s) - 1
      /\ \A i \in 1..(Len(s) - 1) : u[i] = s[i]
  <2>1. u = Below(s)
    BY <1>1, <1>2, FrontFacts, ConcatEmptySeq
  <2> QED BY <1>1, <2>1, FrontFacts
<1>4. Shape(u)
  BY <1>1, <1>3 DEF Shape
<1>5. ~Leads(u)
  <2> SUFFICES ASSUME u # <<>> PROVE Top(u).fn = "suspend"
    BY DEF Leads
  <2>1. Len(u) \in 1..(Len(s) - 1)
    BY <1>1, <1>3
  <2> QED BY <1>3, <2>1 DEF Top, Shape
<1> QED BY <1>2, <1>3, <1>4, <1>5

(* It resumes another one from await_suspend(). *)
LEMMA NestLast ==
  ASSUME NEW s, Shape(s), s # <<>>, NEW f \in Tasks
  PROVE  LET u == Below(s) \o <<Suspend(f), Run(f)>>
         IN  Shape(u) /\ u # <<>> /\ Top(u) = Run(f) /\ Len(u) = Len(s) + 1
<1>1. s \in Seq(Entries) /\ Len(s) \in Nat \ {0}
  BY DEF Shape
<1>2. Below(s) \in Seq(Entries) /\ Len(Below(s)) = Len(s) - 1
      /\ \A i \in 1..(Len(s) - 1) : Below(s)[i] = s[i]
  BY <1>1, FrontFacts
<1>3. PICK u, a, b : u = Below(s) \o <<a, b>> /\ a = Suspend(f) /\ b = Run(f)
  BY Zenon
<1>4. a \in Entries /\ b \in Entries /\ a.fn = "suspend"
  BY <1>3, EntryFacts
<1>5. u \in Seq(Entries) /\ Len(u) = Len(s) + 1 /\ u[Len(s)] = a
      /\ u[Len(s) + 1] = b /\ \A i \in 1..(Len(s) - 1) : u[i] = s[i]
  <2>1. PICK q : q = Below(s)
    OBVIOUS
  <2>2. q \in Seq(Entries) /\ Len(q) = Len(s) - 1 /\ <<a, b>> \in Seq(Entries)
        /\ Len(<<a, b>>) = 2 /\ <<a, b>>[1] = a /\ <<a, b>>[2] = b
    BY <1>2, <1>4, <2>1
  <2>3. u \in Seq(Entries) /\ Len(u) = Len(s) - 1 + 2
        /\ \A i \in 1 .. Len(s) - 1 + 2 :
             u[i] = IF i <= Len(s) - 1 THEN q[i] ELSE <<a, b>>[i - (Len(s) - 1)]
    BY <1>3, <2>1, <2>2, ConcatProperties
  <2>4. u[Len(s)] = <<a, b>>[1]
    BY <1>1, <2>3
  <2>5. u[Len(s) + 1] = <<a, b>>[2]
    BY <1>1, <2>3
  <2>6. \A i \in 1..(Len(s) - 1) : u[i] = s[i]
    BY <1>1, <1>2, <2>1, <2>3
  <2> QED BY <1>1, <2>2, <2>3, <2>4, <2>5, <2>6
<1>6. Shape(u) /\ u # <<>> /\ Top(u) = b
  BY <1>1, <1>4, <1>5 DEF Shape, Top
<1> QED BY Zenon, <1>3, <1>5, <1>6

LEMMA EmptyStack == Shape(<<>>) /\ ~Leads(<<>>)
BY DEF Shape, Leads

LEMMA SingleEntry ==
  ASSUME NEW f \in Tasks
  PROVE  /\ Shape(<<Run(f)>>) /\ <<Run(f)>> # <<>>
         /\ Top(<<Run(f)>>) = Run(f) /\ Len(<<Run(f)>>) = 1
<1>1. PICK a : a = Run(f)
  OBVIOUS
<1>2. a \in Entries
  BY <1>1, EntryFacts
<1>3. Shape(<<a>>) /\ <<a>> # <<>> /\ Top(<<a>>) = a /\ Len(<<a>>) = 1
  BY <1>2 DEF Shape, Top
<1> QED BY <1>1, <1>3

(* Who leads a strand. *)
LEMMA LeaderFacts ==
  ASSUME NEW t \in Threads, Shape(stack[t])
  PROVE  /\ \A f \in Tasks : Innermost(t, Run(f)) \/ Innermost(t, FinalSuspend(f))
                             => Leads(stack[t])
         /\ Leads(stack[t]) => \E f \in Tasks : \/ Innermost(t, Run(f))
                                                \/ Innermost(t, FinalSuspend(f))
<1>1. ASSUME stack[t] # <<>> PROVE Top(stack[t]) \in Entries
  BY <1>1 DEF Shape, Top
<1> QED BY <1>1, EntryFacts DEF Leads, Innermost

-----------------------------------------------------------------------------
(* The steps *)

LEMMA ThreadSets == Main \in Threads /\ \A c \in AsyncCalls : c \in Threads /\ c # Main
BY RootAssumption DEF Threads

LEMMA SyncWaitStep ==
  ASSUME IInv, sync_wait
  PROVE  IInv'
<1>1. /\ pc = "start" /\ pc' = "resume" /\ done' = "0"
      /\ frame' = [frame EXCEPT ![Root] = "running"]
      /\ stack' = [stack EXCEPT ![Main] = <<Run(Root)>>]
      /\ UNCHANGED <<async, waiting, owner, continuation, outcome, result>>
  BY DEF sync_wait, calls, promises
<1>2. Types /\ Root \in Tasks /\ frame[Root] = "created"
  BY <1>1, RootAssumption DEF IInv, Waiter
<1>3. \A f \in Tasks : frame'[f] = IF f = Root THEN "running" ELSE frame[f]
  BY <1>1, <1>2 DEF Types
<1>4. Types'
  BY <1>1, <1>2 DEF Types, FrameStates
<1>5. Tree' /\ Ranked'
  BY <1>1, <1>2, <1>3 DEF IInv, Types, Tree, Ranked, Active
<1>6. Chain'
  BY <1>1, <1>2, <1>3 DEF IInv, Types, Tree, Chain, Active
<1>7. Results'
  BY <1>1, <1>2, <1>3 DEF IInv, Results
<1>8. Waiter'
  BY <1>1, <1>2, <1>3 DEF IInv, Waiter, Active
<1>9. \A t \in Threads : stack'[t] = IF t = Main THEN <<Run(Root)>> ELSE <<>>
  BY <1>1, ThreadSets DEF IInv, Waiter, Types
<1>10. \A c \in AsyncCalls : async'[c] = "none"
  BY <1>1 DEF IInv, Waiter
<1>11. Shape(<<Run(Root)>>) /\ <<Run(Root)>> # <<>> /\ Top(<<Run(Root)>>) = Run(Root)
  BY <1>2, SingleEntry
<1>12. Stacks'
  <2>1. \A t \in Threads : Shape(stack'[t])
    BY <1>9, <1>11, EmptyStack
  <2>2. \A t \in Threads : Shape(stack[t])'
    BY <2>1 DEF Shape
  <2>3. \A c \in AsyncCalls : stack'[c] = <<>>
    BY <1>9, ThreadSets
  <2> QED BY <2>2, <2>3 DEF Stacks
<1>13. Strand'
  BY <1>9, <1>10 DEF Strand, Leads
<1>14. Handles'
  <2>1. ASSUME NEW t \in Threads, NEW f \in Tasks
        PROVE  (Innermost(t, Run(f))' => f = Root) /\ ~Innermost(t, FinalSuspend(f))'
    BY <1>2, <1>9, <1>11, EntriesDiffer DEF Innermost
  <2>2. Innermost(Main, Run(Root))'
    BY <1>9, <1>11, ThreadSets DEF Innermost
  <2>3. \A f \in Tasks : frame[f] # "running"
    BY <1>1 DEF IInv, Handles, Waiter, Innermost
  <2> QED BY <1>3, <1>10, <2>1, <2>2, <2>3, ThreadSets, Zenon DEF Handles
<1> QED BY <1>4, <1>5, <1>6, <1>7, <1>8, <1>12, <1>13, <1>14 DEF IInv

(* What is known while the body of f executes on t. *)
LEMMA RunningFacts ==
  ASSUME IInv, NEW t \in Threads, NEW f \in Tasks, Executes(t, f)
  PROVE  /\ Leads(stack[t]) /\ stack[t] # <<>> /\ Shape(stack[t])
         /\ frame[f] = "running" /\ Active(f)
         /\ \A g \in Tasks : frame[g] = "running" => g = f
         /\ \A c \in AsyncCalls : async[c] # "started"
         /\ pc # "start" /\ frame[Root] # "created"
<1>1. Innermost(t, Run(f)) /\ frame[f] = "running" /\ Active(f)
  BY DEF Executes, Active
<1>2. Shape(stack[t])
  BY DEF IInv, Stacks
<1>3. Leads(stack[t]) /\ stack[t] # <<>>
  BY <1>1, <1>2, LeaderFacts DEF Innermost
<1>4. ASSUME NEW g \in Tasks, frame[g] = "running" PROVE g = f
  <2>1. PICK u \in Threads : Innermost(u, Run(g))
    BY <1>4 DEF IInv, Handles
  <2>2. Leads(stack[u])
    BY <2>1, LeaderFacts DEF IInv, Stacks
  <2>3. u = t
    BY <1>3, <2>2 DEF IInv, Strand
  <2>4. Run(g) = Run(f)
    BY <1>1, <2>1, <2>3 DEF Innermost
  <2> QED BY <2>4, EntriesDiffer
<1>5. \A c \in AsyncCalls : async[c] # "started"
  BY Zenon, <1>3 DEF IInv, Strand
<1>6. pc # "start" /\ frame[Root] # "created"
  BY <1>3 DEF IInv, Waiter
<1> QED BY <1>1, <1>2, <1>3, <1>4, <1>5, <1>6

(* The innermost function of t gives way to others. *)
LEMMA StackStep ==
  ASSUME IInv, NEW t \in Threads, NEW s, Shape(s), stack[t] # <<>>,
         stack' = [stack EXCEPT ![t] = s],
         \A c \in AsyncCalls : async[c] = "callback" => async'[c] = "callback"
  PROVE  /\ Stacks' /\ DOMAIN stack' = Threads
         /\ \A u \in Threads : stack'[u] = IF u = t THEN s ELSE stack[u]
<1>1. DOMAIN stack' = Threads
      /\ \A u \in Threads : stack'[u] = IF u = t THEN s ELSE stack[u]
  BY DEF IInv, Types
<1>2. \A u \in Threads : Shape(stack'[u])
  BY <1>1 DEF IInv, Stacks
<1>3. \A u \in Threads : Shape(stack[u])'
  BY <1>2 DEF Shape
<1>4. ASSUME NEW c \in AsyncCalls, stack'[c] # <<>> PROVE async'[c] = "callback"
  <2>1. stack[c] # <<>>
    BY <1>1, <1>4, ThreadSets
  <2> QED BY <2>1 DEF IInv, Stacks
<1> QED BY <1>1, <1>3, <1>4 DEF Stacks

(* A leader moves on: nobody else leads. *)
LEMMA LeaderMoves ==
  ASSUME IInv, NEW t \in Threads, Leads(stack[t]), NEW s,
         \A u \in Threads : stack'[u] = IF u = t THEN s ELSE stack[u]
  PROVE  \A u \in Threads : u # t =>
           /\ ~Leads(stack'[u])
           /\ \A g \in Tasks : ~Innermost(u, Run(g))' /\ ~Innermost(u, FinalSuspend(g))'
<1> SUFFICES ASSUME NEW u \in Threads, u # t
             PROVE  /\ ~Leads(stack'[u])
                    /\ \A g \in Tasks : ~Innermost(u, Run(g))'
                                        /\ ~Innermost(u, FinalSuspend(g))'
  OBVIOUS
<1>1. ~Leads(stack[u]) /\ stack'[u] = stack[u]
  BY DEF IInv, Strand
<1>2. \A g \in Tasks : ~Innermost(u, Run(g)) /\ ~Innermost(u, FinalSuspend(g))
  BY <1>1, LeaderFacts DEF IInv, Stacks
<1> QED BY <1>1, <1>2 DEF Innermost

(* Whoever is led by a function that is none of a task's own does not lead. *)
LEMMA NotLeading ==
  ASSUME NEW u, ~Leads(stack'[u]), NEW g \in Tasks
  PROVE  ~Innermost(u, Run(g))' /\ ~Innermost(u, FinalSuspend(g))'
BY EntryFacts DEF Leads, Innermost

LEMMA AwaitRpcStep ==
  ASSUME IInv, NEW t \in Threads, NEW f \in Tasks, NEW c \in AsyncCalls,
         AwaitRpc(t, f, c)
  PROVE  IInv'
<1> DEFINE s == Below(stack[t]) \o <<Suspend(f)>>
<1>1. /\ Executes(t, f) /\ async[c] = "none"
      /\ async' = [async EXCEPT ![c] = "started"]
      /\ waiting' = [waiting EXCEPT ![c] = f]
      /\ frame' = [frame EXCEPT ![f] = "await_rpc"]
      /\ result' = [result EXCEPT ![f] = FALSE]
      /\ stack' = [stack EXCEPT ![t] = s]
      /\ UNCHANGED <<owner, continuation, outcome, pc, done>>
  BY DEF AwaitRpc, StartRpc, AsyncStep, Transfer, promises, waiter
<1>2. Types /\ Root \in Tasks
  BY RootAssumption DEF IInv
<1>3. \A g \in Tasks : frame'[g] = IF g = f THEN "await_rpc" ELSE frame[g]
  BY <1>1, <1>2 DEF Types
<1>4. \A d \in AsyncCalls : /\ async'[d] = IF d = c THEN "started" ELSE async[d]
                            /\ waiting'[d] = IF d = c THEN f ELSE waiting[d]
  BY <1>1, <1>2 DEF Types
<1>5. Shape(s) /\ ~Leads(s)
  BY <1>1, RunningFacts, ReplaceLast, EntryFacts DEF Leads
<1> HIDE DEF s
<1>6. /\ Stacks' /\ DOMAIN stack' = Threads
      /\ \A u \in Threads : stack'[u] = IF u = t THEN s ELSE stack[u]
  <2>1. \A d \in AsyncCalls : async[d] = "callback" => async'[d] = "callback"
    BY <1>1, <1>4
  <2> QED BY Zenon, <1>1, <1>5, <2>1, RunningFacts, StackStep
<1>7. \A u \in Threads : ~Leads(stack'[u])
  BY <1>1, <1>5, <1>6, RunningFacts, LeaderMoves
<1>8. Types'
  BY <1>1, <1>2, <1>6 DEF Types, FrameStates
<1>9. Tree' /\ Ranked'
  <2>1. frame[f] = "running"
    BY <1>1, RunningFacts
  <2>2. Tree'
    BY SMTT(20), <1>1, <1>2, <1>3, <2>1 DEF IInv, Types, Tree, Active
  <2> QED BY <1>1, <2>2 DEF IInv, Ranked
<1>10. Chain'
  BY <1>1, <1>2, <1>3, RunningFacts DEF IInv, Types, Chain, Active
<1>11. Results'
  <2>1. \A g \in Tasks : g # f => result'[g] = result[g]
    BY <1>1, <1>2 DEF Types
  <2> QED BY <1>1, <1>3, <2>1 DEF IInv, Results
<1>12. Waiter'
  BY <1>1, <1>2, <1>3, RunningFacts DEF IInv, Waiter, Active
<1>13. Strand'
  BY <1>1, <1>4, <1>7, RunningFacts DEF Strand
<1>14. Handles'
  <2>1. \A g \in Tasks : frame'[g] # "running"
    BY SMTT(20), <1>1, <1>3, RunningFacts
  <2> QED BY <1>1, <1>3, <1>4, <1>7, <2>1, NotLeading, RunningFacts DEF Handles
<1> QED BY <1>6, <1>8, <1>9, <1>10, <1>11, <1>12, <1>13, <1>14 DEF IInv

LEMMA AwaitRefusedStep ==
  ASSUME IInv, NEW t \in Threads, NEW f \in Tasks, NEW c \in AsyncCalls,
         AwaitRefused(t, f, c)
  PROVE  IInv'
<1> DEFINE s == Below(stack[t]) \o <<Suspend(f), Run(f)>>
<1>1. /\ Executes(t, f) /\ async[c] = "none"
      /\ async' = [async EXCEPT ![c] = "refused"]
      /\ frame' = [frame EXCEPT ![f] = "running"]
      /\ result' = [result EXCEPT ![f] = TRUE]
      /\ stack' = [stack EXCEPT ![t] = s]
      /\ UNCHANGED <<waiting, owner, continuation, outcome, pc, done>>
  BY DEF AwaitRefused, Refuse, AsyncStep, Resumed, Transfer, Refused, promises, waiter
<1>2. Types /\ Root \in Tasks
  BY RootAssumption DEF IInv
<1>3. frame' = frame /\ \A g \in Tasks : result[g] => result'[g]
  BY <1>1, <1>2, RunningFacts DEF Types
<1>4. \A d \in AsyncCalls : async'[d] = IF d = c THEN "refused" ELSE async[d]
  BY <1>1, <1>2 DEF Types
<1>5. Shape(s) /\ s # <<>> /\ Top(s) = Run(f)
  BY <1>1, RunningFacts, NestLast
<1> HIDE DEF s
<1>6. /\ Stacks' /\ DOMAIN stack' = Threads
      /\ \A u \in Threads : stack'[u] = IF u = t THEN s ELSE stack[u]
  <2>1. \A d \in AsyncCalls : async[d] = "callback" => async'[d] = "callback"
    BY <1>1, <1>4
  <2> QED BY Zenon, <1>1, <1>5, <2>1, RunningFacts, StackStep
<1>7. \A u \in Threads : u # t =>
        /\ ~Leads(stack'[u])
        /\ \A g \in Tasks : ~Innermost(u, Run(g))' /\ ~Innermost(u, FinalSuspend(g))'
  BY <1>1, <1>6, RunningFacts, LeaderMoves
<1>8. Innermost(t, Run(f))' /\ \A g \in Tasks : /\ Innermost(t, Run(g))' => g = f
                                               /\ ~Innermost(t, FinalSuspend(g))'
  BY <1>5, <1>6, EntriesDiffer DEF Innermost
<1>9. Types'
  BY <1>1, <1>2, <1>6 DEF Types, FrameStates
<1>10. Tree' /\ Ranked' /\ Chain'
  BY <1>1, <1>3 DEF IInv, Tree, Ranked, Chain, Active
<1>11. Results'
  BY <1>1, <1>3 DEF IInv, Results
<1>12. Waiter'
  BY <1>1, <1>3, RunningFacts DEF IInv, Waiter, Active
<1>13. Strand'
  BY <1>1, <1>4, <1>7, RunningFacts DEF Strand
<1>14. Handles'
  BY <1>1, <1>3, <1>4, <1>7, <1>8, RunningFacts DEF Handles
<1> QED BY <1>6, <1>9, <1>10, <1>11, <1>12, <1>13, <1>14 DEF IInv

LEMMA AwaitSuspendReturnsStep ==
  ASSUME IInv, NEW t \in Threads, NEW f \in Tasks, AwaitSuspendReturns(t, f)
  PROVE  IInv'
<1> DEFINE s == Below(stack[t]) \o <<>>
<1>1. /\ stack[t] # <<>> /\ Top(stack[t]).fn = "suspend"
      /\ stack' = [stack EXCEPT ![t] = s]
      /\ UNCHANGED <<async, waiting, frame, owner, continuation, outcome, result, pc, done>>
  BY DEF AwaitSuspendReturns, Innermost, Transfer, calls, promises, waiter
<1>2. Shape(s) /\ ~Leads(s)
  BY <1>1, DropLast DEF IInv, Stacks
<1> HIDE DEF s
<1>3. /\ Stacks' /\ DOMAIN stack' = Threads
      /\ \A u \in Threads : stack'[u] = IF u = t THEN s ELSE stack[u]
  BY Zenon, <1>1, <1>2, StackStep
<1>4. \A u \in Threads : Leads(stack'[u]) => Leads(stack[u]) /\ stack'[u] = stack[u]
  BY <1>2, <1>3
<1>5. ~Leads(stack[t]) /\ ~Leads(stack'[t])
  BY <1>1, <1>2, <1>3 DEF Leads
<1>6. \A u \in Threads, g \in Tasks :
        /\ Innermost(u, Run(g))' <=> Innermost(u, Run(g))
        /\ Innermost(u, FinalSuspend(g))' <=> Innermost(u, FinalSuspend(g))
  <2> SUFFICES ASSUME NEW u \in Threads, NEW g \in Tasks
               PROVE  /\ Innermost(u, Run(g))' <=> Innermost(u, Run(g))
                      /\ Innermost(u, FinalSuspend(g))' <=> Innermost(u, FinalSuspend(g))
    OBVIOUS
  <2>1. CASE u = t
    BY <1>5, <2>1, NotLeading, EntryFacts DEF Leads, Innermost
  <2>2. CASE u # t
    BY <1>3, <2>2 DEF Innermost
  <2> QED BY <2>1, <2>2
<1>7. Types'
  BY <1>1, <1>3 DEF IInv, Types
<1>8. Tree' /\ Ranked' /\ Chain' /\ Results'
  BY <1>1 DEF IInv, Tree, Ranked, Chain, Results, Active
<1>9. Waiter'
  BY <1>1, <1>3 DEF IInv, Waiter, Active
<1>10. Strand'
  BY SMTT(20), <1>1, <1>4 DEF IInv, Strand
<1>11. Handles'
  BY <1>1, <1>6 DEF IInv, Handles
<1> QED BY <1>3, <1>7, <1>8, <1>9, <1>10, <1>11 DEF IInv

LEMMA CallbackStep ==
  ASSUME IInv, NEW c \in AsyncCalls, Callback(c)
  PROVE  IInv'
<1>1. PICK f : f = waiting[c]
  OBVIOUS
<1>2. /\ async[c] = "started" /\ async' = [async EXCEPT ![c] = "callback"]
      /\ frame' = [frame EXCEPT ![f] = "running"]
      /\ result' = [result EXCEPT ![f] = TRUE]
      /\ stack' = [stack EXCEPT ![c] = <<Run(f)>>]
      /\ UNCHANGED <<waiting, owner, continuation, outcome, pc, done>>
  BY <1>1 DEF Callback, RpcDone, AsyncStep, Resumed, promises, waiter
<1>3. /\ Types /\ Root \in Tasks /\ f \in Tasks /\ frame[f] = "await_rpc"
      /\ pc # "start" /\ frame[Root] # "created" /\ c \in Threads
  BY <1>1, <1>2, RootAssumption, ThreadSets DEF IInv, Handles, Waiter
<1>4. \A g \in Tasks : frame'[g] = IF g = f THEN "running" ELSE frame[g]
  BY <1>2, <1>3 DEF Types
<1>5. \A d \in AsyncCalls : async'[d] = IF d = c THEN "callback" ELSE async[d]
  BY <1>2, <1>3 DEF Types
<1>6. \A u \in Threads : stack'[u] = IF u = c THEN <<Run(f)>> ELSE stack[u]
  BY <1>2, <1>3 DEF Types
<1>7. Shape(<<Run(f)>>) /\ <<Run(f)>> # <<>> /\ Top(<<Run(f)>>) = Run(f)
  BY <1>3, SingleEntry
<1>8. \A u \in Threads : ~Leads(stack[u])
  BY <1>2 DEF IInv, Strand
<1>9. \A d \in AsyncCalls : async'[d] # "started"
  BY <1>2, <1>5 DEF IInv, Strand
<1>10. \A u \in Threads, g \in Tasks :
         /\ Innermost(u, Run(g))' => u = c /\ g = f
         /\ ~Innermost(u, FinalSuspend(g))'
  <2> SUFFICES ASSUME NEW u \in Threads, NEW g \in Tasks
               PROVE  /\ Innermost(u, Run(g))' => u = c /\ g = f
                      /\ ~Innermost(u, FinalSuspend(g))'
    OBVIOUS
  <2>1. CASE u = c
    BY <1>3, <1>6, <1>7, <2>1, EntriesDiffer DEF Innermost
  <2>2. CASE u # c
    BY <1>6, <1>8, <2>2, NotLeading
  <2> QED BY <2>1, <2>2
<1>11. Innermost(c, Run(f))'
  BY Zenon, <1>3, <1>6, <1>7 DEF Innermost
<1>12. Types'
  BY <1>2, <1>3 DEF Types, FrameStates
<1>13. Tree' /\ Ranked'
  BY <1>2, <1>3, <1>4 DEF IInv, Types, Tree, Ranked, Active
<1>14. Chain'
  BY <1>2, <1>3, <1>4 DEF IInv, Types, Chain, Active
<1>15. Results'
  <2>1. \A g \in Tasks : g # f => result'[g] = result[g]
    BY <1>2, <1>3 DEF Types
  <2>2. result'[f]
    BY <1>2, <1>3 DEF Types
  <2> QED BY <1>2, <1>3, <1>4, <2>1, <2>2 DEF IInv, Results
<1>16. Waiter'
  BY <1>2, <1>3, <1>4 DEF IInv, Waiter, Active
<1>17. Stacks'
  <2>1. \A u \in Threads : Shape(stack'[u])
    BY <1>6, <1>7 DEF IInv, Stacks
  <2>2. \A u \in Threads : Shape(stack[u])'
    BY <2>1 DEF Shape
  <2> QED BY <1>5, <1>6, <2>2, ThreadSets DEF IInv, Stacks
<1>18. Strand'
  <2>1. \A u \in Threads : Leads(stack'[u]) => u = c
    BY <1>6, <1>8
  <2> QED BY <1>9, <2>1 DEF Strand
<1>19. Handles'
  <2>1. \A g \in Tasks : frame[g] # "running"
    BY <1>8, LeaderFacts DEF IInv, Handles, Stacks
  <2> QED BY SMTT(20), <1>3, <1>4, <1>9, <1>10, <1>11, <2>1 DEF Handles
<1> QED BY <1>12, <1>13, <1>14, <1>15, <1>16, <1>17, <1>18, <1>19 DEF IInv

(* Steps that leave the strand alone. *)
LEMMA CallbackReturnsStep ==
  ASSUME IInv, NEW c \in AsyncCalls, CallbackReturns(c)
  PROVE  IInv'
<1>1. /\ async[c] = "callback" /\ async' = [async EXCEPT ![c] = "deleted"]
      /\ stack[c] = <<>>
      /\ UNCHANGED <<waiting, frame, owner, continuation, outcome, result, stack, pc, done>>
  BY DEF CallbackReturns, DeleteState, AsyncStep, promises, waiter
<1>2. \A d \in AsyncCalls : async'[d] = IF d = c THEN "deleted" ELSE async[d]
  BY <1>1 DEF IInv, Types
<1>3. Types'
  BY <1>1 DEF IInv, Types
<1>4. Tree' /\ Ranked' /\ Chain' /\ Results'
  BY SMTT(20), <1>1 DEF IInv, Tree, Ranked, Chain, Results, Active
<1>5. Waiter'
  BY <1>1, <1>2 DEF IInv, Waiter, Active
<1>6. Stacks'
  BY <1>1, <1>2 DEF IInv, Stacks, Shape
<1>7. Strand'
  BY <1>1, <1>2 DEF IInv, Strand
<1>8. Handles'
  BY <1>1, <1>2 DEF IInv, Handles, Innermost
<1> QED BY <1>3, <1>4, <1>5, <1>6, <1>7, <1>8 DEF IInv

LEMMA AcquireStep ==
  ASSUME IInv, Acquire
  PROVE  IInv'
<1>1. /\ pc = "resume" /\ done = "1" /\ pc' = "read" /\ done' = "0"
      /\ UNCHANGED <<async, waiting, frame, owner, continuation, outcome, result, stack>>
  BY DEF Acquire, Signalled, calls, promises
<1>2. frame[Root] = "final"
  BY <1>1 DEF IInv, Waiter
<1>3. Types'
  BY <1>1 DEF IInv, Types
<1>4. Tree' /\ Ranked' /\ Chain' /\ Results'
  BY <1>1 DEF IInv, Tree, Ranked, Chain, Results, Active
<1>5. Waiter'
  BY <1>1, <1>2 DEF IInv, Waiter, Active
<1>6. Stacks' /\ Strand'
  BY <1>1 DEF IInv, Stacks, Strand, Shape, Leads
<1>7. Handles'
  BY <1>1 DEF IInv, Handles, Innermost
<1> QED BY <1>3, <1>4, <1>5, <1>6, <1>7 DEF IInv

LEMMA SyncWaitReturnsStep ==
  ASSUME IInv, SyncWaitReturns
  PROVE  IInv'
<1>1. /\ pc = "read" /\ pc' \in {"thrown", "returned"} /\ done' = "destroyed"
      /\ frame' = [frame EXCEPT ![Root] = "destroyed"]
      /\ UNCHANGED <<async, waiting, owner, continuation, outcome, result, stack>>
  BY DEF SyncWaitReturns, calls, promises
<1>2. Types /\ Root \in Tasks /\ frame[Root] = "final"
  BY <1>1, RootAssumption DEF IInv, Waiter
<1>3. \A g \in Tasks : frame'[g] = IF g = Root THEN "destroyed" ELSE frame[g]
  BY <1>1, <1>2 DEF Types
<1>4. Types'
  BY <1>1, <1>2 DEF Types, FrameStates
<1>5. Tree' /\ Ranked'
  BY <1>1, <1>2, <1>3 DEF IInv, Types, Tree, Ranked, Active
<1>6. Chain'
  BY <1>1, <1>2, <1>3 DEF IInv, Types, Chain, Active
<1>7. Results'
  BY <1>1, <1>2, <1>3 DEF IInv, Results
<1>8. Waiter'
  BY <1>1, <1>2, <1>3 DEF IInv, Waiter, Active
<1>9. Stacks' /\ Strand'
  BY <1>1 DEF IInv, Stacks, Strand, Shape, Leads
<1>10. Handles'
  BY <1>1, <1>2, <1>3 DEF IInv, Handles, Innermost
<1> QED BY <1>4, <1>5, <1>6, <1>7, <1>8, <1>9, <1>10 DEF IInv

LEMMA CallCoroutineStep ==
  ASSUME IInv, NEW t \in Threads, NEW f \in Tasks, NEW g \in Tasks,
         CallCoroutine(t, f, g)
  PROVE  IInv'
<1>1. /\ Executes(t, f) /\ frame[g] = "none"
      /\ frame' = [frame EXCEPT ![g] = "created"]
      /\ owner' = [owner EXCEPT ![g] = f]
      /\ UNCHANGED <<async, waiting, continuation, outcome, result, stack, pc, done>>
  BY SMTT(20) DEF CallCoroutine, calls, waiter
<1>2. Types /\ Root \in Tasks /\ g # Root /\ g # f /\ None \notin Tasks
  BY <1>1, RootAssumption, RunningFacts DEF IInv, Tree
<1>3. \A h \in Tasks : /\ frame'[h] = IF h = g THEN "created" ELSE frame[h]
                       /\ owner'[h] = IF h = g THEN f ELSE owner[h]
  BY <1>1, <1>2 DEF Types
<1>4. \A h \in Tasks : owner[h] # g
  BY <1>1, <1>2 DEF IInv, Tree
<1>5. Types'
  BY SMTT(20), <1>1, <1>2 DEF Types, FrameStates
<1>6. Tree'
  <2>1. frame[f] = "running"
    BY <1>1, RunningFacts
  <2> QED BY <1>1, <1>2, <1>3, <1>4, <2>1 DEF IInv, Types, Tree, Active
<1>7. Ranked'
  <2>1. PICK depth \in [Tasks -> Nat] :
          \A h \in Tasks : owner[h] # None => depth[owner[h]] < depth[h]
    BY DEF IInv, Ranked
  <2> DEFINE deeper == [depth EXCEPT ![g] = depth[f] + 1]
  <2>2. deeper \in [Tasks -> Nat]
    OBVIOUS
  <2>3. ASSUME NEW h \in Tasks, owner'[h] # None
        PROVE  deeper[owner'[h]] < deeper[h]
    <3>1. CASE h = g
      BY <1>2, <1>3, <3>1
    <3>2. CASE h # g
      <4>1. owner'[h] = owner[h] /\ owner[h] \in Tasks /\ owner[h] # g
        BY SMTT(20), <1>2, <1>3, <1>4, <2>3, <3>2 DEF Types
      <4> QED BY SMTT(20), <2>1, <2>3, <3>2, <4>1
    <3> QED BY <3>1, <3>2
  <2> QED BY Zenon, <2>2, <2>3 DEF Ranked
<1>8. Chain'
  BY <1>1, <1>2, <1>3 DEF IInv, Types, Chain, Active
<1>9. Results'
  BY <1>1, <1>2, <1>3 DEF IInv, Results
<1>10. Waiter'
  BY SMTT(20), <1>1, <1>2, <1>3 DEF IInv, Waiter, Active
<1>11. Stacks' /\ Strand'
  BY SMTT(20), <1>1 DEF IInv, Stacks, Strand, Shape, Leads
<1>12. Handles'
  BY <1>1, <1>2, <1>3 DEF IInv, Handles, Innermost
<1> QED BY <1>5, <1>6, <1>7, <1>8, <1>9, <1>10, <1>11, <1>12 DEF IInv

LEMMA DestroyTaskStep ==
  ASSUME IInv, NEW t \in Threads, NEW f \in Tasks, NEW g \in Tasks,
         DestroyTask(t, f, g)
  PROVE  IInv'
<1>1. /\ Executes(t, f) /\ owner[g] = f /\ frame[g] \in {"created", "final"}
      /\ frame' = [frame EXCEPT ![g] = "destroyed"]
      /\ UNCHANGED <<async, waiting, owner, continuation, outcome, result, stack, pc, done>>
  BY DEF DestroyTask, calls, promises, waiter
<1>2. Types /\ Root \in Tasks /\ None \notin Tasks /\ g # Root
  BY <1>1, RootAssumption DEF IInv, Tree
<1>3. \A h \in Tasks : frame'[h] = IF h = g THEN "destroyed" ELSE frame[h]
  BY <1>1, <1>2 DEF Types
<1>4. Types'
  BY SMTT(20), <1>1, <1>2 DEF Types, FrameStates
<1>5. Tree' /\ Ranked'
  BY SMTT(20), <1>1, <1>2, <1>3 DEF IInv, Types, Tree, Ranked, Active
<1>6. Chain'
  BY <1>1, <1>2, <1>3 DEF IInv, Types, Chain, Active
<1>7. Results'
  BY <1>1, <1>2, <1>3 DEF IInv, Results
<1>8. Waiter'
  BY SMTT(20), <1>1, <1>2, <1>3 DEF IInv, Waiter, Active
<1>9. Stacks' /\ Strand'
  BY SMTT(20), <1>1 DEF IInv, Stacks, Strand, Shape, Leads
<1>10. Handles'
  BY <1>1, <1>2, <1>3 DEF IInv, Handles, Innermost
<1> QED BY SMTT(20), <1>4, <1>5, <1>6, <1>7, <1>8, <1>9, <1>10 DEF IInv

LEMMA OnCompleteStep ==
  ASSUME IInv, NEW t \in Threads, NEW f \in Tasks, OnComplete(t, f)
  PROVE  IInv'
<1> DEFINE s == Below(stack[t]) \o <<>>
<1>1. /\ Innermost(t, FinalSuspend(f)) /\ stack[t] # <<>> /\ done' = "1"
      /\ stack' = [stack EXCEPT ![t] = s]
      /\ UNCHANGED <<async, waiting, frame, owner, continuation, outcome, result, pc>>
  BY SMTT(20) DEF OnComplete, Released, Innermost, Transfer, calls, promises
<1>2. /\ f = Root /\ frame[Root] = "final" /\ pc = "resume" /\ Leads(stack[t])
      /\ Shape(stack[t])
  BY <1>1, LeaderFacts DEF IInv, Handles, Stacks
<1>3. Shape(s) /\ ~Leads(s)
  BY <1>1, <1>2, DropLast
<1> HIDE DEF s
<1>4. /\ Stacks' /\ DOMAIN stack' = Threads
      /\ \A u \in Threads : stack'[u] = IF u = t THEN s ELSE stack[u]
  BY ZenonT(40), <1>1, <1>3, StackStep
<1>5. \A u \in Threads : ~Leads(stack'[u])
  BY <1>2, <1>3, <1>4, LeaderMoves
<1>6. Types'
  BY <1>1, <1>4 DEF IInv, Types
<1>7. Tree' /\ Ranked' /\ Chain' /\ Results'
  BY <1>1 DEF IInv, Tree, Ranked, Chain, Results, Active
<1>8. Waiter'
  BY <1>1, <1>2 DEF IInv, Waiter, Active
<1>9. Strand'
  BY SMTT(20), <1>1, <1>5 DEF IInv, Strand
<1>10. Handles'
  <2>1. \A g \in Tasks : frame[g] # "running"
    <3> SUFFICES ASSUME NEW g \in Tasks, frame[g] = "running" PROVE FALSE
      OBVIOUS
    <3>1. PICK u \in Threads : Innermost(u, Run(g))
      BY DEF IInv, Handles
    <3>2. u = t
      BY SMTT(20), <1>2, <3>1, LeaderFacts DEF IInv, Strand, Stacks
    <3> QED BY <1>1, <3>1, <3>2, EntriesDiffer DEF Innermost
  <2> QED BY <1>1, <1>5, <2>1, NotLeading DEF IInv, Handles
<1> QED BY <1>4, <1>6, <1>7, <1>8, <1>9, <1>10 DEF IInv

LEMMA AwaitTaskStep ==
  ASSUME IInv, NEW t \in Threads, NEW f \in Tasks, NEW g \in Tasks,
         AwaitTask(t, f, g)
  PROVE  IInv'
<1> DEFINE s == Below(stack[t]) \o <<Run(g)>>
<1>1. /\ Executes(t, f) /\ owner[g] = f /\ frame[g] = "created"
      /\ continuation' = [continuation EXCEPT ![g] = f]
      /\ frame' = [frame EXCEPT ![f] = "await_task", ![g] = "running"]
      /\ stack' = [stack EXCEPT ![t] = s]
      /\ UNCHANGED <<async, waiting, owner, outcome, result, pc, done>>
  BY SMTT(20) DEF AwaitTask, Awaits, Transfer, calls, waiter
<1>2. /\ Types /\ Root \in Tasks /\ None \notin Tasks /\ g # Root /\ g # f
      /\ frame[f] = "running" /\ \A h \in Tasks : frame[h] = "running" => h = f
  BY <1>1, RootAssumption, RunningFacts DEF IInv, Tree
<1>3. \A h \in Tasks :
        /\ frame'[h] = IF h = f THEN "await_task" ELSE IF h = g THEN "running" ELSE frame[h]
        /\ continuation'[h] = IF h = g THEN f ELSE continuation[h]
  BY SMTT(20), <1>1, <1>2 DEF Types
<1>4. Shape(s) /\ s # <<>> /\ Top(s) = Run(g)
  BY SMTT(20), <1>1, RunningFacts, ReplaceLast, EntryFacts
<1> HIDE DEF s
<1>5. /\ Stacks' /\ DOMAIN stack' = Threads
      /\ \A u \in Threads : stack'[u] = IF u = t THEN s ELSE stack[u]
  BY Zenon, <1>1, <1>4, RunningFacts, StackStep
<1>6. \A u \in Threads : u # t =>
        /\ ~Leads(stack'[u])
        /\ \A h \in Tasks : ~Innermost(u, Run(h))' /\ ~Innermost(u, FinalSuspend(h))'
  BY <1>1, <1>5, RunningFacts, LeaderMoves
<1>7. Innermost(t, Run(g))' /\ \A h \in Tasks : /\ Innermost(t, Run(h))' => h = g
                                               /\ ~Innermost(t, FinalSuspend(h))'
  BY <1>4, <1>5, EntriesDiffer DEF Innermost
<1>8. Types'
  BY SMTT(20), <1>1, <1>2, <1>5 DEF Types, FrameStates
<1>9. Tree'
  BY <1>1, <1>2, <1>3 DEF IInv, Types, Tree, Active
<1>10. Ranked'
  BY SMTT(20), <1>1 DEF IInv, Ranked
<1>11. Chain'
  <2>1. \A h \in Tasks : Active(h)' <=> (Active(h) \/ h = g)
    BY SMTT(20), <1>2, <1>3 DEF Active
  <2>2. ASSUME NEW h \in Tasks, Active(h), h # g
        PROVE  /\ continuation'[h] = continuation[h] /\ continuation[h] # f
               /\ IF continuation[h] = None THEN h = Root
                  ELSE frame'[continuation[h]] = "await_task"
    <3>1. IF continuation[h] = None THEN h = Root
          ELSE continuation[h] \in Tasks /\ frame[continuation[h]] = "await_task"
      BY SMTT(20), <1>2, <2>2 DEF IInv, Types, Chain
    <3> QED BY ZenonT(40), <1>1, <1>2, <1>3, <2>2, <3>1
  <2>3. continuation'[g] = f /\ frame'[f] = "await_task" /\ f # None
    BY <1>2, <1>3
  <2>4. continuation'[Root] = None
    BY <1>2, <1>3 DEF IInv, Chain
  <2>5. \A h, i \in Tasks : Active(h) /\ Active(i) /\ continuation[h] = continuation[i]
                            => h = i
    BY DEF IInv, Chain
  <2> QED BY <2>1, <2>2, <2>3, <2>4, <2>5 DEF Chain
<1>12. Results'
  <2>1. result' = result /\ outcome' = outcome
    BY <1>1
  <2>2. result[f] /\ result[g]
    BY <1>1, <1>2 DEF IInv, Results
  <2>3. \A h \in Tasks : frame'[h] = "final" => frame[h] = "final"
    BY <1>2, <1>3
  <2>4. \A h \in Tasks : h # f /\ h # g => frame'[h] = frame[h]
    BY SMTT(20), <1>3
  <2> QED BY <2>1, <2>2, <2>3, <2>4 DEF IInv, Results
<1>13. Waiter'
  <2>1. frame'[Root] = (IF Root = f THEN "await_task" ELSE frame[Root])
        /\ pc # "start" /\ frame[Root] # "created"
    BY ZenonT(40), <1>1, <1>2, <1>3, RunningFacts
  <2> QED BY SMTT(20), <1>1, <1>2, <2>1 DEF IInv, Waiter, Active
<1>14. Strand'
  BY <1>1, <1>6, RunningFacts DEF Strand
<1>15. Handles'
  <2>1. \A c \in AsyncCalls : async'[c] # "started"
    BY <1>1, RunningFacts
  <2>2. \A h \in Tasks : frame'[h] = "running" <=> h = g
    BY SMTT(20), <1>2, <1>3
  <2> QED BY SMTT(20), <1>6, <1>7, <2>1, <2>2 DEF Handles
<1> QED BY SMTT(20), <1>5, <1>8, <1>9, <1>10, <1>11, <1>12, <1>13, <1>14, <1>15 DEF IInv

LEMMA FinishStep ==
  ASSUME IInv, NEW t \in Threads, NEW f \in Tasks, NEW how \in {"value", "exception"},
         Finish(t, f, how)
  PROVE  IInv'
<1> DEFINE k == continuation[f]
           a == IF k # None THEN Run(k) ELSE FinalSuspend(f)
           s == Below(stack[t]) \o <<a>>
<1>1. /\ Executes(t, f) /\ \A g \in Tasks : owner[g] = f => frame[g] = "destroyed"
      /\ outcome' = [outcome EXCEPT ![f] = how]
      /\ frame' = [g \in Tasks |-> CASE g = f -> "final" [] g = k -> "running"
                                     [] OTHER -> frame[g]]
      /\ stack' = [stack EXCEPT ![t] = s]
      /\ UNCHANGED <<async, waiting, owner, continuation, result, pc, done>>
  BY DEF Finish, Final, Transfer, calls, waiter
<1>2. /\ Types /\ Root \in Tasks /\ None \notin Tasks /\ frame[f] = "running" /\ Active(f)
      /\ \A h \in Tasks : frame[h] = "running" => h = f
  BY SMTT(20), <1>1, RootAssumption, RunningFacts DEF IInv
<1>3. \/ k = None /\ f = Root
      \/ k \in Tasks /\ k # None /\ k # f /\ frame[k] = "await_task"
  BY <1>2 DEF IInv, Types, Chain
<1>4. ASSUME NEW h \in Tasks
      PROVE  frame'[h] = IF h = f THEN "final" ELSE
                         IF h = k THEN "running" ELSE frame[h]
  <2> HIDE DEF k, s
  <2>1. k # f
    BY <1>2, <1>3
  <2>2. frame'[h] = CASE h = f -> "final" [] h = k -> "running" [] OTHER -> frame[h]
    BY <1>1, Zenon
  <2>3. CASE h = f
    BY <2>1, <2>2, <2>3
  <2>4. CASE h = k
    BY <2>1, <2>2, <2>4
  <2>5. CASE h # f /\ h # k
    BY <2>2, <2>5
  <2> QED BY <2>1, <2>3, <2>4, <2>5
<1>5. a \in Entries
  BY <1>2, <1>3, EntryFacts
<1>6. Shape(s) /\ s # <<>> /\ Top(s) = a
  <2> HIDE DEF a
  <2> QED BY <1>1, <1>5, RunningFacts, ReplaceLast
<1> HIDE DEF s
<1>7. /\ Stacks' /\ DOMAIN stack' = Threads
      /\ \A u \in Threads : stack'[u] = IF u = t THEN s ELSE stack[u]
  BY Zenon, <1>1, <1>6, RunningFacts, StackStep
<1>8. \A u \in Threads : u # t =>
        /\ ~Leads(stack'[u])
        /\ \A h \in Tasks : ~Innermost(u, Run(h))' /\ ~Innermost(u, FinalSuspend(h))'
  BY <1>1, <1>7, RunningFacts, LeaderMoves
<1>9. \A h \in Tasks :
        /\ Innermost(t, Run(h))' <=> k # None /\ h = k
        /\ Innermost(t, FinalSuspend(h))' => k = None /\ h = f
  BY <1>3, <1>6, <1>7, EntriesDiffer DEF Innermost
<1> HIDE DEF a
<1>10. Types'
  <2>1. outcome' \in [Tasks -> {"none", "value", "exception"}]
    BY <1>1, <1>2 DEF Types
  <2>2. frame' \in [Tasks -> FrameStates]
    BY <1>1, <1>2, <1>4 DEF Types, FrameStates
  <2> QED BY <1>1, <1>2, <1>7, <2>1, <2>2 DEF Types
<1> HIDE DEF k
<1>11. Tree'
  BY <1>1, <1>2, <1>3, <1>4 DEF IInv, Types, Tree, Active
<1>12. Ranked'
  BY <1>1 DEF IInv, Ranked
<1>13. Chain'
  <2>1. \A h \in Tasks : Active(h) /\ h # f => continuation[h] # k
    BY <1>2 DEF IInv, Chain, k
  <2> QED BY <1>1, <1>2, <1>3, <1>4, <2>1 DEF IInv, Types, Chain, Active
<1>14. Results'
  <2>1. outcome'[f] # "none" /\ \A h \in Tasks : h # f => outcome'[h] = outcome[h]
    BY <1>1, <1>2 DEF Types
  <2>2. \A h \in Tasks : result[h] \/ frame[h] = "await_rpc"
    BY DEF IInv, Results
  <2> QED BY <1>1, <1>2, <1>3, <1>4, <2>1, <2>2 DEF IInv, Results
<1>15. Waiter'
  BY <1>1, <1>2, <1>3, <1>4, RunningFacts DEF IInv, Waiter, Active
<1>16. Strand'
  BY <1>1, <1>8, RunningFacts DEF Strand
<1>17. Handles'
  <2>1. f = Root => pc = "resume" /\ done = "0"
    BY <1>2 DEF IInv, Waiter
  <2> QED BY SMTT(20), <1>1, <1>2, <1>3, <1>4, <1>8, <1>9, <2>1, RunningFacts DEF Handles
<1> QED BY Zenon, <1>7, <1>10, <1>11, <1>12, <1>13, <1>14, <1>15, <1>16, <1>17 DEF IInv

LEMMA IInvHolds == Spec => []IInv
<1>1. Init => IInv
  <2> SUFFICES ASSUME Init PROVE IInv
    OBVIOUS
  <2>1. Root \in Tasks /\ None \notin Tasks
    BY RootAssumption
  <2>2. Types
    BY <2>1 DEF Init, AsyncInit, Types, FrameStates
  <2>3. Tree /\ Chain
    BY <2>1 DEF Init, Tree, Chain, Active
  <2>4. Ranked
    <3>1. [f \in Tasks |-> 0] \in [Tasks -> Nat] /\ \A f \in Tasks : owner[f] = None
      BY DEF Init
    <3> QED BY Zenon, <3>1 DEF Ranked
  <2>5. Results /\ Waiter
    BY <2>1 DEF Init, AsyncInit, Results, Waiter, Active
  <2>6. Stacks
    BY EmptyStack, ThreadSets DEF Init, Stacks
  <2>7. Strand /\ Handles
    BY <2>1, EmptyStack DEF Init, AsyncInit, Strand, Handles, Innermost
  <2> QED BY <2>2, <2>3, <2>4, <2>5, <2>6, <2>7 DEF IInv
<1>2. IInv /\ [Next]_vars => IInv'
  <2> SUFFICES ASSUME IInv, [Next]_vars PROVE IInv'
    OBVIOUS
  <2>1. ASSUME NEW t \in Threads, NEW f \in Tasks, Body(t, f) PROVE IInv'
    BY <2>1, AwaitRpcStep, AwaitRefusedStep, CallCoroutineStep, AwaitTaskStep,
       DestroyTaskStep, FinishStep DEF Body
  <2>2. ASSUME NEW t \in Threads, Step(t) PROVE IInv'
    BY <2>1, <2>2, AwaitSuspendReturnsStep, OnCompleteStep DEF Step
  <2>3. CASE UNCHANGED vars
    <3>1. UNCHANGED <<async, waiting, frame, owner, continuation, outcome, result, stack,
                      pc, done>>
      BY <2>3 DEF vars, calls, promises, waiter
    <3>2. Types' /\ Tree' /\ Ranked' /\ Chain' /\ Results' /\ Waiter'
      <4>1. Types' /\ Results'
        BY <3>1 DEF IInv, Types, Results
      <4>2. Tree' /\ Ranked' /\ Chain'
        BY SMTT(20), <3>1 DEF IInv, Tree, Ranked, Chain, Active
      <4>3. Waiter'
        BY <3>1 DEF IInv, Waiter, Active
      <4> QED BY <4>1, <4>2, <4>3
    <3>3. Stacks' /\ Strand'
      BY <3>1 DEF IInv, Stacks, Strand, Shape, Leads
    <3>4. Handles'
      BY <3>1 DEF IInv, Handles, Innermost
    <3> QED BY <3>2, <3>3, <3>4 DEF IInv
  <2> QED BY <2>2, <2>3, SyncWaitStep, AcquireStep, SyncWaitReturnsStep, CallbackStep,
             CallbackReturnsStep DEF Next
<1> QED BY <1>1, <1>2, PTL DEF Spec

-----------------------------------------------------------------------------
(* What the invariant says *)

(* A task goes on only when what it awaits has left its result: UnaryAwaiter *)
(* sets result_ before it resumes, a Task its value before it transfers.     *)
THEOREM ResultIsReady == Spec => []ResultReady
<1>1. IInv => ResultReady
  BY SMTT(20) DEF IInv, Results, ResultReady
<1> QED BY <1>1, IInvHolds, PTL

(* No frame is used after its Task is gone, on whatever threads the tasks  *)
(* were resumed.                                                           *)
THEOREM FramesOutliveUses == Spec => []NoDanglingFrame
<1>1. IInv => NoDanglingFrame
  <2> SUFFICES ASSUME IInv PROVE NoDanglingFrame
    OBVIOUS
  <2>1. ASSUME NEW t \in Threads, NEW i \in DOMAIN stack[t], stack[t][i].uses
        PROVE  Alive(stack[t][i].task)
    <3> DEFINE a == stack[t][i]
    <3>1. stack[t] \in Seq(Entries) /\ Len(stack[t]) \in Nat
      BY DEF IInv, Stacks, Shape
    <3>2. i \in 1..Len(stack[t]) /\ a.uses
      BY <2>1, <3>1
    <3>3. a \in Entries /\ a.fn # "suspend"
      BY SMTT(20), <2>1, <3>2, <3>1, EntryFacts
    <3>4. i = Len(stack[t])
      BY <3>2, <3>1, <3>3 DEF IInv, Stacks, Shape
    <3>5. Innermost(t, a)
      BY <3>2, <3>1, <3>4 DEF Innermost, Top
    <3>6. PICK f \in Tasks : a = Run(f) \/ a = FinalSuspend(f)
      BY <3>3, EntryFacts
    <3>7. a.task = f
      BY <3>6, EntryFacts
    <3>8. frame[f] \in {"running", "final"}
      BY <3>5, <3>6 DEF IInv, Handles
    <3> QED BY <3>7, <3>8 DEF Alive
  <2>2. \A c \in AsyncCalls : async[c] = "started" => frame[waiting[c]] = "await_rpc"
    BY DEF IInv, Handles
  <2>3. ASSUME NEW f \in Tasks, frame[f] \in {"running", "await_rpc", "await_task"}
        PROVE  IF continuation[f] = None THEN f = Root /\ done = "0"
               ELSE frame[continuation[f]] = "await_task"
    BY <2>3 DEF IInv, Chain, Waiter, Active
  <2>4. ASSUME NEW f \in Tasks, Alive(f), owner[f] # None PROVE Alive(owner[f])
    BY <2>4 DEF IInv, Tree, Active, Alive
  <2> QED BY <2>1, <2>2, <2>3, <2>4 DEF NoDanglingFrame
<1> QED BY <1>1, IInvHolds, PTL

LEMMA LeastNatural ==
  ASSUME NEW T \in SUBSET Nat, T # {}
  PROVE  \E x \in T : \A y \in T : x <= y
<1>1. PICK x \in T : \A y \in T : ~(<<y, x>> \in OpToRel(<, Nat))
  BY Zenon, NatLessThanWellFounded, WFMin
<1>2. ASSUME NEW y \in T PROVE x <= y
  <2>1. <<y, x>> \in Nat \X Nat
    OBVIOUS
  <2>2. ~(<<y, x>>[1] < <<y, x>>[2])
    BY <1>1, <2>1, Zenon DEF OpToRel
  <2> QED BY <2>2
<1> QED BY <1>2

(* When the root is not active, no task is: an active task of least depth  *)
(* would have an active owner.                                             *)
LEMMA RootLast ==
  ASSUME IInv, ~Active(Root)
  PROVE  \A f \in Tasks : ~Active(f) /\ (Alive(f) => f = Root)
<1>1. PICK depth \in [Tasks -> Nat] :
        \A f \in Tasks : owner[f] # None => depth[owner[f]] < depth[f]
  BY DEF IInv, Ranked
<1>2. ASSUME NEW f \in Tasks, Alive(f), f # Root
      PROVE  owner[f] \in Tasks /\ Active(owner[f]) /\ depth[owner[f]] < depth[f]
  <2>1. owner[f] # None /\ Active(owner[f])
    BY <1>2 DEF IInv, Tree, Alive
  <2> QED BY <1>1, <2>1 DEF IInv, Types
<1>3. ASSUME NEW f \in Tasks, Active(f) PROVE FALSE
  <2> DEFINE T == {depth[g] : g \in {h \in Tasks : Active(h)}}
  <2>1. T \in SUBSET Nat /\ T # {}
    BY <1>3
  <2>2. PICK n \in T : \A m \in T : n <= m
    BY <2>1, LeastNatural, Zenon
  <2>3. PICK g \in Tasks : Active(g) /\ depth[g] = n
    BY <2>2
  <2>4. Alive(g) /\ g # Root
    BY <2>3 DEF Active, Alive
  <2>5. owner[g] \in Tasks /\ Active(owner[g]) /\ depth[owner[g]] < n
    BY <1>2, <2>3, <2>4
  <2>6. depth[owner[g]] \in T /\ depth[owner[g]] \in Nat /\ n \in Nat
    BY <2>3, <2>5
  <2>7. n <= depth[owner[g]]
    BY <2>2, <2>6
  <2> HIDE DEF T
  <2> QED BY <2>5, <2>6, <2>7
<1> QED BY <1>2, <1>3

(* When sync_wait() goes on, no task that the root has started is left,    *)
(* and no callback is still to come.                                       *)
THEOREM NothingIsLeftBehind == Spec => []NothingLeftBehind
<1>1. IInv => NothingLeftBehind
  <2> SUFFICES ASSUME IInv, pc \in {"read", "returned", "thrown"}
               PROVE  /\ \A f \in Tasks : Alive(f) => f = Root /\ frame[f] = "final"
                                                      /\ pc = "read"
                      /\ \A c \in AsyncCalls : async[c] # "started"
    BY DEF NothingLeftBehind
  <2>1. \/ pc = "read" /\ frame[Root] = "final"
        \/ pc # "read" /\ frame[Root] = "destroyed"
    BY DEF IInv, Waiter
  <2>2. ~Active(Root)
    BY <2>1 DEF Active
  <2>3. \A f \in Tasks : ~Active(f) /\ (Alive(f) => f = Root)
    BY <2>2, RootLast
  <2>4. \A c \in AsyncCalls : async[c] # "started"
    BY Zenon, <2>3 DEF IInv, Handles, Active
  <2> QED BY <2>1, <2>3, <2>4 DEF Alive
<1> QED BY <1>1, IInvHolds, PTL

-----------------------------------------------------------------------------
(* Stack depth *)

RefusedCalls == {c \in AsyncCalls : async[c] = "refused"}

LEMMA RefusedFinite ==
  IsFiniteSet(RefusedCalls) /\ Cardinality(RefusedCalls) \in Nat
  /\ Cardinality(AsyncCalls) \in Nat /\ Cardinality(RefusedCalls) <= Cardinality(AsyncCalls)
<1>1. RefusedCalls \subseteq AsyncCalls
  BY DEF RefusedCalls
<1> QED BY <1>1, CallsAssumption, FS_Subset, FS_CardinalityType

(* A refused call stays refused. *)
LEMMA RefusedGrows ==
  ASSUME RefusedCalls \subseteq RefusedCalls'
  PROVE  Cardinality(RefusedCalls) <= Cardinality(RefusedCalls')
         /\ Cardinality(RefusedCalls) \in Nat /\ Cardinality(RefusedCalls') \in Nat
<1>1. RefusedCalls' \subseteq AsyncCalls
  BY DEF RefusedCalls
<1>2. IsFiniteSet(RefusedCalls')
  BY <1>1, CallsAssumption, FS_Subset
<1> QED BY <1>2, FS_Subset, FS_CardinalityType

(* Every step but a refusal leaves the stacks as deep as they were, or     *)
(* starts an empty one.                                                    *)
LEMMA DepthKept ==
  ASSUME StackBounded, RefusedCalls \subseteq RefusedCalls',
         NEW t \in Threads, \A u \in Threads : Len(stack[u]) \in Nat,
         \A u \in Threads : u # t => stack'[u] = stack[u],
         Len(stack'[t]) \in Nat, Len(stack'[t]) <= Len(stack[t]) \/ Len(stack'[t]) <= 1
  PROVE  StackBounded'
<1>1. Cardinality(RefusedCalls) <= Cardinality(RefusedCalls')
      /\ Cardinality(RefusedCalls) \in Nat /\ Cardinality(RefusedCalls') \in Nat
  BY RefusedGrows
<1>2. \A u \in Threads : Len(stack[u]) <= 1 + Cardinality(RefusedCalls)
  BY Zenon DEF StackBounded, RefusedCalls
<1>3. ASSUME NEW u \in Threads PROVE Len(stack'[u]) <= 1 + Cardinality(RefusedCalls')
  <2>1. CASE u = t
    BY <1>1, <1>2, <2>1
  <2>2. CASE u # t
    BY <1>1, <1>2, <2>2
  <2> QED BY <2>1, <2>2
<1> QED BY <1>3 DEF StackBounded, RefusedCalls

LEMMA DepthStep ==
  ASSUME IInv, IInv', StackBounded, [Next]_vars
  PROVE  StackBounded'
<1>1. \A u \in Threads : /\ Shape(stack[u]) /\ Len(stack[u]) \in Nat
                         /\ Shape(stack'[u]) /\ Len(stack'[u]) \in Nat
  <2>1. \A u \in Threads : stack[u] \in Seq(Entries) /\ Shape(stack[u])
    BY DEF IInv, Stacks, Shape
  <2>2. \A u \in Threads : stack'[u] \in Seq(Entries) /\ Shape(stack'[u])
    BY DEF IInv, Stacks, Shape
  <2> QED BY <2>1, <2>2
<1>2. Types /\ Types'
  BY DEF IInv
<1>3. CASE \E t \in Threads, f \in Tasks, c \in AsyncCalls : AwaitRefused(t, f, c)
  <2>1. PICK t \in Threads, f \in Tasks, c \in AsyncCalls : AwaitRefused(t, f, c)
    BY <1>3
  <2>2. async[c] = "none" /\ async' = [async EXCEPT ![c] = "refused"] /\ stack[t] # <<>>
        /\ stack' = [stack EXCEPT ![t] = Below(stack[t]) \o <<Suspend(f), Run(f)>>]
    BY <2>1 DEF AwaitRefused, Refuse, AsyncStep, Executes, Innermost, Transfer, Refused
  <2>3. Len(Below(stack[t]) \o <<Suspend(f), Run(f)>>) = Len(stack[t]) + 1
    BY <1>1, <2>2, NestLast
  <2>4. \A u \in Threads : Len(stack'[u]) <= Len(stack[u]) + 1
    BY <1>1, <1>2, <2>2, <2>3 DEF Types
  <2>5. RefusedCalls' = RefusedCalls \cup {c} /\ c \notin RefusedCalls
    BY <1>2, <2>2 DEF RefusedCalls, Types
  <2>6. Cardinality(RefusedCalls') = Cardinality(RefusedCalls) + 1
    BY SMTT(20), <2>5, RefusedFinite, FS_AddElement
  <2>7. \A u \in Threads : Len(stack[u]) <= 1 + Cardinality(RefusedCalls)
    BY DEF StackBounded, RefusedCalls
  <2>8. \A u \in Threads : Len(stack'[u]) <= 1 + Cardinality(RefusedCalls')
    BY SMTT(20), <1>1, <2>4, <2>6, <2>7, RefusedFinite
  <2> QED BY <2>8 DEF StackBounded, RefusedCalls
<1>4. CASE \E t \in Threads, f \in Tasks :
             \/ AwaitSuspendReturns(t, f) \/ OnComplete(t, f)
             \/ \E c \in AsyncCalls : AwaitRpc(t, f, c)
             \/ \E g \in Tasks : AwaitTask(t, f, g)
             \/ \E how \in {"value", "exception"} : Finish(t, f, how)
  <2>1. PICK t \in Threads, f \in Tasks :
             \/ AwaitSuspendReturns(t, f) \/ OnComplete(t, f)
             \/ \E c \in AsyncCalls : AwaitRpc(t, f, c)
             \/ \E g \in Tasks : AwaitTask(t, f, g)
             \/ \E how \in {"value", "exception"} : Finish(t, f, how)
    BY <1>4
  <2>2. RefusedCalls \subseteq RefusedCalls'
    BY <1>2, <2>1 DEF RefusedCalls, Types, AwaitSuspendReturns, OnComplete, AwaitRpc,
                      AwaitTask, Finish, StartRpc, AsyncStep, calls
  <2>3. stack[t] # <<>>
    BY Zenon, <2>1 DEF AwaitSuspendReturns, OnComplete, AwaitRpc, AwaitTask, Finish, Executes,
                Innermost
  <2>4. \/ stack' = [stack EXCEPT ![t] = Below(stack[t]) \o <<>>]
        \/ \E a \in Entries : stack' = [stack EXCEPT ![t] = Below(stack[t]) \o <<a>>]
    <3>1. CASE AwaitSuspendReturns(t, f) \/ OnComplete(t, f)
      BY <3>1 DEF AwaitSuspendReturns, OnComplete, Transfer
    <3>2. ASSUME NEW c \in AsyncCalls, AwaitRpc(t, f, c)
          PROVE  \E a \in Entries : stack' = [stack EXCEPT ![t] = Below(stack[t]) \o <<a>>]
      BY Zenon, <3>2, EntryFacts DEF AwaitRpc, Transfer
    <3>3. ASSUME NEW g \in Tasks, AwaitTask(t, f, g)
          PROVE  \E a \in Entries : stack' = [stack EXCEPT ![t] = Below(stack[t]) \o <<a>>]
      BY Zenon, <3>3, EntryFacts DEF AwaitTask, Transfer, Awaits
    <3>4. ASSUME NEW how \in {"value", "exception"}, Finish(t, f, how)
          PROVE  \E a \in Entries : stack' = [stack EXCEPT ![t] = Below(stack[t]) \o <<a>>]
      <4>1. PICK a : a = IF continuation[f] # None THEN Run(continuation[f])
                         ELSE FinalSuspend(f)
        OBVIOUS
      <4>2. a \in Entries
        BY <1>2, <4>1, EntryFacts DEF Types
      <4>3. stack' = [stack EXCEPT ![t] = Below(stack[t]) \o <<a>>]
        BY <3>4, <4>1 DEF Finish, Transfer, Final
      <4> QED BY Zenon, <4>2, <4>3
    <3> QED BY Zenon, <2>1, <3>1, <3>2, <3>3, <3>4
  <2>5. \A u \in Threads : u # t => stack'[u] = stack[u]
    BY Zenon, <1>2, <2>4 DEF Types
  <2>6. Len(stack'[t]) <= Len(stack[t])
    <3>1. CASE stack' = [stack EXCEPT ![t] = Below(stack[t]) \o <<>>]
      <4>1. stack'[t] = Below(stack[t]) \o <<>>
        BY <1>2, <3>1 DEF Types
      <4>2. Len(Below(stack[t]) \o <<>>) = Len(stack[t]) - 1
        BY <1>1, <2>3, DropLast
      <4> QED BY <1>1, <4>1, <4>2
    <3>2. ASSUME NEW a \in Entries, stack' = [stack EXCEPT ![t] = Below(stack[t]) \o <<a>>]
          PROVE  Len(stack'[t]) <= Len(stack[t])
      <4>1. stack'[t] = Below(stack[t]) \o <<a>>
        BY <1>2, <3>2 DEF Types
      <4>2. Len(Below(stack[t]) \o <<a>>) = Len(stack[t])
        BY Zenon, <1>1, <2>3, ReplaceLast
      <4> QED BY <1>1, <4>1, <4>2
    <3> QED BY Zenon, <2>4, <3>1, <3>2
  <2> QED BY <1>1, <2>2, <2>5, <2>6, DepthKept
<1>5. CASE sync_wait \/ \E c \in AsyncCalls : Callback(c)
  <2>1. PICK t \in Threads, f \in Tasks : stack' = [stack EXCEPT ![t] = <<Run(f)>>]
    <3>1. CASE sync_wait
      BY Zenon, <3>1, ThreadSets, RootAssumption DEF sync_wait
    <3>2. ASSUME NEW c \in AsyncCalls, Callback(c)
          PROVE  \E t \in Threads, f \in Tasks : stack' = [stack EXCEPT ![t] = <<Run(f)>>]
      <4>1. waiting[c] \in Tasks
        BY <3>2 DEF Callback, RpcDone, AsyncStep, IInv, Handles
      <4> QED BY Zenon, <3>2, <4>1, ThreadSets DEF Callback
    <3> QED BY <1>5, <3>1, <3>2
  <2>2. RefusedCalls \subseteq RefusedCalls'
    BY <1>2, <1>5 DEF RefusedCalls, Types, sync_wait, Callback, RpcDone, AsyncStep, calls
  <2>3. stack'[t] = <<Run(f)>> /\ \A u \in Threads : u # t => stack'[u] = stack[u]
    BY <1>2, <2>1 DEF Types
  <2>4. Len(stack'[t]) <= 1
    BY <2>3, SingleEntry
  <2> QED BY Zenon, <1>1, <2>2, <2>3, <2>4, DepthKept
<1>6. CASE UNCHANGED stack /\ RefusedCalls \subseteq RefusedCalls'
  <2>1. Len(stack'[Main]) <= Len(stack[Main])
    BY SMTT(20), <1>1, <1>6, ThreadSets
  <2> QED BY <1>1, <1>6, <2>1, ThreadSets, DepthKept
<1>7. \/ UNCHANGED vars \/ Acquire \/ SyncWaitReturns
      \/ \E t \in Threads, f, g \in Tasks : CallCoroutine(t, f, g) \/ DestroyTask(t, f, g)
      \/ \E c \in AsyncCalls : CallbackReturns(c)
      => UNCHANGED stack /\ RefusedCalls \subseteq RefusedCalls'
  BY Zenon, <1>2 DEF vars, calls, Acquire, SyncWaitReturns, CallCoroutine, DestroyTask,
              CallbackReturns, DeleteState, AsyncStep, RefusedCalls, Types
<1> QED BY <1>3, <1>4, <1>5, <1>6, <1>7 DEF Next, Step, Body

(* Awaiting and finishing tasks never deepens a stack: however long the    *)
(* chain of tasks, only refused calls do.                                  *)
THEOREM StacksStayBounded == Spec => []StackBounded
<1>1. Init => StackBounded
  <2> SUFFICES ASSUME Init PROVE StackBounded
    OBVIOUS
  <2>1. \A t \in Threads : Len(stack[t]) = 0
    BY DEF Init
  <2> QED BY <2>1, RefusedFinite DEF StackBounded, RefusedCalls
<1>2. IInv /\ IInv' /\ StackBounded /\ [Next]_vars => StackBounded'
  BY DepthStep
<1> QED BY <1>1, <1>2, IInvHolds, PTL DEF Spec

(* A task is executed by one thread at a time, on every schedule of the    *)
(* threads that resume it.                                                 *)
THEOREM TasksRunOnOneThread == Spec => []OneThreadPerTask
<1>1. IInv /\ StackBounded => OneThreadPerTask
  <2> SUFFICES ASSUME IInv, StackBounded, NEW f \in Tasks
               PROVE  Cardinality(Activations(f)) = IF frame[f] = "running" THEN 1 ELSE 0
    BY DEF OneThreadPerTask
  <2>1. \A t \in Threads : /\ Shape(stack[t]) /\ stack[t] \in Seq(Entries)
                           /\ Len(stack[t]) \in 0..(Cardinality(AsyncCalls) + 1)
    <3>1. \A t \in Threads : Len(stack[t]) <= 1 + Cardinality(RefusedCalls)
      BY Zenon DEF StackBounded, RefusedCalls
    <3>2. \A t \in Threads : Shape(stack[t]) /\ stack[t] \in Seq(Entries)
      BY DEF IInv, Stacks, Shape
    <3> QED BY <3>1, <3>2, RefusedFinite
  <2>2. ASSUME NEW t \in Threads, NEW i \in 1..Len(stack[t]), stack[t][i] = Run(f)
        PROVE  i = Len(stack[t]) /\ Innermost(t, Run(f))
    <3>1. stack[t][i].fn # "suspend"
      BY <2>2, EntryFacts
    <3>2. i = Len(stack[t]) /\ Len(stack[t]) \in Nat
      BY <2>1, <2>2, <3>1 DEF Shape
    <3> QED BY <2>1, <2>2, <3>2 DEF Innermost, Top
  <2>3. CASE frame[f] # "running"
    <3>1. Activations(f) = {}
      <4> SUFFICES ASSUME NEW p \in Activations(f) PROVE FALSE
        OBVIOUS
      <4>1. p[1] \in Threads /\ p[2] \in 1..Len(stack[p[1]]) /\ stack[p[1]][p[2]] = Run(f)
        BY <2>1 DEF Activations
      <4>2. Innermost(p[1], Run(f))
        BY <2>2, <4>1
      <4> QED BY <2>3, <4>1, <4>2 DEF IInv, Handles
    <3> QED BY <2>3, <3>1, FS_EmptySet
  <2>4. CASE frame[f] = "running"
    <3>1. PICK t \in Threads : Innermost(t, Run(f))
      BY <2>4 DEF IInv, Handles
    <3>2. Len(stack[t]) \in 1..(Cardinality(AsyncCalls) + 1) /\ stack[t][Len(stack[t])] = Run(f)
      BY <2>1, <3>1, RefusedFinite DEF Innermost, Top
    <3>3. PICK p : p = <<t, Len(stack[t])>>
      BY Zenon
    <3>4. p \in Activations(f)
      BY <2>1, <3>2, <3>3 DEF Activations
    <3>5. ASSUME NEW q \in Activations(f) PROVE q = p
      <4>1. PICK u \in Threads, i \in 1..(Cardinality(AsyncCalls) + 1) :
              q = <<u, i>> /\ i <= Len(stack[u]) /\ stack[u][i] = Run(f)
        BY DEF Activations
      <4>2. i \in 1..Len(stack[u])
        BY <2>1, <4>1
      <4>3. i = Len(stack[u]) /\ Innermost(u, Run(f))
        BY <2>2, <4>1, <4>2
      <4>4. Leads(stack[u]) /\ Leads(stack[t])
        BY <2>1, <3>1, <4>3, LeaderFacts
      <4>5. u = t
        BY <4>4 DEF IInv, Strand
      <4> QED BY <3>3, <4>1, <4>3, <4>5
    <3>6. Activations(f) = {p}
      BY <3>4, <3>5
    <3> QED BY Zenon, <2>4, <3>6, FS_Singleton
  <2> QED BY <2>3, <2>4
<1> QED BY <1>1, IInvHolds, StacksStayBounded, PTL
=============================================================================
