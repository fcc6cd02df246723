---------------------------- MODULE RateLimiter -----------------------------
(***************************************************************************)
(* tinvest::RateLimiter (src/include/tinvest/rate_limiter.hpp): the        *)
(* client-side limiter that blocking calls wait in and asynchronous calls  *)
(* are refused by.                                                         *)
(*                                                                         *)
(* Time.  The code compares Clock::now() - window_start with window_, so a *)
(* group only needs the age of its window, in ticks, and ages beyond       *)
(* Window are all alike.  A group that was never used has the clock's      *)
(* epoch as its window_start, whose age is "uptime".                       *)
(*                                                                         *)
(* Threads.  A step is one critical section of mu_.  A thread in acquire() *)
(* is "asleep" in cv_.wait_until() or "awake", about to lock mu_ again.    *)
(***************************************************************************)
EXTENDS Integers, Sequences, FiniteSetsExt, Functions

CONSTANTS
  Methods,      \* full names of RPCs
  Threads,      \* the threads that call the limiter
  Groups,       \* names for the Group objects that exist at one time
  Tariffs,      \* what GetUserTariff may answer: sequences of [limit, methods]
  MethodSets,   \* the lists of methods given to set_limit()
  Limits,       \* and the limits
  Window,       \* window_, in ticks
  NoGroup       \* a null pointer, a method without an entry

ASSUME WindowAssumption == Window \in Nat \ {0}
ASSUME NoGroupAssumption == NoGroup \notin Groups

(* A method name as a string: the slashes in front of it, and the rest. *)
Name == (0..1) \X Methods

ASSUME LimitsAssumption ==
  Limits \subseteq Int /\ \A ms \in MethodSets : ms \subseteq Name

ASSUME TariffAssumption ==
  \A tariff \in Tariffs : tariff \in Seq([limit : Int, methods : SUBSET Name])

VARIABLES
  by_method,    \* Name -> the group that limits it
  group,        \* the Group objects: limit, count, age of the window, and as
                \* a history the slots given away, by age
  status,       \* threads: "idle", "awake" or "asleep"
  local,        \* threads: the local "g" of acquire()
  asked,        \* threads: the parameter of acquire()
  uptime        \* the age of the clock's epoch, at most Window

limiter == <<by_method, group, status, local, asked, uptime>>

Ages == 0..(Window - 1)

-----------------------------------------------------------------------------
(* Helpers *)

(* normalize(): one leading '/' is removed. *)
normalize(name) == IF name[1] > 0 THEN <<name[1] - 1, name[2]>> ELSE name

NothingGiven == [a \in Ages |-> 0]

NewGroup(limit) ==
  [limit |-> limit, count |-> 0, age |-> uptime,
   recent |-> NothingGiven]

(* shared_ptr: a Group lives as long as the table or a thread refers to it. *)
Destroyed ==
  [limit |-> 0, count |-> 0, age |-> Window,
   recent |-> NothingGiven]

Referenced(table, locals) == Range(table) \cup Range(locals)

Living(gs, table, locals) ==
  [g \in Groups |-> IF g \in Referenced(table, locals) THEN gs[g] ELSE Destroyed]

Unused == Groups \ Referenced(by_method, local)

(* roll_window() *)
Expired(g) == g.age >= Window

roll_windowStart(g) ==                            \* mutation
  IF Expired(g) THEN [g EXCEPT !.count = 0] ELSE g

roll_windowCount(g) ==                            \* mutation
  IF Expired(g) THEN [g EXCEPT !.age = 0] ELSE g

roll_window(g) ==
  IF Expired(g) THEN [g EXCEPT !.count = 0, !.age = 0] ELSE g

(* cv_.notify_all() *)
NotifyAll(st) == [t \in Threads |-> IF st[t] = "asleep" THEN "awake" ELSE st[t]]

-----------------------------------------------------------------------------
(* Configuration *)

(* configure(): the table is rebuilt, with one new group per entry of the  *)
(* tariff; a method listed twice belongs to the later one.                 *)
configure(tariff) ==
  /\ \E new \in Injection(DOMAIN tariff, Unused) :
       LET Listing(n) == {i \in DOMAIN tariff :
                            n \in {normalize(m) : m \in tariff[i].methods}}
           Made(g) == \E i \in DOMAIN tariff : new[i] = g
           Entry(g) == tariff[CHOOSE i \in DOMAIN tariff : new[i] = g]
       IN  /\ by_method' = [n \in Name |-> IF Listing(n) = {} THEN NoGroup
                                           ELSE new[Max(Listing(n))]]
           /\ group' = Living([g \in Groups |-> IF Made(g)
                                                THEN NewGroup(Entry(g).limit)
                                                ELSE group[g]],
                              by_method', local)
  /\ status' = NotifyAll(status)
  /\ UNCHANGED <<local, asked, uptime>>

(* set_limit(): one new group for all listed methods. *)
set_limit(methods, per_minute) ==
  /\ \E g \in Unused :
       /\ by_method' = [n \in Name |->
                          IF n \in {normalize(m) : m \in methods} THEN g
                          ELSE by_method[n]]
       /\ group' = Living([group EXCEPT ![g] = NewGroup(per_minute)],
                          by_method', local)
  /\ status' = NotifyAll(status)
  /\ UNCHANGED <<local, asked, uptime>>

-----------------------------------------------------------------------------
(* Slots *)

(* The threads after group g was looked at: roll_window() notifies when it *)
(* rolls.                                                                  *)
AfterRoll(g) == IF Expired(group[g]) THEN NotifyAll(status) ELSE status

HasSlot(g) == group[g].limit <= 0 \/ roll_window(group[g]).count < group[g].limit

(* The groups after g gave a slot away: it is counted, unless the group is *)
(* unlimited.                                                              *)
Counted(g) == [roll_window(g) EXCEPT !.count = @ + 1, !.recent[0] = @ + 1]

SlotGiven(g) ==
  IF group[g].limit <= 0 THEN group ELSE [group EXCEPT ![g] = Counted(@)]

(* One iteration of the loop of acquire(), by thread t on group g. *)
AcquireLoop(t, g, name) ==
  /\ IF HasSlot(g)
     THEN /\ local' = [local EXCEPT ![t] = NoGroup]
          /\ asked' = [asked EXCEPT ![t] = NoGroup]
          /\ group' = Living(SlotGiven(g), by_method, local')
          /\ status' = [(IF group[g].limit <= 0 THEN status ELSE AfterRoll(g))
                          EXCEPT ![t] = "idle"]
     ELSE /\ local' = [local EXCEPT ![t] = g]
          /\ asked' = [asked EXCEPT ![t] = name]
          /\ status' = [status EXCEPT ![t] = "asleep"]
          /\ UNCHANGED group
  /\ UNCHANGED <<by_method, uptime>>

(* acquire(): look up the group, then the first iteration.  A method       *)
(* without a group passes through.                                         *)
acquire(t, name) ==
  /\ status[t] = "idle"
  /\ IF by_method[name] = NoGroup THEN UNCHANGED limiter
     ELSE AcquireLoop(t, by_method[name], name)

(* The next iterations, after wait_until() has returned. *)
AcquireAgain(t) == status[t] = "awake" /\ AcquireLoop(t, local[t], asked[t])

(* External: condition variables may wake a thread up for no reason. *)
SpuriousWakeup(t) ==
  /\ status[t] = "asleep"
  /\ status' = [status EXCEPT ![t] = "awake"]
  /\ UNCHANGED <<by_method, group, local, asked, uptime>>

(* try_acquire() that returns true, and one that returns false. *)
Granted(name) == IF by_method[name] = NoGroup THEN TRUE ELSE HasSlot(by_method[name])

TryAcquireGranted(t, name) ==
  /\ status[t] = "idle"
  /\ Granted(name)
  /\ IF by_method[name] = NoGroup THEN UNCHANGED <<group, status>>
     ELSE /\ group' = SlotGiven(by_method[name])
          /\ status' = IF group[by_method[name]].limit <= 0 THEN status
                       ELSE AfterRoll(by_method[name])
  /\ UNCHANGED <<by_method, local, asked, uptime>>

TryAcquireRefused(t, name) ==
  /\ status[t] = "idle"
  /\ ~Granted(name)
  /\ UNCHANGED limiter

try_acquire(t, name) == TryAcquireGranted(t, name) \/ TryAcquireRefused(t, name)

-----------------------------------------------------------------------------
(* Time passes, and wait_until() times out for the threads whose window    *)
(* has expired.                                                            *)
Older(age) == IF age < Window THEN age + 1 ELSE age

Ticked(g) ==
  [g EXCEPT !.age = Older(@),
            !.recent = [a \in Ages |-> IF a = 0 THEN 0 ELSE @[a - 1]]]

NeverTimesOut(t) == FALSE                         \* mutation

TimesOut(t) == status[t] = "asleep" /\ Expired(group'[local[t]])

Tick ==
  /\ group' = [g \in Groups |-> Ticked(group[g])]
  /\ uptime' = Older(uptime)
  /\ status' = [t \in Threads |-> IF TimesOut(t) THEN "awake" ELSE status[t]]
  /\ UNCHANGED <<by_method, local, asked>>

-----------------------------------------------------------------------------
(* The constructor: an empty table, at any time after the clock's epoch. *)
Init ==
  /\ by_method = [n \in Name |-> NoGroup]
  /\ uptime \in 0..Window
  /\ group = [g \in Groups |-> Destroyed]
  /\ status = [t \in Threads |-> "idle"]
  /\ local = [t \in Threads |-> NoGroup]
  /\ asked = [t \in Threads |-> NoGroup]

(* The callers use names without a slash (TINVEST_RPC). *)
Next ==
  \/ \E tariff \in Tariffs : configure(tariff)
  \/ \E ms \in MethodSets, n \in Limits : set_limit(ms, n)
  \/ \E t \in Threads, m \in Methods :
       acquire(t, <<0, m>>) \/ try_acquire(t, <<0, m>>)
  \/ \E t \in Threads : AcquireAgain(t) \/ SpuriousWakeup(t)
  \/ Tick

Spec == Init /\ [][Next]_limiter

-----------------------------------------------------------------------------
(* Safety *)

(* The slots given away in the last n ticks, as a function of n. *)
GivenWithin(recent) ==
  LET given[n \in 0..Window] ==
        IF n = 0 THEN 0 ELSE given[n - 1] + recent[n - 1]
  IN  given

SlotsGiven(g) == GivenWithin(group[g].recent)[Window]

(* However calls interleave with the rolling of the window (a fixed window *)
(* that starts with its first call), a limited group never gives away more *)
(* than twice its limit in any interval as long as a window, nor counts    *)
(* more than its limit.                                                    *)
QuotaKept ==
  \A g \in Groups :
    group[g].limit > 0 =>
      SlotsGiven(g) <= 2 * group[g].limit /\ group[g].count <= group[g].limit

(* An asynchronous call fails fast only if the limit has really been used  *)
(* up within the last window.                                              *)
RefusedOnlyWhenFull ==
  \A n \in Name :
    ~Granted(n) => SlotsGiven(by_method[n]) >= group[by_method[n]].limit

(* A thread never sleeps in acquire() while its group has a slot: every    *)
(* change that opens one wakes it up.                                      *)
NoLostWakeup ==
  \A t \in Threads : status[t] = "asleep" => ~HasSlot(local[t])

(* "Blocks until a slot is available": nor while the group that now limits *)
(* its method has one.                                                     *)
BlocksOnlyWhenFull ==
  \A t \in Threads : status[t] = "asleep" => ~Granted(asked[t])

-----------------------------------------------------------------------------
(* Another call takes a slot of the group that t waits for. *)
SlotTaken(t) ==
  local[t] # NoGroup /\ group'[local[t]].recent[0] > group[local[t]].recent[0]
=============================================================================
