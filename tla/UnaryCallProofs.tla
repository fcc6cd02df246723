-------------------------- MODULE UnaryCallProofs ---------------------------
(***************************************************************************)
(* The rate limiter, for every tariff, window length and set of threads,   *)
(* and the retry loop and the asynchronous calls of UnaryCall, for every   *)
(* RetryPolicy and every set of calls.                                     *)
(***************************************************************************)
EXTENDS UnaryCall, WellFoundedInduction, TLAPS

-----------------------------------------------------------------------------
(* Induction over an interval, by a least counterexample. *)
LEMMA LeastNatural ==
  ASSUME NEW T \in SUBSET Nat, T # {}
  PROVE  \E x \in T : \A y \in T : x <= y
<1>1. PICK x \in T : \A y \in T : ~(<<y, x>> \in OpToRel(<, Nat))
  BY Zenon, NatLessThanWellFounded, WFMin
<1>2. ASSUME NEW y \in T PROVE x <= y
  <2>1. <<y, x>> \in Nat \X Nat
    OBVIOUS
  <2>2. ~(<<y, x>>[1] < <<y, x>>[2])
    BY <1>1, <2>1, Zenon DEF OpToRel
  <2> QED BY <2>2
<1> QED BY <1>2

LEMMA IntervalInduction ==
  ASSUME NEW k \in Nat, NEW S, 0 \in S,
         \A n \in 0..(k - 1) : n \in S => n + 1 \in S
  PROVE  \A n \in 0..k : n \in S
<1> DEFINE Bad == (0..k) \ S
<1>1. ASSUME Bad # {} PROVE FALSE
  <2>1. PICK m \in Bad : \A n \in Bad : m <= n
    BY <1>1, LeastNatural, Bad \in SUBSET Nat
  <2>2. m \in 1..k /\ m \notin S
    OBVIOUS
  <2>3. m - 1 \in 0..(k - 1) /\ m - 1 \in S
    BY <2>1, <2>2
  <2> QED BY <2>2, <2>3
<1> QED BY <1>1

-----------------------------------------------------------------------------
(* Sums of the slots given away *)

LEMMA GivenWithinDef ==
  ASSUME NEW r \in [Ages -> Nat]
  PROVE  /\ GivenWithin(r)[0] = 0
         /\ \A n \in 0..(Window - 1) :
              GivenWithin(r)[n + 1] = GivenWithin(r)[n] + r[n]
<1> DEFINE IsSum(s, k) ==
             s = [n \in 0..k |-> IF n = 0 THEN 0 ELSE s[n - 1] + r[n - 1]]
           S == {k \in 0..Window : \E s : IsSum(s, k)}
<1>1. 0 \in S
  <2>1. IsSum([n \in 0..0 |-> 0], 0)
    OBVIOUS
  <2> HIDE DEF IsSum
  <2> QED BY <2>1, WindowAssumption
<1>2. ASSUME NEW k \in 0..(Window - 1), k \in S PROVE k + 1 \in S
  <2>1. PICK s : IsSum(s, k)
    BY <1>2
  <2> DEFINE u == [n \in 0..(k + 1) |-> IF n = k + 1 THEN s[k] + r[k] ELSE s[n]]
  <2>2. IsSum(u, k + 1)
    BY <2>1, WindowAssumption
  <2>3. k + 1 \in 0..Window
    BY WindowAssumption
  <2> HIDE DEF IsSum
  <2> QED BY <2>2, <2>3
<1>3. Window \in S
  <2> HIDE DEF S
  <2> QED BY <1>1, <1>2, IntervalInduction, WindowAssumption
<1>4. PICK s : IsSum(s, Window)
  BY <1>3
<1>5. IsSum(GivenWithin(r), Window)
  BY Zenon, <1>4 DEF GivenWithin
<1> QED BY <1>5, WindowAssumption

LEMMA GivenWithinType ==
  ASSUME NEW r \in [Ages -> Nat]
  PROVE  /\ \A n \in 0..Window : GivenWithin(r)[n] \in Nat
         /\ \A n \in 0..Window : GivenWithin(r)[n] <= GivenWithin(r)[Window]
<1> DEFINE G == GivenWithin(r)
           S == {n \in 0..Window : G[n] \in Nat}
           T == {n \in 0..Window : G[Window - n] <= G[Window]}
<1>0. /\ G[0] = 0
      /\ \A n \in 0..(Window - 1) : G[n + 1] = G[n] + r[n]
  BY GivenWithinDef
<1> HIDE DEF G
<1>1. \A n \in 0..Window : n \in S
  <2>1. 0 \in S
    BY <1>0, WindowAssumption
  <2>2. ASSUME NEW n \in 0..(Window - 1), n \in S PROVE n + 1 \in S
    <3>1. r[n] \in Nat
      BY DEF Ages
    <3> QED BY <1>0, <2>2, <3>1, WindowAssumption
  <2> HIDE DEF S
  <2> QED BY <2>1, <2>2, IntervalInduction, WindowAssumption
<1>2. \A n \in 0..Window : n \in T
  <2>1. 0 \in T
    BY <1>1, WindowAssumption
  <2>2. ASSUME NEW n \in 0..(Window - 1), n \in T PROVE n + 1 \in T
    <3>1. PICK m \in 0..(Window - 1) : m = Window - (n + 1)
      BY WindowAssumption
    <3>2. r[m] \in Nat /\ G[m + 1] = G[m] + r[m] /\ m + 1 = Window - n
      BY <1>0, <3>1, WindowAssumption DEF Ages
    <3>3. G[m] \in Nat /\ G[m + 1] \in Nat /\ G[Window] \in Nat
      BY <1>1, <3>1, WindowAssumption
    <3> QED BY <2>2, <3>1, <3>2, <3>3, WindowAssumption
  <2> HIDE DEF T
  <2> QED BY <2>1, <2>2, IntervalInduction, WindowAssumption
<1>3. ASSUME NEW n \in 0..Window PROVE G[n] <= G[Window]
  <2>1. Window - n \in 0..Window /\ Window - (Window - n) = n
    BY WindowAssumption
  <2> QED BY <1>2, <2>1
<1> QED BY <1>1, <1>3 DEF G

LEMMA NothingGivenSum ==
  \A n \in 0..Window : GivenWithin(NothingGiven)[n] = 0
<1> DEFINE G == GivenWithin(NothingGiven)
           S == {n \in 0..Window : G[n] = 0}
<1>1. NothingGiven \in [Ages -> Nat] /\ \A n \in 0..(Window - 1) : NothingGiven[n] = 0
  BY DEF NothingGiven, Ages
<1>2. /\ G[0] = 0
      /\ \A n \in 0..(Window - 1) : G[n + 1] = G[n] + NothingGiven[n]
  BY <1>1, GivenWithinDef
<1> HIDE DEF G
<1>3. 0 \in S
  BY <1>2, WindowAssumption
<1>4. ASSUME NEW n \in 0..(Window - 1), n \in S PROVE n + 1 \in S
  BY <1>1, <1>2, <1>4, WindowAssumption
<1>5. \A n \in 0..Window : n \in S
  <2> HIDE DEF S
  <2> QED BY <1>3, <1>4, IntervalInduction, WindowAssumption
<1> QED BY <1>5 DEF G

(* One more slot in the present tick. *)
LEMMA SlotSum ==
  ASSUME NEW r \in [Ages -> Nat], NEW s \in [Ages -> Nat],
         s = [r EXCEPT ![0] = @ + 1]
  PROVE  \A n \in 1..Window : GivenWithin(s)[n] = GivenWithin(r)[n] + 1
<1> DEFINE G == GivenWithin(r)
           H == GivenWithin(s)
           S == {n \in 0..(Window - 1) : H[n + 1] = G[n + 1] + 1}
<1>1. /\ G[0] = 0 /\ \A n \in 0..(Window - 1) : G[n + 1] = G[n] + r[n]
      /\ H[0] = 0 /\ \A n \in 0..(Window - 1) : H[n + 1] = H[n] + s[n]
  BY Zenon, GivenWithinDef
<1>2. \A n \in 0..Window : G[n] \in Nat /\ H[n] \in Nat
  BY Zenon, GivenWithinType
<1> HIDE DEF G, H
<1>3. s[0] = r[0] + 1 /\ r[0] \in Nat
      /\ \A n \in 1..(Window - 1) : s[n] = r[n] /\ r[n] \in Nat
  BY WindowAssumption DEF Ages
<1>4. 0 \in S
  <2>1. 0 \in 0..(Window - 1)
    BY WindowAssumption
  <2> QED BY <1>1, <1>3, <2>1
<1>5. ASSUME NEW n \in 0..((Window - 1) - 1), n \in S PROVE n + 1 \in S
  <2>1. n + 1 \in 1..(Window - 1) /\ n + 1 \in 0..(Window - 1)
    BY WindowAssumption
  <2>2. H[(n + 1) + 1] = H[n + 1] + r[n + 1] /\ G[(n + 1) + 1] = G[n + 1] + r[n + 1]
    BY <1>1, <1>3, <2>1
  <2>3. G[n + 1] \in Nat /\ r[n + 1] \in Nat /\ H[n + 1] = G[n + 1] + 1
    BY <1>2, <1>3, <1>5, <2>1, WindowAssumption
  <2> QED BY <2>1, <2>2, <2>3
<1>6. \A n \in 0..(Window - 1) : n \in S
  <2> HIDE DEF S
  <2>1. Window - 1 \in Nat
    BY WindowAssumption
  <2> QED BY <1>4, <1>5, <2>1, IntervalInduction
<1>7. ASSUME NEW n \in 1..Window PROVE H[n] = G[n] + 1
  <2>1. n - 1 \in 0..(Window - 1) /\ (n - 1) + 1 = n
    BY WindowAssumption
  <2> QED BY <1>6, <2>1
<1> QED BY Zenon, <1>7 DEF G, H

(* A tick makes every slot one tick older. *)
LEMMA TickSum ==
  ASSUME NEW r \in [Ages -> Nat], NEW s \in [Ages -> Nat],
         s = [a \in Ages |-> IF a = 0 THEN 0 ELSE r[a - 1]]
  PROVE  \A n \in 0..(Window - 1) : GivenWithin(s)[n + 1] = GivenWithin(r)[n]
<1> DEFINE G == GivenWithin(r)
           H == GivenWithin(s)
           S == {n \in 0..(Window - 1) : H[n + 1] = G[n]}
<1>1. /\ G[0] = 0 /\ \A n \in 0..(Window - 1) : G[n + 1] = G[n] + r[n]
      /\ H[0] = 0 /\ \A n \in 0..(Window - 1) : H[n + 1] = H[n] + s[n]
  BY GivenWithinDef
<1> HIDE DEF G, H
<1>2. s[0] = 0 /\ \A n \in 0..((Window - 1) - 1) : s[n + 1] = r[n]
  BY WindowAssumption DEF Ages
<1>3. 0 \in S
  <2>1. 0 \in 0..(Window - 1)
    BY WindowAssumption
  <2> QED BY <1>1, <1>2, <2>1
<1>4. ASSUME NEW n \in 0..((Window - 1) - 1), n \in S PROVE n + 1 \in S
  <2>1. n \in 0..(Window - 1) /\ n + 1 \in 0..(Window - 1)
    BY WindowAssumption
  <2>2. H[(n + 1) + 1] = H[n + 1] + r[n] /\ G[n + 1] = G[n] + r[n]
    BY <1>1, <1>2, <2>1
  <2> QED BY <1>4, <2>1, <2>2
<1>5. \A n \in 0..(Window - 1) : n \in S
  <2> HIDE DEF S
  <2>1. Window - 1 \in Nat
    BY WindowAssumption
  <2> QED BY <1>3, <1>4, <2>1, IntervalInduction
<1> QED BY <1>5 DEF G, H

-----------------------------------------------------------------------------
(* The inductive invariant.  A limited group has counted what it gave away *)
(* since its window started, and what it gave before that, but less than a *)
(* window ago, all came from the window before: at most one more limit.    *)
GroupRecords == [limit : Int, count : Nat, age : 0..Window, recent : [Ages -> Nat]]

GroupInv(r) ==
  /\ r \in GroupRecords
  /\ r.age = Window => r.recent[0] = 0
  /\ r.limit > 0 =>
       /\ r.count <= r.limit
       /\ r.age < Window => GivenWithin(r.recent)[r.age + 1] = r.count
       /\ GivenWithin(r.recent)[Window] <=
            r.limit + (IF r.age < Window THEN r.count ELSE 0)

LimiterTypes ==
  /\ by_method \in [Name -> Groups \cup {NoGroup}]
  /\ local \in [Threads -> Groups \cup {NoGroup}]
  /\ status \in [Threads -> {"idle", "awake", "asleep"}]
  /\ uptime \in 0..Window
  /\ DOMAIN group = Groups

(* A sleeper's group is full, and its window has not expired. *)
Full(r) == r.limit > 0 /\ r.age < Window /\ r.count >= r.limit

LimiterInv ==
  /\ LimiterTypes
  /\ \A g \in Groups : GroupInv(group[g])
  /\ \A t \in Threads : status[t] # "idle" => local[t] \in Groups
  /\ \A t \in Threads : status[t] = "asleep" => Full(group[local[t]])

-----------------------------------------------------------------------------
(* One group *)

LEMMA EmptyGroup ==
  ASSUME NEW l \in Int, NEW u \in 0..Window
  PROVE  GroupInv([limit |-> l, count |-> 0, age |-> u, recent |-> NothingGiven])
<1> DEFINE r == [limit |-> l, count |-> 0, age |-> u, recent |-> NothingGiven]
<1>1. NothingGiven \in [Ages -> Nat] /\ NothingGiven[0] = 0
  BY WindowAssumption DEF NothingGiven, Ages
<1>2. r \in GroupRecords /\ r.recent[0] = 0
  BY <1>1 DEF GroupRecords
<1>3. r.age < Window => GivenWithin(r.recent)[r.age + 1] = 0
  BY NothingGivenSum, WindowAssumption
<1>4. GivenWithin(r.recent)[Window] = 0
  BY NothingGivenSum, WindowAssumption
<1>5. r.limit = l /\ r.count = 0 /\ r.age = u
  OBVIOUS
<1> HIDE DEF r
<1>6. GroupInv(r)
  BY <1>2, <1>3, <1>4, <1>5 DEF GroupInv
<1> QED BY <1>6 DEF r

LEMMA NewGroupInv ==
  ASSUME NEW l \in Int, uptime \in 0..Window
  PROVE  GroupInv(NewGroup(l))
BY EmptyGroup DEF NewGroup

LEMMA DestroyedInv == GroupInv(Destroyed)
BY EmptyGroup, WindowAssumption DEF Destroyed

(* A limited group with a slot gives it away. *)
LEMMA CountedInv ==
  ASSUME NEW r, GroupInv(r), r.limit > 0, roll_window(r).count < r.limit
  PROVE  /\ GroupInv(Counted(r))
         /\ ~Expired(r) /\ Full(r) => Full(Counted(r))
<1>1. r \in GroupRecords /\ r.recent \in [Ages -> Nat] /\ r.limit \in Int
      /\ r.count \in Nat /\ r.age \in 0..Window
  BY DEF GroupInv, GroupRecords
<1>2. PICK c, a : /\ c = (IF Expired(r) THEN 0 ELSE r.count)
                  /\ a = (IF Expired(r) THEN 0 ELSE r.age)
  OBVIOUS
<1>3. c \in Nat /\ c < r.limit /\ a \in 0..Window /\ a < Window
  BY <1>1, <1>2, WindowAssumption DEF roll_window, Expired, GroupRecords
<1>4. PICK s : s = [r.recent EXCEPT ![0] = @ + 1]
  BY Zenon
<1>5. s \in [Ages -> Nat] /\ s[0] = r.recent[0] + 1
  BY <1>1, <1>4, WindowAssumption DEF Ages
<1>6. PICK v : v = [limit |-> r.limit, count |-> c + 1, age |-> a, recent |-> s]
  BY Zenon
<1>7. Counted(r) = v
  <2>1. PICK q : q = roll_window(r)
    OBVIOUS
  <2>2. q = [limit |-> r.limit, count |-> c, age |-> a, recent |-> r.recent]
    BY Zenon, <1>1, <1>2, <2>1 DEF roll_window, GroupRecords
  <2>3. Counted(r) = [q EXCEPT !.count = c + 1, !.recent = s]
    BY <1>4, <2>1, <2>2 DEF Counted
  <2> QED BY Zenon, <1>6, <2>2, <2>3
<1>8. v \in GroupRecords /\ v.limit = r.limit /\ v.count = c + 1 /\ v.age = a
      /\ v.recent = s
  BY <1>1, <1>3, <1>5, <1>6 DEF GroupRecords
<1> DEFINE G == GivenWithin(r.recent)
           H == GivenWithin(s)
<1>9. /\ \A n \in 0..Window : G[n] \in Nat
      /\ \A n \in 1..Window : H[n] = G[n] + 1
  BY <1>1, <1>4, <1>5, GivenWithinType, SlotSum
<1>10. H[a + 1] = c + 1
  <2>1. CASE Expired(r)
    <3>1. r.recent[0] = 0
      BY <1>1, <2>1, WindowAssumption DEF Expired, GroupInv
    <3>2. G[0 + 1] = G[0] + r.recent[0] /\ G[0] = 0
      BY <1>1, GivenWithinDef, WindowAssumption
    <3>3. a + 1 = 1 /\ c = 0 /\ 1 \in 1..Window
      BY <1>2, <2>1, WindowAssumption
    <3> QED BY <1>9, <3>1, <3>2, <3>3
  <2>2. CASE ~Expired(r)
    <3>1. a = r.age /\ c = r.count /\ r.age < Window
      BY <1>1, <1>2, <2>2, WindowAssumption DEF Expired
    <3>2. G[a + 1] = c /\ a + 1 \in 1..Window
      BY <1>1, <3>1, WindowAssumption DEF GroupInv
    <3> QED BY <1>9, <3>2
  <2> QED BY <2>1, <2>2
<1>11. H[Window] <= r.limit + (c + 1)
  <2>1. H[Window] = G[Window] + 1 /\ G[Window] \in Nat
    BY <1>9, WindowAssumption
  <2>2. G[Window] <= r.limit + (IF r.age < Window THEN r.count ELSE 0)
    BY DEF GroupInv
  <2>3. c = (IF r.age < Window THEN r.count ELSE 0)
    BY <1>1, <1>2, WindowAssumption DEF Expired
  <2> QED BY <1>1, <1>3, <2>1, <2>2, <2>3
<1> HIDE DEF G, H
<1>12. GroupInv(v)
  BY <1>1, <1>3, <1>8, <1>10, <1>11, WindowAssumption DEF GroupInv, G, H
<1>13. ~Expired(r) /\ Full(r) => Full(v)
  BY <1>1, <1>2, <1>3, <1>8 DEF Full
<1> QED BY <1>7, <1>12, <1>13

(* The group after a tick. *)
LEMMA TickedInv ==
  ASSUME NEW r, GroupInv(r)
  PROVE  /\ GroupInv(Ticked(r))
         /\ Full(r) /\ ~Expired(Ticked(r)) => Full(Ticked(r))
<1>1. r \in GroupRecords /\ r.recent \in [Ages -> Nat] /\ r.limit \in Int
      /\ r.count \in Nat /\ r.age \in 0..Window
  BY DEF GroupInv, GroupRecords
<1>2. PICK s : s = [a \in Ages |-> IF a = 0 THEN 0 ELSE r.recent[a - 1]]
  BY Zenon
<1>3. s \in [Ages -> Nat] /\ s[0] = 0
  BY <1>1, <1>2, WindowAssumption DEF Ages
<1>4. PICK b : b = Older(r.age)
  OBVIOUS
<1>5. b \in 0..Window /\ b >= r.age /\ (r.age < Window => b = r.age + 1)
      /\ (r.age = Window => b = Window)
  BY <1>1, <1>4, WindowAssumption DEF Older
<1>6. PICK v : v = [limit |-> r.limit, count |-> r.count, age |-> b, recent |-> s]
  BY Zenon
<1>7. Ticked(r) = v
  <2>1. Ticked(r) = [r EXCEPT !.age = b, !.recent = s]
    BY <1>1, <1>2, <1>4, Zenon DEF Ticked, GroupRecords
  <2> QED BY Zenon, <1>1, <1>6, <2>1 DEF GroupRecords
<1>8. v \in GroupRecords /\ v.limit = r.limit /\ v.count = r.count /\ v.age = b
      /\ v.recent = s
  BY <1>1, <1>3, <1>5, <1>6 DEF GroupRecords
<1> DEFINE G == GivenWithin(r.recent)
           H == GivenWithin(s)
<1>9. /\ \A n \in 0..Window : G[n] \in Nat /\ G[n] <= G[Window]
      /\ \A n \in 0..(Window - 1) : H[n + 1] = G[n]
  BY <1>1, <1>2, <1>3, GivenWithinType, TickSum
<1>10. H[Window] = G[Window - 1] /\ H[Window] <= G[Window] /\ G[Window] \in Nat
       /\ H[Window] \in Nat
  <2>1. Window - 1 \in 0..(Window - 1) /\ (Window - 1) + 1 = Window
        /\ Window - 1 \in 0..Window /\ Window \in 0..Window
    BY WindowAssumption
  <2> QED BY <1>9, <2>1
<1> HIDE DEF G, H
<1>11. ASSUME r.limit > 0, b < Window PROVE H[b + 1] = r.count
  <2>1. b = r.age + 1 /\ r.age < Window /\ b \in 0..(Window - 1)
    BY <1>1, <1>5, <1>11, WindowAssumption
  <2>2. G[b] = r.count
    BY <1>11, <2>1 DEF GroupInv, G
  <2> QED BY <1>9, <2>1, <2>2
<1>12. ASSUME r.limit > 0
       PROVE  H[Window] <= r.limit + (IF b < Window THEN r.count ELSE 0)
  <2>1. G[Window] <= r.limit + (IF r.age < Window THEN r.count ELSE 0)
        /\ r.count <= r.limit
    BY <1>12 DEF GroupInv, G
  <2>2. CASE b < Window
    BY <1>1, <1>5, <1>10, <2>1, <2>2, WindowAssumption
  <2>3. CASE b = Window /\ r.age = Window
    BY <1>1, <1>10, <2>1, <2>3, WindowAssumption
  <2>4. CASE b = Window /\ r.age < Window
    <3>1. r.age + 1 = Window
      BY <1>5, <2>4
    <3>2. G[Window] = r.count
      BY <1>12, <2>4, <3>1 DEF GroupInv, G
    <3> QED BY <1>1, <1>10, <2>1, <2>4, <3>2, WindowAssumption
  <2> QED BY <1>1, <1>5, <2>2, <2>3, <2>4, WindowAssumption
<1>13. GroupInv(v)
  BY <1>3, <1>8, <1>11, <1>12 DEF GroupInv, H
<1>14. Full(r) /\ ~Expired(v) => Full(v)
  BY <1>5, <1>8, WindowAssumption DEF Full, Expired
<1> QED BY <1>7, <1>13, <1>14

-----------------------------------------------------------------------------
(* The steps *)

(* Groups that nobody refers to are destroyed; the others stay. *)
LEMMA LivingGroups ==
  ASSUME NEW gs, NEW table, NEW locals, \A g \in Groups : GroupInv(gs[g])
  PROVE  /\ DOMAIN Living(gs, table, locals) = Groups
         /\ \A g \in Groups : GroupInv(Living(gs, table, locals)[g])
         /\ \A t \in DOMAIN locals : locals[t] \in Groups =>
              Living(gs, table, locals)[locals[t]] = gs[locals[t]]
BY DestroyedInv, Zenon DEF Living, Referenced, Range

LEMMA WokenThreads ==
  ASSUME LimiterInv
  PROVE  /\ NotifyAll(status) \in [Threads -> {"idle", "awake", "asleep"}]
         /\ \A t \in Threads :
              /\ NotifyAll(status)[t] # "asleep"
              /\ NotifyAll(status)[t] = "idle" <=> status[t] = "idle"
BY DEF LimiterInv, LimiterTypes, NotifyAll

(* The table is replaced, every sleeper is woken up, and the groups are    *)
(* old ones, new ones or destroyed.                                        *)
LEMMA TableStep ==
  ASSUME LimiterInv, NEW gs, \A g \in Groups : GroupInv(gs[g]),
         by_method' \in [Name -> Groups \cup {NoGroup}],
         group' = Living(gs, by_method', local),
         status' = NotifyAll(status), UNCHANGED <<local, asked, uptime>>
  PROVE  LimiterInv'
<1>1. DOMAIN group' = Groups /\ \A g \in Groups : GroupInv(group'[g])
  BY LivingGroups
<1>2. \A g \in Groups : GroupInv(group[g])'
  BY <1>1 DEF GroupInv
<1>3. LimiterTypes'
  BY <1>1, WokenThreads DEF LimiterInv, LimiterTypes
<1>4. ASSUME NEW t \in Threads
      PROVE  status'[t] # "asleep" /\ (status'[t] # "idle" => local'[t] \in Groups)
  <2>1. local' = local
    OBVIOUS
  <2>2. status'[t] # "asleep" /\ (status'[t] = "idle" <=> status[t] = "idle")
    BY WokenThreads
  <2>3. status[t] # "idle" => local[t] \in Groups
    BY DEF LimiterInv
  <2> QED BY <2>1, <2>2, <2>3
<1> QED BY <1>2, <1>3, <1>4 DEF LimiterInv

LEMMA NormalizedName ==
  ASSUME NEW n \in Name PROVE normalize(n) \in Name
BY DEF Name, normalize

LEMMA MaxOfInterval ==
  ASSUME NEW k \in Nat, NEW L \in SUBSET (1..k), L # {}
  PROVE  Max(L) \in L
<1> DEFINE T == {z \in Nat : k - z \in L}
<1>1. \A j \in L : k - j \in T /\ k - (k - j) = j
  OBVIOUS
<1>2. PICK y \in T : \A z \in T : y <= z
  BY Zenon, <1>1, LeastNatural
<1>3. k - y \in L /\ y \in Nat
  OBVIOUS
<1>4. ASSUME NEW j \in L PROVE k - y >= j
  <2>1. y <= k - j
    BY Zenon, <1>1, <1>2
  <2> QED BY <1>3, <2>1
<1> QED BY Zenon, <1>3, <1>4 DEF Max

LEMMA TariffEntry ==
  ASSUME NEW tariff \in Tariffs, NEW i \in DOMAIN tariff
  PROVE  tariff[i].limit \in Int
<1>1. PICK S : S = [limit : Int, methods : SUBSET Name]
  BY Zenon
<1>2. tariff \in Seq(S)
  BY Zenon, <1>1, TariffAssumption
<1>3. tariff[i] \in S
  BY <1>2
<1> QED BY <1>1, <1>3

LEMMA ConfigureStep ==
  ASSUME LimiterInv, NEW tariff \in Tariffs, configure(tariff)
  PROVE  LimiterInv'
<1> DEFINE Listing(n) == {i \in DOMAIN tariff :
                            n \in {normalize(m) : m \in tariff[i].methods}}
<1>1. PICK new \in Injection(DOMAIN tariff, Unused) :
        LET Made(g) == \E i \in DOMAIN tariff : new[i] = g
            Entry(g) == tariff[CHOOSE i \in DOMAIN tariff : new[i] = g]
        IN  /\ by_method' = [n \in Name |-> IF Listing(n) = {} THEN NoGroup
                                            ELSE new[Max(Listing(n))]]
            /\ group' = Living([g \in Groups |-> IF Made(g)
                                                 THEN NewGroup(Entry(g).limit)
                                                 ELSE group[g]],
                               by_method', local)
  BY Zenon DEF configure
<1> DEFINE Made(g) == \E i \in DOMAIN tariff : new[i] = g
           Entry(g) == tariff[CHOOSE i \in DOMAIN tariff : new[i] = g]
           gs == [g \in Groups |-> IF Made(g) THEN NewGroup(Entry(g).limit)
                                  ELSE group[g]]
<1>2. new \in [DOMAIN tariff -> Groups]
  BY DEF Injection, Unused
<1>3. tariff \in Seq([limit : Int, methods : SUBSET Name])
  BY Zenon, TariffAssumption
<1>4. ASSUME NEW n \in Name PROVE by_method'[n] \in Groups \cup {NoGroup}
  <2>1. CASE Listing(n) # {}
    <3>1. Listing(n) \in SUBSET (1..Len(tariff)) /\ Len(tariff) \in Nat
      BY <1>3
    <3>2. Max(Listing(n)) \in Listing(n)
      <4> HIDE DEF Listing
      <4> QED BY Zenon, <2>1, <3>1, MaxOfInterval
    <3> QED BY <1>1, <1>2, <2>1, <3>2
  <2> QED BY <1>1, <2>1
<1>5. by_method' \in [Name -> Groups \cup {NoGroup}]
  <2>1. by_method' = [n \in Name |-> by_method'[n]]
    BY <1>1
  <2> QED BY <1>4, <2>1
<1>6. ASSUME NEW g \in Groups PROVE GroupInv(gs[g])
  <2>1. CASE Made(g)
    <3>1. Entry(g).limit \in Int
      <4>1. PICK i \in DOMAIN tariff : Entry(g) = tariff[i]
        BY Zenon, <2>1
      <4> QED BY <4>1, TariffEntry, Zenon
    <3>2. gs[g] = NewGroup(Entry(g).limit)
      BY <2>1
    <3>3. GroupInv(NewGroup(Entry(g).limit))
      BY <3>1, NewGroupInv DEF LimiterInv, LimiterTypes
    <3> QED BY <3>2, <3>3
  <2> QED BY <2>1 DEF LimiterInv
<1>7. group' = Living(gs, by_method', local)
  BY <1>1, Zenon
<1>8. status' = NotifyAll(status) /\ UNCHANGED <<local, asked, uptime>>
  BY DEF configure
<1> HIDE DEF gs
<1> QED BY <1>5, <1>6, <1>7, <1>8, TableStep

LEMMA SetLimitStep ==
  ASSUME LimiterInv, NEW ms \in MethodSets, NEW l \in Limits, set_limit(ms, l)
  PROVE  LimiterInv'
<1>1. PICK g \in Unused :
        /\ by_method' = [n \in Name |->
                           IF n \in {normalize(m) : m \in ms} THEN g ELSE by_method[n]]
        /\ group' = Living([group EXCEPT ![g] = NewGroup(l)], by_method', local)
  BY Zenon DEF set_limit
<1>2. g \in Groups /\ l \in Int
  BY LimitsAssumption DEF Unused
<1>3. by_method' \in [Name -> Groups \cup {NoGroup}]
  BY <1>1, <1>2 DEF LimiterInv, LimiterTypes
<1>4. \A h \in Groups : GroupInv([group EXCEPT ![g] = NewGroup(l)][h])
  BY <1>2, NewGroupInv DEF LimiterInv, LimiterTypes
<1>5. status' = NotifyAll(status) /\ UNCHANGED <<local, asked, uptime>>
  BY DEF set_limit
<1> QED BY <1>1, <1>3, <1>4, <1>5, TableStep, Zenon

(* A slot of g is given away: who still sleeps afterwards sleeps for a     *)
(* full group, because roll_window() wakes the others.                     *)
StatusAfter(g) == IF group[g].limit <= 0 THEN status ELSE AfterRoll(g)

LEMMA SlotStep ==
  ASSUME LimiterInv, NEW g \in Groups, HasSlot(g)
  PROVE  /\ DOMAIN SlotGiven(g) = Groups
         /\ \A h \in Groups : GroupInv(SlotGiven(g)[h])
         /\ StatusAfter(g) \in [Threads -> {"idle", "awake", "asleep"}]
         /\ \A t \in Threads :
              /\ StatusAfter(g)[t] = "idle" <=> status[t] = "idle"
              /\ StatusAfter(g)[t] = "asleep" => Full(SlotGiven(g)[local[t]])
<1>1. /\ DOMAIN group = Groups
      /\ status \in [Threads -> {"idle", "awake", "asleep"}]
      /\ \A h \in Groups : GroupInv(group[h])
      /\ \A t \in Threads : status[t] # "idle" => local[t] \in Groups
      /\ \A t \in Threads : status[t] = "asleep" => Full(group[local[t]])
  BY DEF LimiterInv, LimiterTypes
<1>2. CASE group[g].limit <= 0
  <2>1. SlotGiven(g) = group /\ StatusAfter(g) = status
    BY <1>2 DEF SlotGiven, StatusAfter
  <2> QED BY <1>1, <2>1
<1>3. CASE ~(group[g].limit <= 0)
  <2>1. PICK r : r = group[g]
    OBVIOUS
  <2>2. GroupInv(r) /\ r.limit > 0 /\ roll_window(r).count < r.limit
    <3>1. GroupInv(r) /\ roll_window(r).count < r.limit /\ ~(r.limit <= 0)
      BY <1>1, <1>3, <2>1 DEF HasSlot
    <3>2. r.limit \in Int
      BY <3>1 DEF GroupInv, GroupRecords
    <3> QED BY <3>1, <3>2
  <2>3. GroupInv(Counted(r)) /\ (~Expired(r) /\ Full(r) => Full(Counted(r)))
    BY <2>2, CountedInv
  <2>4. SlotGiven(g) = [group EXCEPT ![g] = Counted(r)]
    BY <1>3, <2>1 DEF SlotGiven
  <2>5. DOMAIN SlotGiven(g) = Groups /\ \A h \in Groups : GroupInv(SlotGiven(g)[h])
    BY <1>1, <2>3, <2>4
  <2>6. StatusAfter(g) = IF Expired(r) THEN NotifyAll(status) ELSE status
    BY <1>3, <2>1 DEF StatusAfter, AfterRoll
  <2>7. CASE Expired(r)
    BY <1>1, <2>5, <2>6, <2>7, WokenThreads
  <2>8. CASE ~Expired(r)
    <3>1. StatusAfter(g) = status
      BY <2>6, <2>8
    <3>2. ASSUME NEW t \in Threads, status[t] = "asleep"
          PROVE  Full(SlotGiven(g)[local[t]])
      <4>1. local[t] \in Groups /\ Full(group[local[t]])
        BY <1>1, <3>2
      <4>2. CASE local[t] = g
        BY <1>1, <2>1, <2>3, <2>4, <2>8, <4>1, <4>2
      <4>3. CASE local[t] # g
        BY <1>1, <2>4, <4>1, <4>3
      <4> QED BY <4>2, <4>3
    <3> QED BY <1>1, <2>5, <3>1, <3>2
  <2> QED BY <2>7, <2>8
<1> QED BY <1>2, <1>3

LEMMA NoSlot ==
  ASSUME LimiterInv, NEW g \in Groups, ~HasSlot(g)
  PROVE  Full(group[g])
<1>1. PICK r : r = group[g]
  OBVIOUS
<1>2. r \in GroupRecords
  BY <1>1 DEF LimiterInv, GroupInv
<1>3. ~(r.limit <= 0) /\ ~(roll_window(r).count < r.limit)
  BY <1>1 DEF HasSlot
<1>4. Full(r)
  BY <1>2, <1>3, WindowAssumption DEF Full, roll_window, Expired, GroupRecords
<1> QED BY <1>1, <1>4

LEMMA AcquireLoopStep ==
  ASSUME LimiterInv, NEW t \in Threads, NEW g \in Groups, NEW name,
         AcquireLoop(t, g, name)
  PROVE  LimiterInv'
<1>1. LimiterTypes /\ by_method' = by_method /\ uptime' = uptime
  BY DEF LimiterInv, AcquireLoop
<1>2. CASE HasSlot(g)
  <2>1. /\ local' = [local EXCEPT ![t] = NoGroup]
        /\ group' = Living(SlotGiven(g), by_method, local')
        /\ status' = [StatusAfter(g) EXCEPT ![t] = "idle"]
    BY <1>2 DEF AcquireLoop, StatusAfter
  <2>2. local' \in [Threads -> Groups \cup {NoGroup}]
        /\ status' \in [Threads -> {"idle", "awake", "asleep"}]
    BY <1>1, <1>2, <2>1, SlotStep DEF LimiterTypes
  <2>3. /\ DOMAIN group' = Groups
        /\ \A h \in Groups : GroupInv(group'[h])
        /\ \A u \in Threads : local'[u] \in Groups =>
                               group'[local'[u]] = SlotGiven(g)[local'[u]]
    <3>1. PICK gs, ls : gs = SlotGiven(g) /\ ls = local'
      OBVIOUS
    <3>2. DOMAIN ls = Threads /\ \A h \in Groups : GroupInv(gs[h])
      BY <1>2, <2>2, <3>1, SlotStep
    <3>3. group' = Living(gs, by_method, ls)
      BY <2>1, <3>1
    <3>4. /\ DOMAIN group' = Groups
          /\ \A h \in Groups : GroupInv(group'[h])
          /\ \A u \in Threads : ls[u] \in Groups => group'[ls[u]] = gs[ls[u]]
      BY <3>2, <3>3, LivingGroups
    <3> QED BY <3>1, <3>4
  <2>4. \A h \in Groups : GroupInv(group[h])'
    BY <2>3 DEF GroupInv
  <2>5. ASSUME NEW u \in Threads, status'[u] # "idle"
        PROVE  /\ local'[u] \in Groups
               /\ status'[u] = "asleep" => Full(group'[local'[u]])
    <3>1. u # t /\ local'[u] = local[u] /\ status'[u] = StatusAfter(g)[u]
      BY <1>1, <1>2, <2>1, <2>5, SlotStep DEF LimiterTypes
    <3>2. status[u] # "idle"
      BY <1>2, <2>5, <3>1, SlotStep
    <3>3. local'[u] \in Groups
      BY <3>1, <3>2 DEF LimiterInv
    <3> QED BY <1>2, <2>3, <3>1, <3>3, SlotStep
  <2>6. ASSUME NEW u \in Threads, status'[u] = "asleep"
        PROVE  Full(group[local[u]])'
    BY <2>5, <2>6 DEF Full
  <2>7. LimiterTypes'
    BY <1>1, <2>2, <2>3 DEF LimiterTypes
  <2> QED BY <2>4, <2>5, <2>6, <2>7 DEF LimiterInv
<1>3. CASE ~HasSlot(g)
  <2>1. /\ local' = [local EXCEPT ![t] = g]
        /\ status' = [status EXCEPT ![t] = "asleep"]
        /\ group' = group
    BY <1>3 DEF AcquireLoop
  <2>2. LimiterTypes'
    BY <1>1, <2>1 DEF LimiterTypes
  <2>3. Full(group[g])
    BY <1>3, NoSlot
  <2>4. ASSUME NEW u \in Threads, status'[u] # "idle"
        PROVE  /\ local'[u] \in Groups
               /\ status'[u] = "asleep" => Full(group[local'[u]])
    <3>1. CASE u = t
      BY <1>1, <2>1, <2>3, <3>1 DEF LimiterTypes
    <3>2. CASE u # t
      BY <1>1, <2>1, <2>4, <3>2 DEF LimiterInv, LimiterTypes
    <3> QED BY <3>1, <3>2
  <2>5. ASSUME NEW u \in Threads, status'[u] = "asleep"
        PROVE  Full(group[local[u]])'
    BY <2>1, <2>4, <2>5 DEF Full
  <2>6. \A h \in Groups : GroupInv(group[h])'
    BY <2>1 DEF LimiterInv, GroupInv
  <2> QED BY <2>2, <2>4, <2>5, <2>6 DEF LimiterInv
<1> QED BY <1>2, <1>3

LEMMA AcquireKeeps ==
  ASSUME LimiterInv, NEW t \in Threads,
         \/ \E m \in Methods : acquire(t, <<0, m>>)
         \/ AcquireAgain(t)
  PROVE  LimiterInv' \/ UNCHANGED limiter
<1>1. ASSUME NEW m \in Methods, acquire(t, <<0, m>>), ~UNCHANGED limiter
      PROVE  LimiterInv'
  <2>1. <<0, m>> \in Name
    BY DEF Name
  <2>2. PICK g : g = by_method[<<0, m>>]
    OBVIOUS
  <2>3. g \in Groups \cup {NoGroup}
    BY <2>1, <2>2 DEF LimiterInv, LimiterTypes
  <2>4. g # NoGroup /\ AcquireLoop(t, g, <<0, m>>)
    BY <1>1, <2>2 DEF acquire
  <2>5. g \in Groups
    BY <2>3, <2>4
  <2> QED BY <2>4, <2>5, AcquireLoopStep
<1>2. ASSUME AcquireAgain(t) PROVE LimiterInv'
  <2>1. local[t] \in Groups /\ AcquireLoop(t, local[t], asked[t])
    BY <1>2 DEF AcquireAgain, LimiterInv
  <2> QED BY <2>1, AcquireLoopStep
<1> QED BY Zenon, <1>1, <1>2

LEMMA TryAcquireKeeps ==
  ASSUME LimiterInv, NEW t \in Threads, NEW m \in Methods,
         TryAcquireGranted(t, <<0, m>>)
  PROVE  LimiterInv' \/ UNCHANGED limiter
<1>1. CASE by_method[<<0, m>>] = NoGroup
  BY <1>1 DEF TryAcquireGranted, limiter
<1>2. CASE by_method[<<0, m>>] # NoGroup
  <2>1. PICK g : g = by_method[<<0, m>>]
    OBVIOUS
  <2>2. g \in Groups
    <3>1. <<0, m>> \in Name
      BY DEF Name
    <3> QED BY <1>2, <2>1, <3>1 DEF LimiterInv, LimiterTypes
  <2>3. HasSlot(g) /\ group' = SlotGiven(g) /\ status' = StatusAfter(g)
        /\ by_method' = by_method /\ local' = local /\ uptime' = uptime
    BY <1>2, <2>1 DEF TryAcquireGranted, Granted, StatusAfter
  <2>4. LimiterTypes'
    BY <2>2, <2>3, SlotStep DEF LimiterInv, LimiterTypes
  <2>5. \A h \in Groups : GroupInv(group'[h])
    BY <2>2, <2>3, SlotStep
  <2>6. \A h \in Groups : GroupInv(group[h])'
    BY <2>5 DEF GroupInv
  <2>7. ASSUME NEW u \in Threads, status'[u] # "idle" PROVE local'[u] \in Groups
    <3>1. status[u] # "idle"
      BY <2>2, <2>3, <2>7, SlotStep
    <3> QED BY <2>3, <3>1 DEF LimiterInv
  <2>8. ASSUME NEW u \in Threads, status'[u] = "asleep"
        PROVE  Full(group[local[u]])'
    <3>1. Full(group'[local'[u]])
      BY <2>2, <2>3, <2>8, SlotStep
    <3> QED BY <3>1 DEF Full
  <2> QED BY <2>4, <2>6, <2>7, <2>8 DEF LimiterInv
<1> QED BY <1>1, <1>2

LEMMA SpuriousStep ==
  ASSUME LimiterInv, NEW t \in Threads, SpuriousWakeup(t)
  PROVE  LimiterInv'
<1>1. status' = [status EXCEPT ![t] = "awake"] /\ status[t] = "asleep"
      /\ UNCHANGED <<by_method, group, local, asked, uptime>>
  BY DEF SpuriousWakeup
<1>2. LimiterTypes'
  BY <1>1 DEF LimiterInv, LimiterTypes
<1>3. \A h \in Groups : GroupInv(group[h])'
  BY <1>1 DEF LimiterInv, GroupInv
<1>4. ASSUME NEW u \in Threads, status'[u] # "idle" PROVE local'[u] \in Groups
  <2>1. status[u] # "idle"
    BY <1>1, <1>4 DEF LimiterInv, LimiterTypes
  <2> QED BY <1>1, <2>1 DEF LimiterInv
<1>5. ASSUME NEW u \in Threads, status'[u] = "asleep" PROVE Full(group[local[u]])'
  <2>1. status[u] = "asleep"
    BY <1>1, <1>5 DEF LimiterInv, LimiterTypes
  <2>2. Full(group[local[u]])
    BY <2>1 DEF LimiterInv
  <2> QED BY <1>1, <2>2 DEF Full
<1> QED BY <1>2, <1>3, <1>4, <1>5 DEF LimiterInv

(* Time passes: a sleeper whose window expires is timed out. *)
LEMMA TickStep ==
  ASSUME LimiterInv, Tick
  PROVE  LimiterInv'
<1>1. /\ group' = [g \in Groups |-> Ticked(group[g])]
      /\ uptime' = Older(uptime)
      /\ status' = [t \in Threads |-> IF TimesOut(t) THEN "awake" ELSE status[t]]
      /\ by_method' = by_method /\ local' = local
  BY DEF Tick
<1>2. \A g \in Groups : /\ GroupInv(group'[g])
                        /\ Full(group[g]) /\ ~Expired(group'[g]) => Full(group'[g])
  BY <1>1, TickedInv DEF LimiterInv
<1>3. \A g \in Groups : GroupInv(group[g])'
  BY <1>2 DEF GroupInv
<1>4. uptime' \in 0..Window
  BY <1>1, WindowAssumption DEF LimiterInv, LimiterTypes, Older
<1>5. LimiterTypes'
  <2>1. status' \in [Threads -> {"idle", "awake", "asleep"}]
    BY <1>1 DEF LimiterInv, LimiterTypes
  <2> QED BY <1>1, <1>4, <2>1 DEF LimiterInv, LimiterTypes
<1>6. ASSUME NEW t \in Threads, status'[t] # "idle" PROVE local'[t] \in Groups
  <2>1. status[t] # "idle"
    BY <1>1, <1>6 DEF TimesOut
  <2> QED BY <1>1, <2>1 DEF LimiterInv
<1>7. ASSUME NEW t \in Threads, status'[t] = "asleep" PROVE Full(group[local[t]])'
  <2>1. status[t] = "asleep" /\ ~Expired(group'[local[t]])
    BY <1>1, <1>7 DEF TimesOut
  <2>2. local[t] \in Groups /\ Full(group[local[t]])
    BY <2>1 DEF LimiterInv
  <2>3. Full(group'[local'[t]])
    BY <1>1, <1>2, <2>1, <2>2
  <2> QED BY <2>3 DEF Full
<1> QED BY <1>3, <1>5, <1>6, <1>7 DEF LimiterInv

LEMMA LimiterInvHolds == Spec => []LimiterInv
<1>1. Init => LimiterInv
  <2> SUFFICES ASSUME Init PROVE LimiterInv
    OBVIOUS
  <2>1. LimiterTypes
    BY DEF Init, LimiterTypes
  <2>2. \A g \in Groups : GroupInv(group[g])
    BY DestroyedInv DEF Init
  <2>3. \A t \in Threads : status[t] = "idle"
    BY DEF Init
  <2> QED BY <2>1, <2>2, <2>3 DEF LimiterInv
<1>2. LimiterInv /\ UNCHANGED limiter => LimiterInv'
  BY DEF limiter, LimiterInv, LimiterTypes, GroupInv, Full
<1>3. LimiterInv /\ [Next]_limiter => LimiterInv'
  <2> SUFFICES ASSUME LimiterInv, Next PROVE LimiterInv' \/ UNCHANGED limiter
    BY <1>2
  <2>1. CASE \E tariff \in Tariffs : configure(tariff)
    BY <2>1, ConfigureStep
  <2>2. CASE \E ms \in MethodSets, n \in Limits : set_limit(ms, n)
    BY <2>2, SetLimitStep
  <2>3. ASSUME NEW t \in Threads, NEW m \in Methods,
               acquire(t, <<0, m>>) \/ try_acquire(t, <<0, m>>)
        PROVE  LimiterInv' \/ UNCHANGED limiter
    <3>1. CASE acquire(t, <<0, m>>)
      BY <3>1, AcquireKeeps
    <3>2. CASE TryAcquireGranted(t, <<0, m>>)
      BY <3>2, TryAcquireKeeps
    <3>3. CASE TryAcquireRefused(t, <<0, m>>)
      BY <3>3 DEF TryAcquireRefused
    <3> QED BY <2>3, <3>1, <3>2, <3>3 DEF try_acquire
  <2>4. ASSUME NEW t \in Threads, AcquireAgain(t) \/ SpuriousWakeup(t)
        PROVE  LimiterInv' \/ UNCHANGED limiter
    BY <2>4, AcquireKeeps, SpuriousStep
  <2>5. CASE Tick
    BY <2>5, TickStep
  <2> QED BY Zenon, <2>1, <2>2, <2>3, <2>4, <2>5 DEF Next
<1> QED BY <1>1, <1>3, PTL DEF Spec

-----------------------------------------------------------------------------
(* What the invariant says *)

LEMMA LimiterInvSafe ==
  ASSUME LimiterInv
  PROVE  QuotaKept /\ RefusedOnlyWhenFull /\ NoLostWakeup
<1>1. ASSUME NEW g \in Groups
      PROVE  LET r == group[g]
             IN  /\ r \in GroupRecords /\ GroupInv(r)
                 /\ SlotsGiven(g) = GivenWithin(r.recent)[Window]
                 /\ SlotsGiven(g) \in Nat
  BY GivenWithinType, WindowAssumption DEF LimiterInv, GroupInv, GroupRecords, SlotsGiven
<1>2. QuotaKept
  BY <1>1, WindowAssumption DEF QuotaKept, GroupInv, GroupRecords
<1>3. RefusedOnlyWhenFull
  <2> SUFFICES ASSUME NEW n \in Name, ~Granted(n)
               PROVE  SlotsGiven(by_method[n]) >= group[by_method[n]].limit
    BY DEF RefusedOnlyWhenFull
  <2>1. PICK g, r : g = by_method[n] /\ r = group[g]
    OBVIOUS
  <2>2. g \in Groups /\ ~HasSlot(g)
    BY <2>1 DEF Granted, LimiterInv, LimiterTypes
  <2>3. Full(r) /\ GroupInv(r) /\ SlotsGiven(g) = GivenWithin(r.recent)[Window]
    BY <1>1, <2>1, <2>2, NoSlot
  <2>4. r.recent \in [Ages -> Nat] /\ r.limit \in Int /\ r.count \in Nat
        /\ r.age \in 0..Window
    BY <2>3 DEF GroupInv, GroupRecords
  <2>5. GivenWithin(r.recent)[r.age + 1] = r.count /\ r.count >= r.limit
        /\ r.age + 1 \in 0..Window
    BY <2>3, <2>4, WindowAssumption DEF Full, GroupInv
  <2>6. r.count <= GivenWithin(r.recent)[Window]
        /\ GivenWithin(r.recent)[Window] \in Nat
    BY <2>4, <2>5, GivenWithinType, WindowAssumption
  <2> QED BY <2>1, <2>3, <2>4, <2>5, <2>6
<1>4. NoLostWakeup
  <2> SUFFICES ASSUME NEW t \in Threads, status[t] = "asleep"
               PROVE  ~HasSlot(local[t])
    BY DEF NoLostWakeup
  <2>1. PICK r : r = group[local[t]]
    OBVIOUS
  <2>2. Full(r) /\ r \in GroupRecords
    BY <2>1 DEF LimiterInv, GroupInv
  <2>3. ~(r.limit <= 0) /\ roll_window(r) = r /\ ~(r.count < r.limit)
    BY <2>2, WindowAssumption DEF Full, roll_window, Expired, GroupRecords
  <2> QED BY <2>1, <2>3 DEF HasSlot
<1> QED BY <1>2, <1>3, <1>4

(* For every tariff, every order of reconfigurations and calls and every   *)
(* number of threads: a group gives away at most twice its limit in a      *)
(* window, refuses only when the limit was used up within one, and lets no *)
(* thread sleep in acquire() while it has a slot.                          *)
THEOREM LimiterCorrect ==
  Spec => []QuotaKept /\ []RefusedOnlyWhenFull /\ []NoLostWakeup
<1>1. LimiterInv => QuotaKept /\ RefusedOnlyWhenFull /\ NoLostWakeup
  BY LimiterInvSafe
<1> QED BY <1>1, LimiterInvHolds, PTL

-----------------------------------------------------------------------------
(* The inductive invariant.  Types; a delay is one that delay() computes. *)

Delays == {0} \cup {delay(e, n) : e \in Outcome, n \in Nat}

Locals ==
  [method : Methods, retry : RetryOptions, load : BOOLEAN, attempt : Nat \ {0},
   err : Outcome, delay : Delays]

Types ==
  /\ pc \in [Threads -> {"idle", "acquire", "wait", "call", "sleep", "configure"}]
  /\ call \in [Threads -> Locals]
  /\ paid \in [Threads -> Nat]

(* The last error allows another attempt, after the delay. *)
Justified(c) ==
  /\ c.retry # "off" /\ c.delay <= max_wait
  /\ \/ c.err.code = "UNAVAILABLE" /\ on_unavailable
     \/ /\ c.err.code = "RESOURCE_EXHAUSTED" /\ on_rate_limit
        /\ c.delay > 1000 * c.err.reset

(* The slots paid for, and why the thread is in this attempt. *)
LoopInv(p, c, n) ==
  /\ p = "idle" => n = 0
  /\ p \in {"call", "sleep", "configure"} => n = c.attempt
  /\ p \in {"acquire", "wait"} => n = c.attempt - 1
  /\ p = "sleep" => c.attempt < max_attempts /\ Justified(c)
  /\ p \in {"acquire", "wait", "call"} /\ c.attempt > 1 =>
       c.attempt <= max_attempts /\ Justified(c)

IInv == Types /\ \A t \in Threads : LoopInv(pc[t], call[t], paid[t])

-----------------------------------------------------------------------------
LEMMA NoCallFacts ==
  NoCall \in Locals /\ NoCall.attempt = 1
BY AnswersAssumption
   DEF NoCall, NoError, Locals, Outcome, Codes, RetryOptions, Delays

(* A thread's step touches nothing of the other threads. *)
LEMMA OneThread ==
  ASSUME IInv, NEW t \in Threads,
         NEW p \in {"idle", "acquire", "wait", "call", "sleep", "configure"},
         NEW c \in Locals, NEW n \in Nat,
         pc' = [pc EXCEPT ![t] = p], call' = [call EXCEPT ![t] = c],
         paid' = [paid EXCEPT ![t] = n], LoopInv(p, c, n)
  PROVE  IInv'
<1>1. Types'
  BY DEF IInv, Types
<1>2. ASSUME NEW u \in Threads PROVE LoopInv(pc[u], call[u], paid[u])'
  <2>1. pc'[u] = (IF u = t THEN p ELSE pc[u])
    BY DEF IInv, Types
  <2>2. call'[u] = (IF u = t THEN c ELSE call[u])
    BY DEF IInv, Types
  <2>3. paid'[u] = (IF u = t THEN n ELSE paid[u])
    BY DEF IInv, Types
  <2>4. LoopInv(pc'[u], call'[u], paid'[u])
    BY <2>1, <2>2, <2>3 DEF IInv
  <2> QED BY <2>4 DEF LoopInv, Justified
<1> QED BY <1>1, <1>2 DEF IInv

LEMMA NothingMoves ==
  ASSUME IInv, UNCHANGED <<pc, call, paid>>
  PROVE  IInv'
BY DEF IInv, Types, LoopInv, Justified

-----------------------------------------------------------------------------
(* The steps of a blocking call.  EXCEPT on a field of call[t] is first    *)
(* turned into a new value of call[t].                                     *)
LEMMA EnterStep ==
  ASSUME IInv, NEW t \in Threads, NEW m \in Methods, NEW r \in RetryOptions,
         NEW l \in BOOLEAN, Enter(t, m, r, l)
  PROVE  IInv'
<1>1. PICK c : c = [NoCall EXCEPT !.method = m, !.retry = r, !.load = l]
  OBVIOUS
<1>2. c \in Locals /\ c.attempt = 1
  BY Zenon, <1>1, NoCallFacts DEF Locals
<1>3. paid[t] \in Nat /\ paid' = [paid EXCEPT ![t] = paid[t]]
  BY DEF Enter, IInv, Types
<1>4. LoopInv("acquire", c, paid[t])
  BY <1>2 DEF Enter, IInv, LoopInv
<1>5. pc' = [pc EXCEPT ![t] = "acquire"] /\ call' = [call EXCEPT ![t] = c]
  BY <1>1 DEF Enter
<1> QED BY Zenon, <1>2, <1>3, <1>4, <1>5, OneThread

LEMMA AcquireStep ==
  ASSUME IInv, NEW t \in Threads, pc[t] \in {"acquire", "wait"}, AfterAcquire(t)
  PROVE  IInv'
<1>1. PICK p, n : p = (IF status'[t] = "idle" THEN "call" ELSE "wait")
                /\ n = (IF status'[t] = "idle" THEN paid[t] + 1 ELSE paid[t])
  OBVIOUS
<1>2. call[t] \in Locals /\ paid[t] \in Nat /\ paid[t] = call[t].attempt - 1
  BY DEF IInv, Types, LoopInv
<1>3. n \in Nat /\ LoopInv(p, call[t], n)
  BY <1>1, <1>2 DEF IInv, LoopInv, Locals
<1>4. pc' = [pc EXCEPT ![t] = p] /\ paid' = [paid EXCEPT ![t] = n]
  BY <1>1 DEF AfterAcquire, IInv, Types
<1>5. call' = [call EXCEPT ![t] = call[t]]
  BY DEF AfterAcquire, IInv, Types
<1>6. p \in {"idle", "acquire", "wait", "call", "sleep", "configure"}
  BY <1>1
<1> QED BY Zenon, <1>2, <1>3, <1>4, <1>5, <1>6, OneThread

LEMMA ReturnStep ==
  ASSUME IInv, NEW t \in Threads, Return(t)
  PROVE  IInv'
<1>1. LoopInv("idle", NoCall, 0)
  BY DEF LoopInv
<1> QED BY Zenon, <1>1, NoCallFacts, OneThread DEF Return

LEMMA SucceedStep ==
  ASSUME IInv, NEW t \in Threads, CallSucceeds(t)
  PROVE  IInv'
<1>1. CASE call[t].load
  <2>1. LoopInv("configure", call[t], paid[t])
    BY DEF IInv, LoopInv, CallSucceeds
  <2>2. pc' = [pc EXCEPT ![t] = "configure"]
    BY <1>1 DEF CallSucceeds
  <2>3. call' = [call EXCEPT ![t] = call[t]] /\ paid' = [paid EXCEPT ![t] = paid[t]]
    BY <1>1 DEF CallSucceeds, IInv, Types
  <2>4. call[t] \in Locals /\ paid[t] \in Nat
    BY DEF IInv, Types
  <2> QED BY Zenon, <2>1, <2>2, <2>3, <2>4, OneThread
<1> QED BY <1>1, ReturnStep DEF CallSucceeds

(* What the guard of a retry says of the next attempt. *)
LEMMA RetryAllowed ==
  ASSUME NEW c \in Locals, NEW e \in Outcome, retryable(c, e),
         c.attempt < MaxAttempts, delay(e, c.attempt) <= max_wait
  PROVE  c.attempt < max_attempts
         /\ Justified([c EXCEPT !.err = e, !.delay = delay(e, c.attempt)])
<1>1. c.attempt \in Nat \ {0}
  BY DEF Locals
<1>2. c.attempt < max_attempts
  BY <1>1, RetryPolicyAssumption DEF MaxAttempts
<1>3. ASSUME e.code = "RESOURCE_EXHAUSTED"
      PROVE  delay(e, c.attempt) > 1000 * e.reset
  BY <1>1, <1>3 DEF delay, Outcome
<1> DEFINE d == [c EXCEPT !.err = e, !.delay = delay(e, c.attempt)]
<1>4. d.retry = c.retry /\ d.err = e /\ d.delay = delay(e, c.attempt)
  BY DEF Locals
<1> HIDE DEF d
<1>5. Justified(d)
  BY <1>3, <1>4 DEF Justified, retryable
<1> QED BY <1>2, <1>5 DEF d

LEMMA FailStep ==
  ASSUME IInv, NEW t \in Threads, NEW e \in Answers, CallFails(t, e)
  PROVE  IInv'
<1> DEFINE again == /\ retryable(call[t], e) /\ call[t].attempt < MaxAttempts
                    /\ delay(e, call[t].attempt) <= max_wait
           c == [call[t] EXCEPT !.err = e, !.delay = delay(e, call[t].attempt)]
<1>1. CASE again
  <2>1. e \in Outcome /\ call[t] \in Locals /\ paid[t] \in Nat
    BY AnswersAssumption DEF Outcome, IInv, Types
  <2>2. call[t].attempt < max_attempts /\ Justified(c)
    BY Zenon, <1>1, <2>1, RetryAllowed
  <2>3. c \in Locals /\ c.attempt = call[t].attempt
    <3>1. PICK d : d = delay(e, call[t].attempt)
      OBVIOUS
    <3>2. d \in Delays
      <4>1. call[t].attempt \in Nat
        BY <2>1 DEF Locals
      <4> QED BY <2>1, <3>1, <4>1 DEF Delays
    <3>3. c = [call[t] EXCEPT !.err = e, !.delay = d]
      BY <3>1
    <3> HIDE DEF c
    <3> QED BY Zenon, <2>1, <3>2, <3>3 DEF Locals
  <2>4. paid[t] = call[t].attempt
    BY DEF CallFails, IInv, LoopInv
  <2>5. pc' = [pc EXCEPT ![t] = "sleep"] /\ paid' = [paid EXCEPT ![t] = paid[t]]
    BY <1>1 DEF CallFails, IInv, Types
  <2>6. call' = [call EXCEPT ![t] = c]
    BY Zenon, <1>1, <2>1 DEF CallFails, IInv, Types, Locals
  <2> HIDE DEF c
  <2>7. LoopInv("sleep", c, paid[t])
    BY <2>2, <2>3, <2>4 DEF LoopInv
  <2> QED BY Zenon, <2>1, <2>3, <2>5, <2>6, <2>7, OneThread
<1> QED BY <1>1, ReturnStep DEF CallFails

LEMMA SleepStep ==
  ASSUME IInv, NEW t \in Threads, SleepOver(t)
  PROVE  IInv'
<1> DEFINE c == [call[t] EXCEPT !.attempt = @ + 1]
<1>1. call[t] \in Locals /\ paid[t] \in Nat
  BY DEF IInv, Types
<1>2. c \in Locals /\ c.attempt = call[t].attempt + 1
      /\ c.retry = call[t].retry /\ c.delay = call[t].delay /\ c.err = call[t].err
  BY <1>1 DEF Locals
<1>3. call' = [call EXCEPT ![t] = c]
  BY <1>1 DEF SleepOver, IInv, Types, Locals
<1>4. pc' = [pc EXCEPT ![t] = "acquire"] /\ paid' = [paid EXCEPT ![t] = paid[t]]
  BY DEF SleepOver, IInv, Types
<1>5. /\ paid[t] = call[t].attempt
      /\ call[t].attempt < max_attempts /\ Justified(call[t])
  BY DEF SleepOver, IInv, LoopInv
<1> HIDE DEF c
<1>6. Justified(c)
  BY <1>2, <1>5 DEF Justified
<1>7. call[t].attempt \in Nat
  BY <1>1 DEF Locals
<1>8. LoopInv("acquire", c, paid[t])
  BY <1>2, <1>5, <1>6, <1>7, RetryPolicyAssumption DEF LoopInv
<1> QED BY Zenon, <1>1, <1>2, <1>3, <1>4, <1>8, OneThread

-----------------------------------------------------------------------------
LEMMA IInvHolds == UnarySpec => []IInv
<1>1. UnaryInit => IInv
  <2> SUFFICES ASSUME UnaryInit PROVE IInv
    OBVIOUS
  <2>1. Types
    BY NoCallFacts DEF UnaryInit, Types
  <2>2. ASSUME NEW t \in Threads PROVE LoopInv(pc[t], call[t], paid[t])
    BY DEF UnaryInit, LoopInv
  <2> QED BY <2>1, <2>2 DEF IInv
<1>2. IInv /\ [UnaryNext]_vars => IInv'
  <2> SUFFICES ASSUME IInv, [UnaryNext]_vars PROVE IInv'
    OBVIOUS
  <2>1. ASSUME NEW t \in Threads, NEW m \in Methods, NEW r \in Retries,
               unary_sync(t, m, r)
        PROVE  IInv'
    BY Zenon, <2>1, EnterStep, AnswersAssumption DEF unary_sync
  <2>2. ASSUME NEW t \in Threads, load_rate_limits(t) PROVE IInv'
    <3>1. "unset" \in RetryOptions /\ TRUE \in BOOLEAN
      BY DEF RetryOptions
    <3> QED BY Zenon, <2>2, <3>1, EnterStep, AnswersAssumption DEF load_rate_limits
  <2>3. ASSUME NEW t \in Threads, SyncStep(t) PROVE IInv'
    <3>1. CASE Acquire(t) \/ AcquireWakes(t)
      BY <3>1, AcquireStep DEF Acquire, AcquireWakes
    <3>2. CASE Configure(t)
      BY <3>2, ReturnStep DEF Configure
    <3> QED BY <2>3, <3>1, <3>2, SucceedStep, FailStep, SleepStep DEF SyncStep
  <2>4. ASSUME NEW t \in Threads, NEW c \in AsyncCalls, NEW m \in Methods,
               AsyncStart(t, c, m) \/ AsyncRefused(t, c, m)
        PROVE  IInv'
    BY <2>4, NothingMoves DEF AsyncStart, AsyncRefused
  <2>5. ASSUME NEW c \in AsyncCalls, AsyncDone(c) \/ AsyncDelete(c) PROVE IInv'
    BY <2>5, NothingMoves DEF AsyncDone, AsyncDelete
  <2>6. CASE UNCHANGED unary
    BY <2>6, NothingMoves DEF unary
  <2> QED BY <2>1, <2>2, <2>3, <2>4, <2>5, <2>6 DEF UnaryNext, vars
<1> QED BY <1>1, <1>2, PTL DEF UnarySpec

(* No request leaves unary_sync() without a slot of the limiter, and no    *)
(* slot is taken twice for one, for every policy and number of threads.    *)
THEOREM AttemptsPaid == UnarySpec => []EveryAttemptPaid
<1>1. IInv => EveryAttemptPaid
  BY DEF IInv, LoopInv, EveryAttemptPaid
<1> QED BY <1>1, IInvHolds, PTL

(* unary_sync() retries only what RetryPolicy and CallOptions::retry allow,*)
(* at most max_attempts times and after a wait that covers the server's    *)
(* reset time, whatever the answers were.                                  *)
THEOREM RetriesAreJustified == UnarySpec => []RetriesJustified
<1>1. IInv => RetriesJustified
  BY DEF IInv, LoopInv, Justified, RetriesJustified
<1> QED BY <1>1, IInvHolds, PTL

-----------------------------------------------------------------------------
(* Calls use the limiter as RateLimiter describes it: each of their steps  *)
(* is one critical section of the limiter, or none.                        *)
THEOREM CallsUseLimiter == UnarySpec => Spec
<1>1. UnaryInit => Init
  BY DEF UnaryInit
<1>2. IInv /\ [UnaryNext]_vars => [Next]_limiter
  <2> SUFFICES ASSUME IInv, [UnaryNext]_vars PROVE [Next]_limiter
    OBVIOUS
  <2>1. ASSUME NEW t \in Threads, SyncStep(t) PROVE [Next]_limiter
    <3>1. CASE Acquire(t)
      <4>1. call[t].method \in Methods
        BY DEF IInv, Types, Locals
      <4> QED BY <3>1, <4>1 DEF Acquire, Next
    <3>2. CASE AcquireWakes(t)
      BY <3>2 DEF AcquireWakes, Next
    <3>3. CASE Configure(t)
      BY <3>3 DEF Configure, Next
    <3>4. CASE CallSucceeds(t) \/ (\E a \in Answers : CallFails(t, a)) \/ SleepOver(t)
      BY Zenon, <3>4 DEF CallSucceeds, CallFails, SleepOver
    <3> QED BY <2>1, <3>1, <3>2, <3>3, <3>4 DEF SyncStep
  <2>2. ASSUME NEW t \in Threads,
               \/ \E m \in Methods, r \in Retries : unary_sync(t, m, r)
               \/ load_rate_limits(t)
        PROVE  [Next]_limiter
    BY Zenon, <2>2 DEF unary_sync, load_rate_limits, Enter
  <2>3. ASSUME NEW t \in Threads, NEW c \in AsyncCalls, NEW m \in Methods,
               AsyncStart(t, c, m) \/ AsyncRefused(t, c, m)
        PROVE  [Next]_limiter
    BY <2>3 DEF AsyncStart, AsyncRefused, Next, try_acquire
  <2>4. ASSUME NEW c \in AsyncCalls, AsyncDone(c) \/ AsyncDelete(c)
        PROVE  [Next]_limiter
    BY <2>4 DEF AsyncDone, AsyncDelete
  <2>5. CASE UNCHANGED vars
    BY <2>5 DEF vars, limiter
  <2> QED BY <2>1, <2>2, <2>3, <2>4, <2>5 DEF UnaryNext, Next
<1> QED BY <1>1, <1>2, IInvHolds, PTL DEF UnarySpec, Spec

(* Blocking and asynchronous calls, retries and reconfigurations together  *)
(* never make a group give away more than twice its limit in a window.     *)
THEOREM QuotaIsKept == UnarySpec => []QuotaKept
BY CallsUseLimiter, LimiterCorrect, PTL

(* unary_async() fails fast only when the limit was used up in a window.   *)
THEOREM RefusalsAreJustified == UnarySpec => []RefusedOnlyWhenFull
BY CallsUseLimiter, LimiterCorrect, PTL

(* No thread stays blocked in acquire() while its group has a slot.        *)
THEOREM NoWakeupIsLost == UnarySpec => []NoLostWakeup
BY CallsUseLimiter, LimiterCorrect, PTL

-----------------------------------------------------------------------------
(* Asynchronous calls.  Only their four steps touch async and callbacks. *)
AsyncTypes ==
  /\ async \in [AsyncCalls -> {"none", "refused", "started", "callback", "deleted"}]
  /\ callbacks \in [AsyncCalls -> Seq({"caller", "worker"})]

AsyncInv == AsyncTypes /\ CallbackOnce

LEMMA OtherStepsKeepAsync ==
  ASSUME [UnaryNext]_vars
  PROVE  \/ \E t \in Threads, c \in AsyncCalls, m \in Methods :
              AsyncStart(t, c, m) \/ AsyncRefused(t, c, m)
         \/ \E c \in AsyncCalls : AsyncDone(c) \/ AsyncDelete(c)
         \/ UNCHANGED <<async, callbacks>>
<1>1. ASSUME NEW t \in Threads, SyncStep(t)
      PROVE  UNCHANGED <<async, callbacks>>
  BY Zenon, <1>1 DEF SyncStep, Acquire, AcquireWakes, AfterAcquire, CallSucceeds,
              CallFails, SleepOver, Configure
<1>2. ASSUME NEW t \in Threads, NEW m \in Methods, NEW r \in Retries,
             unary_sync(t, m, r)
      PROVE  UNCHANGED <<async, callbacks>>
  BY <1>2 DEF unary_sync, Enter
<1>3. ASSUME NEW t \in Threads, load_rate_limits(t)
      PROVE  UNCHANGED <<async, callbacks>>
  BY <1>3 DEF load_rate_limits, Enter
<1>4. CASE UNCHANGED unary
  BY <1>4 DEF unary
<1> QED BY <1>1, <1>2, <1>3, <1>4 DEF UnaryNext, vars

(* The callback of unary_async() runs once, in the caller or on a gRPC     *)
(* thread, for every number of calls.                                      *)
THEOREM CallbackRunsOnce == UnarySpec => []CallbackOnce
<1>1. UnaryInit => AsyncInv
  BY DEF UnaryInit, AsyncInv, AsyncTypes, CallbackOnce
<1>2. AsyncInv /\ [UnaryNext]_vars => AsyncInv'
  <2> SUFFICES ASSUME AsyncInv, [UnaryNext]_vars PROVE AsyncInv'
    OBVIOUS
  <2>1. ASSUME NEW t \in Threads, NEW c \in AsyncCalls, NEW m \in Methods,
               AsyncStart(t, c, m)
        PROVE  AsyncInv'
    BY <2>1 DEF AsyncInv, AsyncTypes, CallbackOnce, AsyncStart
  <2>2. ASSUME NEW t \in Threads, NEW c \in AsyncCalls, NEW m \in Methods,
               AsyncRefused(t, c, m)
        PROVE  AsyncInv'
    <3>1. callbacks[c] = <<>> /\ async[c] = "none"
      BY <2>2 DEF AsyncInv, CallbackOnce, AsyncRefused
    <3>2. callbacks' = [callbacks EXCEPT ![c] = <<"caller">>]
      BY <2>2, <3>1 DEF AsyncRefused
    <3>3. async' = [async EXCEPT ![c] = "refused"]
      BY <2>2 DEF AsyncRefused
    <3>4. AsyncTypes'
      BY <3>2, <3>3 DEF AsyncInv, AsyncTypes
    <3>5. CallbackOnce'
      BY <3>2, <3>3 DEF AsyncInv, AsyncTypes, CallbackOnce
    <3> QED BY <3>4, <3>5 DEF AsyncInv
  <2>3. ASSUME NEW c \in AsyncCalls, AsyncDone(c) PROVE AsyncInv'
    <3>1. callbacks[c] = <<>> /\ async[c] = "started"
      BY <2>3 DEF AsyncInv, CallbackOnce, AsyncDone
    <3>2. callbacks' = [callbacks EXCEPT ![c] = <<"worker">>]
      BY <2>3, <3>1 DEF AsyncDone
    <3>3. async' = [async EXCEPT ![c] = "callback"]
      BY <2>3 DEF AsyncDone
    <3>4. AsyncTypes'
      BY <3>2, <3>3 DEF AsyncInv, AsyncTypes
    <3>5. CallbackOnce'
      BY <3>2, <3>3 DEF AsyncInv, AsyncTypes, CallbackOnce
    <3> QED BY <3>4, <3>5 DEF AsyncInv
  <2>4. ASSUME NEW c \in AsyncCalls, AsyncDelete(c) PROVE AsyncInv'
    BY <2>4 DEF AsyncInv, AsyncTypes, CallbackOnce, AsyncDelete
  <2>5. CASE UNCHANGED <<async, callbacks>>
    BY <2>5 DEF AsyncInv, AsyncTypes, CallbackOnce
  <2> QED BY <2>1, <2>2, <2>3, <2>4, <2>5, OtherStepsKeepAsync
<1>3. AsyncInv => CallbackOnce
  BY DEF AsyncInv
<1> QED BY <1>1, <1>2, <1>3, PTL DEF UnarySpec

(* unary_async() implements the contract AsyncCall that awaitables rely    *)
(* on, whatever the limiter and the blocking calls do in between.          *)
THEOREM AsyncContract == UnarySpec => AsyncCallSpec
<1>1. UnaryInit => Contract!AsyncInit
  BY DEF UnaryInit, Contract!AsyncInit
<1>2. [UnaryNext]_vars => [Contract!AsyncNext]_async
  <2> SUFFICES ASSUME [UnaryNext]_vars PROVE [Contract!AsyncNext]_async
    OBVIOUS
  <2>1. ASSUME NEW t \in Threads, NEW c \in AsyncCalls, NEW m \in Methods,
               AsyncStart(t, c, m) \/ AsyncRefused(t, c, m)
        PROVE  Contract!Refuse(c) \/ Contract!StartRpc(c)
    BY <2>1 DEF AsyncStart, AsyncRefused, Contract!Refuse, Contract!StartRpc,
                Contract!AsyncStep
  <2>2. ASSUME NEW c \in AsyncCalls, AsyncDone(c) \/ AsyncDelete(c)
        PROVE  Contract!RpcDone(c) \/ Contract!DeleteState(c)
    BY <2>2 DEF AsyncDone, AsyncDelete, Contract!RpcDone, Contract!DeleteState,
                Contract!AsyncStep
  <2> QED BY <2>1, <2>2, OtherStepsKeepAsync DEF Contract!AsyncNext
<1> QED BY <1>1, <1>2, PTL DEF UnarySpec, AsyncCallSpec, Contract!AsyncSpec
=============================================================================
