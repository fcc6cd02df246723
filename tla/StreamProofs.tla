---------------------------- MODULE StreamProofs ----------------------------
(***************************************************************************)
(* Facts about what the streams are made of: the operations on a streaming *)
(* call, the registry of subscriptions with the queue that brings it to    *)
(* the server, and the delay before a reconnect.                           *)
(***************************************************************************)
EXTENDS Subscriptions, ClientCall, StreamOptions, FiniteSetTheorems,
        WellFoundedInduction, TLAPS

-----------------------------------------------------------------------------
(* Operations on a call: they keep its type, and which fields they change. *)

LEMMA NewCallType == \A S : NewCall \in Call(S)
BY DEF NewCall, Call, Phases, ReadStates

(* The operations on a call keep its type. *)
LEMMA CallOpsType ==
  ASSUME NEW S, NEW c \in Call(S)
  PROVE  /\ TryCancel(c) \in Call(S)
         /\ StartCall(c, 1) \in Call(S)
         /\ StartWrite(c) \in Call(S)
         /\ RemoveHold(c) \in Call(S)
         /\ Finish(c) \in Call(S)
         /\ \A rd \in ReadStates : ReadMessage(c, rd) \in Call(S)
         /\ \A rd \in ReadStates : ReadGoesOn(c, rd) \in Call(S)
         /\ \A p \in S \cup {None} : ReadClosed(c, p) \in Call(S)
         /\ \A p \in S \cup {None} : WriteAnswered(c, p) \in Call(S)
         /\ ReadReturns(c) \in Call(S)
         /\ WriteReturns(c) \in Call(S)
<1> USE DEF Call, Phases, ReadStates
<1>1. TryCancel(c) \in Call(S)
  BY DEF TryCancel
<1>2. StartCall(c, 1) \in Call(S)
  <2> DEFINE h == 1
             bound == [c EXCEPT !.phase = "started", !.rd = "pending"]
  <2>1. bound \in Call(S)
    OBVIOUS
  <2>2. StartCall(c, h) = [bound EXCEPT !.hold = h]
    BY DEF StartCall
  <2>3. h \in Int
    OBVIOUS
  <2> HIDE DEF bound, h
  <2>4. StartCall(c, h) \in Call(S)
    BY <2>1, <2>2, <2>3
  <2> QED BY <2>4 DEF h
<1>3. StartWrite(c) \in Call(S)
  BY DEF StartWrite
<1>4. RemoveHold(c) \in Call(S)
  BY DEF RemoveHold
<1>5. Finish(c) \in Call(S)
  BY DEF Finish
<1>6. ASSUME NEW rd \in ReadStates PROVE ReadMessage(c, rd) \in Call(S)
  BY DEF ReadMessage
<1>7. ASSUME NEW rd \in ReadStates PROVE ReadGoesOn(c, rd) \in Call(S)
  BY DEF ReadGoesOn
<1>8. ASSUME NEW p \in S \cup {None} PROVE ReadClosed(c, p) \in Call(S)
  BY DEF ReadClosed
<1>9. ASSUME NEW p \in S \cup {None} PROVE WriteAnswered(c, p) \in Call(S)
  <2> DEFINE n == c.wr - 1
  <2>1. n \in Int
    OBVIOUS
  <2>2. WriteAnswered(c, p) = [c EXCEPT !.wr = n, !.wrel = p]
    BY DEF WriteAnswered
  <2> HIDE DEF n
  <2> QED BY <2>1, <2>2
<1>10. ReadReturns(c) \in Call(S)
  BY DEF ReadReturns
<1>11. WriteReturns(c) \in Call(S)
  BY DEF WriteReturns
<1> HIDE DEF Call, Phases, ReadStates
<1> QED BY <1>1, <1>2, <1>3, <1>4, <1>5, <1>6, <1>7, <1>8, <1>9, <1>10, <1>11
-----------------------------------------------------------------------------
(* What the operations on a call do to its fields. *)
SameBut(c, d, changed) ==
  /\ "phase" \notin changed => d.phase = c.phase
  /\ "hold" \notin changed => d.hold = c.hold
  /\ "rd" \notin changed => d.rd = c.rd
  /\ "wr" \notin changed => d.wr = c.wr
  /\ "rrel" \notin changed => d.rrel = c.rrel
  /\ "wrel" \notin changed => d.wrel = c.wrel

LEMMA NewCallFields ==
  /\ NewCall.phase = "none" /\ NewCall.hold = 0 /\ NewCall.rd = "none"
  /\ NewCall.wr = 0 /\ NewCall.rrel = None /\ NewCall.wrel = None
BY DEF NewCall

LEMMA CallFields ==
  ASSUME NEW S, NEW c \in Call(S)
  PROVE  /\ SameBut(c, TryCancel(c), {})
         /\ SameBut(c, StartCall(c, 1), {"phase", "hold", "rd"})
         /\ StartCall(c, 1).phase = "started"
         /\ StartCall(c, 1).hold = 1
         /\ StartCall(c, 1).rd = "pending"
         /\ SameBut(c, StartWrite(c), {"wr"})
         /\ StartWrite(c).wr = c.wr + 1
         /\ SameBut(c, RemoveHold(c), {"hold"})
         /\ RemoveHold(c).hold = c.hold - 1
         /\ SameBut(c, Finish(c), {"phase"})
         /\ Finish(c).phase = "done"
         /\ SameBut(c, ReadReturns(c), {"rrel"})
         /\ ReadReturns(c).rrel = None
         /\ SameBut(c, WriteReturns(c), {"wrel"})
         /\ WriteReturns(c).wrel = None
<1> USE DEF Call, SameBut
<1>1. /\ SameBut(c, TryCancel(c), {})
  BY DEF TryCancel
<1>2. /\ SameBut(c, StartCall(c, 1), {"phase", "hold", "rd"})
      /\ StartCall(c, 1).phase = "started"
      /\ StartCall(c, 1).hold = 1
      /\ StartCall(c, 1).rd = "pending"
  BY DEF StartCall
<1>3. /\ SameBut(c, StartWrite(c), {"wr"})
      /\ StartWrite(c).wr = c.wr + 1
  BY DEF StartWrite
<1>4. /\ SameBut(c, RemoveHold(c), {"hold"})
      /\ RemoveHold(c).hold = c.hold - 1
  BY DEF RemoveHold
<1>5. /\ SameBut(c, Finish(c), {"phase"})
      /\ Finish(c).phase = "done"
  BY DEF Finish
<1>6. /\ SameBut(c, ReadReturns(c), {"rrel"})
      /\ ReadReturns(c).rrel = None
  BY DEF ReadReturns
<1>7. /\ SameBut(c, WriteReturns(c), {"wrel"})
      /\ WriteReturns(c).wrel = None
  BY DEF WriteReturns
<1> HIDE DEF SameBut
<1> QED BY <1>1, <1>2, <1>3, <1>4, <1>5, <1>6, <1>7

(* A call without AddHold(). *)
LEMMA StartFields ==
  ASSUME NEW S, NEW c \in Call(S)
  PROVE  /\ StartCall(c, 0) \in Call(S)
         /\ StartCall(c, 0).phase = "started" /\ StartCall(c, 0).rd = "pending"
<1> USE DEF Call, Phases, ReadStates
<1> DEFINE h == 0
           bound == [c EXCEPT !.phase = "started", !.rd = "pending"]
<1>1. bound \in Call(S) /\ bound.phase = "started" /\ bound.rd = "pending"
  OBVIOUS
<1>2. StartCall(c, h) = [bound EXCEPT !.hold = h]
  BY DEF StartCall
<1>3. h \in Int
  OBVIOUS
<1> HIDE DEF bound, h
<1>4. StartCall(c, h) \in Call(S)
  BY <1>1, <1>2, <1>3
<1>5. StartCall(c, h).phase = "started" /\ StartCall(c, h).rd = "pending"
  BY <1>1, <1>2
<1> QED BY <1>4, <1>5 DEF h

LEMMA CallbackFields ==
  ASSUME NEW S, NEW c \in Call(S), NEW x
  PROVE  /\ SameBut(c, ReadMessage(c, x), {"rd"})
         /\ ReadMessage(c, x).rd = x
         /\ SameBut(c, ReadGoesOn(c, x), {"rd"})
         /\ ReadGoesOn(c, x).rd = x
         /\ SameBut(c, ReadClosed(c, x), {"rd", "rrel"})
         /\ ReadClosed(c, x).rd = "closed"
         /\ ReadClosed(c, x).rrel = x
         /\ SameBut(c, WriteAnswered(c, x), {"wr", "wrel"})
         /\ WriteAnswered(c, x).wr = c.wr - 1
         /\ WriteAnswered(c, x).wrel = x
<1> USE DEF Call, SameBut
<1>1. /\ SameBut(c, ReadMessage(c, x), {"rd"})
      /\ ReadMessage(c, x).rd = x
  BY DEF ReadMessage
<1>2. /\ SameBut(c, ReadGoesOn(c, x), {"rd"})
      /\ ReadGoesOn(c, x).rd = x
  BY DEF ReadGoesOn
<1>3. /\ SameBut(c, ReadClosed(c, x), {"rd", "rrel"})
      /\ ReadClosed(c, x).rd = "closed"
      /\ ReadClosed(c, x).rrel = x
  BY DEF ReadClosed
<1>4. /\ SameBut(c, WriteAnswered(c, x), {"wr", "wrel"})
      /\ WriteAnswered(c, x).wr = c.wr - 1
      /\ WriteAnswered(c, x).wrel = x
  BY DEF WriteAnswered
<1> HIDE DEF SameBut
<1> QED BY <1>1, <1>2, <1>3, <1>4

(* The read side and "data" are the business of the read callbacks only. *)
SameReading(c, d) == d.rd = c.rd /\ d.data = c.data

LEMMA ReadingKept ==
  ASSUME NEW S, NEW c \in Call(S), NEW x
  PROVE  /\ SameReading(c, TryCancel(c)) /\ SameReading(c, StartWrite(c))
         /\ SameReading(c, RemoveHold(c)) /\ SameReading(c, Finish(c))
         /\ SameReading(c, ReadReturns(c)) /\ SameReading(c, WriteReturns(c))
         /\ SameReading(c, WriteAnswered(c, x))
<1> USE DEF Call, SameReading
<1>1. SameReading(c, TryCancel(c)) /\ SameReading(c, StartWrite(c))
  BY DEF TryCancel, StartWrite
<1>2. SameReading(c, RemoveHold(c)) /\ SameReading(c, Finish(c))
  BY DEF RemoveHold, Finish
<1>3. SameReading(c, ReadReturns(c)) /\ SameReading(c, WriteReturns(c))
  BY DEF ReadReturns, WriteReturns
<1>4. SameReading(c, WriteAnswered(c, x))
  BY DEF WriteAnswered
<1> QED BY <1>1, <1>2, <1>3, <1>4

LEMMA DataFields ==
  ASSUME NEW S, NEW c \in Call(S), NEW x
  PROVE  /\ NewCall.data = FALSE
         /\ StartCall(c, 1).data = c.data
         /\ ReadMessage(c, x).data = TRUE
         /\ ReadGoesOn(c, x).data = c.data
         /\ ReadClosed(c, x).data = c.data
<1> USE DEF Call
<1>1. NewCall.data = FALSE /\ StartCall(c, 1).data = c.data
  BY DEF NewCall, StartCall
<1>2. ReadMessage(c, x).data = TRUE /\ ReadGoesOn(c, x).data = c.data
  BY DEF ReadMessage, ReadGoesOn
<1>3. ReadClosed(c, x).data = c.data
  BY DEF ReadClosed
<1> QED BY <1>1, <1>2, <1>3
-----------------------------------------------------------------------------
(* A non-empty set of numbers below a bound has a greatest element. *)
LEMMA MaxExists ==
  ASSUME NEW n \in Nat, NEW I \in SUBSET (1..n), I # {}
  PROVE  \E i \in I : \A j \in I : ~(j > i)
<1> DEFINE Above(i) == {j \in I : j > i}
           T == {Above(i) : i \in I}
<1>0. I \subseteq Int
  OBVIOUS
<1>1. IsFiniteSet(I)
  <2>1. IsFiniteSet(1..n)
    BY FS_Interval
  <2> QED BY Zenon, <2>1, FS_Subset
<1>2. \A i \in I : Above(i) \in FiniteSubsetsOf(I)
  BY <1>1, FS_Subset DEF FiniteSubsetsOf
<1>3. T \subseteq FiniteSubsetsOf(I) /\ T # {}
  BY Zenon, <1>2
<1>4. PICK x \in T : \A y \in T : ~(<<y, x>> \in StrictSubsetOrdering(I))
  <2> HIDE DEF T
  <2> QED BY <1>3, FS_StrictSubsetOrderingWellFounded, WFMin
<1>5. PICK i \in I : x = Above(i)
  BY <1>4
<1>6. ASSUME NEW j \in I, j > i PROVE FALSE
  <2>1. Above(j) \in T
    OBVIOUS
  <2>2. Above(j) \subseteq Above(i) /\ j \in Above(i) /\ j \notin Above(j)
    <3>1. \A m \in I : m > j => m > i
      BY <1>0, <1>6
    <3>2. ~(j > j)
      BY <1>0
    <3> QED BY <1>6, <3>1, <3>2, Zenon
  <2>3. <<Above(j), Above(i)>> \in StrictSubsetOrdering(I)
    BY <2>2 DEF StrictSubsetOrdering
  <2> QED BY Zenon, <1>4, <1>5, <2>1, <2>3
<1> QED BY <1>6

-----------------------------------------------------------------------------
(* keys_of() yields keys, one per instrument at most. *)
LEMMA KeysOfType ==
  ASSUME NEW r \in Request
  PROVE  /\ keys_of(r) \in Seq(Key)
         /\ DOMAIN keys_of(r) = 1..Len(keys_of(r))
         /\ DOMAIN keys_of(r) \subseteq DOMAIN r.instruments
         /\ Range(keys_of(r)) \subseteq Key
<1>1. CASE r.payload \in Targeted
  <2>1. \A i \in DOMAIN r.instruments : r.instruments[i] \in Instrument
    BY DEF Request
  <2>2. \A i \in DOMAIN r.instruments : KeyOf(r.payload, r.instruments[i]) \in Key
    BY <1>1, <2>1 DEF KeyOf, id_of, Instrument, Key
  <2>3. keys_of(r) = [i \in 1..Len(r.instruments) |->
                        KeyOf(r.payload, r.instruments[i])]
    BY <1>1 DEF keys_of, Request
  <2>4. DOMAIN r.instruments = 1..Len(r.instruments) /\ Len(r.instruments) \in Nat
    BY DEF Request
  <2>5. keys_of(r) \in Seq(Key) /\ Len(keys_of(r)) = Len(r.instruments)
    BY <2>2, <2>3, <2>4
  <2> QED BY <2>2, <2>3, <2>4, <2>5 DEF Range
<1>2. CASE r.payload \notin Targeted
  BY <1>2 DEF keys_of, Range
<1> QED BY <1>1, <1>2

(* LastIndex() finds the position that remember_locked() stores last. *)
LEMMA LastIndexIn ==
  ASSUME NEW r \in Request, NEW k \in Range(keys_of(r))
  PROVE  /\ LastIndex(r, k) \in DOMAIN keys_of(r)
         /\ keys_of(r)[LastIndex(r, k)] = k
<1> DEFINE ks == keys_of(r)
           I == {i \in DOMAIN ks : ks[i] = k}
<1>1. DOMAIN ks = 1..Len(ks) /\ Len(ks) \in Nat
  BY KeysOfType
<1>2. I \in SUBSET (1..Len(ks)) /\ I # {}
  BY <1>1 DEF Range
<1>3. PICK i \in I : \A j \in I : ~(j > i)
  <2> HIDE DEF I
  <2> QED BY Zenon, <1>1, <1>2, MaxExists
<1>4. /\ i \in DOMAIN ks /\ ks[i] = k
      /\ \A j \in DOMAIN ks : j > i => ks[j] # k
  BY <1>3
<1> QED BY <1>4 DEF LastIndex

(* single() is a request for the one target it was made from. *)
LEMMA SingleRequest ==
  ASSUME NEW r \in Request, NEW i \in DOMAIN keys_of(r)
  PROVE  /\ single(r, i) \in Request
         /\ action_of(single(r, i)) = action_of(r)
         /\ keys_of(single(r, i)) = <<keys_of(r)[i]>>
<1>1. i \in DOMAIN r.instruments /\ r.instruments[i] \in Instrument
  BY KeysOfType DEF Request
<1>2. /\ single(r, i) \in Request
      /\ single(r, i).payload = r.payload
      /\ single(r, i).action = r.action
      /\ single(r, i).instruments = <<r.instruments[i]>>
  <2>1. <<r.instruments[i]>> \in Seq(Instrument)
    BY <1>1
  <2> DEFINE insts == <<r.instruments[i]>>
  <2>2. single(r, i) = [r EXCEPT !.instruments = insts]
    BY DEF single
  <2>3. insts \in Seq(Instrument)
    BY <2>1
  <2> HIDE DEF insts
  <2>4. /\ single(r, i) \in Request
        /\ single(r, i).payload = r.payload
        /\ single(r, i).action = r.action
        /\ single(r, i).instruments = insts
    BY <2>2, <2>3 DEF Request
  <2> QED BY <2>4 DEF insts
<1>3. r.payload \in Targeted
  BY DEF keys_of
<1>4. keys_of(r)[i] = KeyOf(r.payload, r.instruments[i])
  BY <1>1, <1>3 DEF keys_of
<1>5. keys_of(single(r, i)) = [j \in {1} |-> KeyOf(r.payload, r.instruments[i])]
  BY <1>2, <1>3 DEF keys_of
<1>6. [j \in {1} |-> KeyOf(r.payload, r.instruments[i])]
        = <<KeyOf(r.payload, r.instruments[i])>>
  OBVIOUS
<1> QED BY <1>2, <1>4, <1>5, <1>6 DEF action_of

-----------------------------------------------------------------------------
(* Every entry of a registry is a request for its own key, which replayed  *)
(* gives back the entry.                                                   *)
WellKeyed(t) ==
  \A k \in DOMAIN t : Touched(t[k]) = {k} /\ Effect(t[k], k) = t[k]

(* What remember_locked() stores under a key is such an entry. *)
LEMMA EntryWellKeyed ==
  ASSUME NEW r \in Request, NEW k \in Range(keys_of(r)),
         action_of(r) = "SUBSCRIBE",
         NEW e, e = single(r, LastIndex(r, k))
  PROVE  e \in Request /\ Touched(e) = {k} /\ Effect(e, k) = e
<1>1. LastIndex(r, k) \in DOMAIN keys_of(r) /\ keys_of(r)[LastIndex(r, k)] = k
  BY LastIndexIn
<1>2. e \in Request /\ action_of(e) = "SUBSCRIBE" /\ keys_of(e) = <<k>>
  BY <1>1, SingleRequest
<1>3. Range(keys_of(e)) = {k}
  BY <1>2 DEF Range
<1>4. Touched(e) = {k}
  BY <1>2, <1>3 DEF Touched
<1>5. LastIndex(e, k) = 1
  <2>1. LastIndex(e, k) \in DOMAIN keys_of(e)
    BY <1>2, <1>3, LastIndexIn
  <2>2. DOMAIN keys_of(e) = {1}
    BY <1>2
  <2> QED BY <2>1, <2>2
<1>6. single(e, 1) = e
  <2>1. e.instruments = <<r.instruments[LastIndex(r, k)]>>
    <3> DEFINE i == LastIndex(r, k)
    <3>1. r \in [payload : Payloads, action : Actions,
                 options : Options \cup {NoOptions},
                 instruments : Seq(Instrument)]
      BY DEF Request
    <3> QED BY <3>1 DEF single
  <2>2. e.instruments[1] = r.instruments[LastIndex(r, k)]
    BY <2>1
  <2>3. <<e.instruments[1]>> = e.instruments
    BY <2>1, <2>2
  <2>4. [e EXCEPT !.instruments = e.instruments] = e
    BY <1>2 DEF Request
  <2> QED BY <2>3, <2>4 DEF single
<1>7. Effect(e, k) = single(e, LastIndex(e, k))
  BY <1>2 DEF Effect
<1> QED BY <1>2, <1>4, <1>5, <1>6, <1>7

(* What a request leaves under a key that it names, and under the others. *)
LEMMA ApplyLookup ==
  ASSUME NEW t, NEW r \in Request, NEW k
  PROVE  Lookup(Apply(t, r), k) =
           IF k \in Touched(r) THEN Effect(r, k) ELSE Lookup(t, k)
<1>1. CASE action_of(r) = "SUBSCRIBE"
  BY <1>1 DEF Lookup, Apply, remember_locked, Touched, Effect
<1>2. CASE action_of(r) = "UNSUBSCRIBE"
  BY <1>2 DEF Lookup, Apply, forget_locked, Restrict, Touched, Effect
<1>3. CASE action_of(r) \notin {"SUBSCRIBE", "UNSUBSCRIBE"}
  BY <1>3 DEF Lookup, Apply, Touched
<1> QED BY <1>1, <1>2, <1>3

(* The keys of a request are finitely many. *)
LEMMA KeysFinite ==
  ASSUME NEW r \in Request
  PROVE  IsFiniteSet(Range(keys_of(r)))
<1> DEFINE n == Len(keys_of(r))
<1>1. n \in Nat /\ DOMAIN keys_of(r) = 1..n /\ keys_of(r) \in [1..n -> Range(keys_of(r))]
  BY KeysOfType DEF Range
<1>2. IsFiniteSet(1..n)
  BY <1>1, FS_Interval
<1>3. keys_of(r) \in Surjection(1..n, Range(keys_of(r)))
  BY <1>1 DEF Surjection, Range
<1> QED BY <1>2, <1>3, FS_Surjection

(* send() keeps the registry a finite table whose entries are well keyed. *)
LEMMA ApplyTable ==
  ASSUME NEW t, IsTable(t), NEW r \in Request
  PROVE  /\ IsTable(Apply(t, r))
         /\ WellKeyed(t) => WellKeyed(Apply(t, r))
<1> DEFINE ks == Range(keys_of(r))
<1>1. ks \subseteq Key /\ IsFiniteSet(ks)
  BY KeysOfType, KeysFinite
<1>2. CASE action_of(r) = "SUBSCRIBE"
  <2> DEFINE D == DOMAIN t \cup ks
             E(k) == IF k \in ks THEN single(r, LastIndex(r, k)) ELSE t[k]
  <2>1. Apply(t, r) = [k \in D |-> E(k)]
    BY <1>2 DEF Apply, remember_locked
  <2>2. \A k \in ks : /\ E(k) \in Request /\ Touched(E(k)) = {k}
                      /\ Effect(E(k), k) = E(k)
    BY <1>2, EntryWellKeyed
  <2>3. \A k \in D : E(k) \in Request
    BY <2>2 DEF IsTable
  <2>4. D \subseteq Key /\ IsFiniteSet(D)
    BY Zenon, <1>1, FS_Union DEF IsTable
  <2>5. WellKeyed(t) =>
          \A k \in D : Touched(E(k)) = {k} /\ Effect(E(k), k) = E(k)
    BY <2>2 DEF WellKeyed
  <2> HIDE DEF D, E
  <2> QED BY <2>1, <2>3, <2>4, <2>5 DEF IsTable, WellKeyed
<1>3. CASE action_of(r) = "UNSUBSCRIBE"
  <2>1. Apply(t, r) = [k \in DOMAIN t \ ks |-> t[k]]
    BY <1>3 DEF Apply, forget_locked, Restrict
  <2>2. IsFiniteSet(DOMAIN t \ ks)
    BY Zenon, FS_Difference DEF IsTable
  <2> HIDE DEF ks
  <2> QED BY <2>1, <2>2 DEF IsTable, WellKeyed
<1>4. CASE action_of(r) \notin {"SUBSCRIBE", "UNSUBSCRIBE"}
  BY <1>4 DEF Apply
<1> QED BY <1>2, <1>3, <1>4

LEMMA EmptyTableFacts ==
  /\ IsTable(EmptyTable)
  /\ WellKeyed(EmptyTable)
  /\ \A k : Lookup(EmptyTable, k) = NoRequest
BY FS_EmptySet DEF IsTable, WellKeyed, EmptyTable, Lookup

-----------------------------------------------------------------------------
(* Replaying a registry on an empty server gives the registry: every       *)
(* request in the queue is the entry of the one key that it touches, and   *)
(* a key that no request touches is not registered.                        *)
LEMMA ReplayFacts ==
  ASSUME NEW t, IsTable(t), NEW q \in ReplayQueues(t)
  PROVE  /\ q \in Seq(Request)
         /\ WellKeyed(t) =>
              \A k : /\ \A i \in DOMAIN q :
                          k \in Touched(q[i]) => Effect(q[i], k) = Lookup(t, k)
                     /\ (\A i \in DOMAIN q : k \notin Touched(q[i])) =>
                          Lookup(t, k) = NoRequest
<1> DEFINE n == Cardinality(DOMAIN t)
<1>1. n \in Nat
  BY FS_CardinalityType DEF IsTable
<1>2. PICK p \in Bijection(1..n, DOMAIN t) : q = [i \in DOMAIN p |-> t[p[i]]]
  BY DEF ReplayQueues
<1>3. /\ p \in [1..n -> DOMAIN t]
      /\ \A k \in DOMAIN t : \E i \in 1..n : p[i] = k
  BY <1>2 DEF Bijection, Surjection
<1>4. q = [i \in 1..n |-> t[p[i]]]
  BY <1>2, <1>3
<1> HIDE DEF n
<1>5. q \in Seq(Request)
  <2>1. \A i \in 1..n : t[p[i]] \in Request
    BY <1>3 DEF IsTable
  <2> QED BY <1>1, <1>4, <2>1
<1>6. ASSUME WellKeyed(t), NEW k, NEW i \in DOMAIN q, k \in Touched(q[i])
      PROVE  Effect(q[i], k) = Lookup(t, k)
  BY <1>3, <1>4, <1>6 DEF WellKeyed, Lookup
<1>7. ASSUME WellKeyed(t), NEW k, \A i \in DOMAIN q : k \notin Touched(q[i])
      PROVE  Lookup(t, k) = NoRequest
  BY <1>3, <1>4, <1>7 DEF WellKeyed, Lookup
<1> QED BY <1>5, <1>6, <1>7

(* Most leaves below are first-order; the ones that need arithmetic cite   *)
(* SMT.                                                                    *)
USE Zenon

-----------------------------------------------------------------------------
(* What a queue brings a server to *)

(* What queue q adds to table s brings the entry of k to what t says. *)
Tracks(q, s, t, k) ==
  /\ \A i \in DOMAIN q : LastTouch(q, k, i) => Effect(q[i], k) = Lookup(t, k)
  /\ (\A i \in DOMAIN q : k \notin Touched(q[i])) => Lookup(s, k) = Lookup(t, k)

(* A request is queued, and the registry follows it. *)
LEMMA TracksAppend ==
  ASSUME NEW q \in Seq(Request), NEW r \in Request, NEW s, NEW t, NEW t2, NEW k,
         IF k \in Touched(r) THEN Lookup(t2, k) = Effect(r, k)
         ELSE Tracks(q, s, t, k) /\ Lookup(t2, k) = Lookup(t, k)
  PROVE  Tracks(Append(q, r), s, t2, k)
<1>1. PICK n \in Nat : n = Len(q) /\ DOMAIN q = 1..n
  BY SMT
<1>2. PICK p : p = Append(q, r)
  OBVIOUS
<1>3. DOMAIN p = 1..(n + 1) /\ p[n + 1] = r /\ \A i \in 1..n : p[i] = q[i]
  BY <1>1, <1>2, SMT
<1>4. n + 1 \in DOMAIN p /\ \A i \in 1..n : i \in DOMAIN p /\ n + 1 > i
  BY <1>3, SMT
<1>5. \A i \in DOMAIN p : i \in 1..n \/ i = n + 1
  BY <1>3, SMT
<1>6. CASE k \in Touched(r)
  <2>1. ASSUME NEW i \in DOMAIN p, LastTouch(p, k, i) PROVE Effect(p[i], k) = Lookup(t2, k)
    <3>1. i = n + 1
      BY <1>3, <1>4, <1>5, <1>6, <2>1 DEF LastTouch
    <3> QED BY <1>3, <1>6, <3>1
  <2> QED BY <1>2, <1>3, <1>4, <1>6, <2>1 DEF Tracks
<1>7. CASE k \notin Touched(r)
  <2>1. Tracks(q, s, t, k) /\ Lookup(t2, k) = Lookup(t, k)
    BY <1>7
  <2>2. ASSUME NEW i \in DOMAIN p, LastTouch(p, k, i) PROVE Effect(p[i], k) = Lookup(t2, k)
    <3>1. k \in Touched(p[i]) /\ \A j \in DOMAIN p : j > i => k \notin Touched(p[j])
      BY <2>2 DEF LastTouch
    <3>2. i \in 1..n
      BY <1>3, <1>5, <1>7, <3>1
    <3>3. LastTouch(q, k, i)
      BY <1>1, <1>3, <1>4, <3>1, <3>2 DEF LastTouch
    <3> QED BY <1>1, <1>3, <2>1, <3>2, <3>3 DEF Tracks
  <2>3. ASSUME \A i \in DOMAIN p : k \notin Touched(p[i]) PROVE Lookup(s, k) = Lookup(t2, k)
    BY <1>1, <1>3, <1>4, <2>1, <2>3 DEF Tracks
  <2> QED BY <1>2, <2>2, <2>3 DEF Tracks
<1> QED BY <1>6, <1>7

(* The first request of the queue is written. *)
LEMMA TracksTail ==
  ASSUME NEW q \in Seq(Request), q # <<>>, NEW s, NEW t, NEW k, Tracks(q, s, t, k)
  PROVE  Tracks(Tail(q), Apply(s, Head(q)), t, k)
<1>1. PICK n \in Nat : n = Len(q) /\ n > 0 /\ DOMAIN q = 1..n /\ Head(q) = q[1]
                       /\ q[1] \in Request
  BY SMT
<1>2. PICK p : p = Tail(q)
  OBVIOUS
<1>3. DOMAIN p = 1..(n - 1) /\ \A i \in 1..(n - 1) : p[i] = q[i + 1]
  BY <1>1, <1>2, SMT
<1>4. /\ \A i \in 1..(n - 1) : i + 1 \in 1..n
      /\ \A i \in 1..(n - 1), j \in 1..n : j > i + 1 => j - 1 \in 1..(n - 1) /\ j - 1 > i
                                                       /\ j - 1 + 1 = j
      /\ 1 \in 1..n /\ \A j \in 1..n : j > 1 => j - 1 \in 1..(n - 1) /\ j - 1 + 1 = j
      /\ \A j \in 1..n : j # 1 => j > 1
  BY <1>1, SMT
<1>5. ASSUME NEW i \in DOMAIN p, LastTouch(p, k, i) PROVE Effect(p[i], k) = Lookup(t, k)
  <2>1. i \in 1..(n - 1) /\ i + 1 \in 1..n /\ p[i] = q[i + 1]
    BY <1>3, <1>4
  <2>2. k \in Touched(q[i + 1])
    BY <1>5, <2>1 DEF LastTouch
  <2>3. ASSUME NEW j \in 1..n, j > i + 1 PROVE k \notin Touched(q[j])
    <3>1. j - 1 \in 1..(n - 1) /\ j - 1 > i /\ q[j] = p[j - 1]
      BY <1>3, <1>4, <2>1, <2>3
    <3> QED BY <1>3, <1>5, <3>1 DEF LastTouch
  <2>4. LastTouch(q, k, i + 1)
    BY <1>1, <2>2, <2>3 DEF LastTouch
  <2> QED BY <1>1, <2>1, <2>4 DEF Tracks
<1>6. ASSUME \A i \in DOMAIN p : k \notin Touched(p[i])
      PROVE  Lookup(Apply(s, q[1]), k) = Lookup(t, k)
  <2>1. \A j \in 1..n : j > 1 => k \notin Touched(q[j])
    BY <1>3, <1>4, <1>6
  <2>2. Lookup(Apply(s, q[1]), k) =
          IF k \in Touched(q[1]) THEN Effect(q[1], k) ELSE Lookup(s, k)
    BY <1>1, ApplyLookup
  <2>3. CASE k \in Touched(q[1])
    <3>1. LastTouch(q, k, 1)
      BY <1>1, <2>1, <2>3 DEF LastTouch
    <3> QED BY <1>1, <1>4, <2>2, <2>3, <3>1 DEF Tracks
  <2>4. CASE k \notin Touched(q[1])
    <3>1. \A j \in 1..n : k \notin Touched(q[j])
      BY <1>4, <2>1, <2>4
    <3> QED BY <1>1, <2>2, <2>4, <3>1 DEF Tracks
  <2> QED BY <2>3, <2>4
<1> QED BY <1>1, <1>2, <1>5, <1>6 DEF Tracks

-----------------------------------------------------------------------------
(* The delay before a reconnect *)

(* The delay is within its bounds for every exponent. *)
LEMMA BackoffType ==
  ASSUME NEW n \in 0..MaxShift
  PROVE  /\ Backoff(n) \in 0..max_backoff
         /\ NextAttempt(n) \in 0..MaxShift
<1>1. PowersOfTwo[n + 1] \in Nat
  BY SMT, BackoffAssumption DEF PowersOfTwo
<1> HIDE DEF PowersOfTwo
<1>2. initial_backoff * PowersOfTwo[n + 1] \in Nat
  BY SMT, <1>1, BackoffAssumption
<1>3. Backoff(n) \in 0..max_backoff
  <2> DEFINE d == initial_backoff * PowersOfTwo[n + 1]
  <2>1. d \in Nat BY <1>2
  <2>2. Backoff(n) = IF d > max_backoff THEN max_backoff ELSE d
    BY DEF Backoff
  <2> HIDE DEF d
  <2> QED BY SMT, <2>1, <2>2, BackoffAssumption
<1> QED BY SMT, <1>3, BackoffAssumption DEF NextAttempt

LEMMA PowerFacts ==
  /\ \A i \in 0..8 : PowersOfTwo[i + 1] \in Nat \ {0}
  /\ \A i \in 1..8 : PowersOfTwo[i + 1] = 2 * PowersOfTwo[i]
  /\ \A i, j \in 0..8 : i <= j => PowersOfTwo[i + 1] <= PowersOfTwo[j + 1]
<1>1. /\ PowersOfTwo[1] = 1 /\ PowersOfTwo[2] = 2 /\ PowersOfTwo[3] = 4
      /\ PowersOfTwo[4] = 8 /\ PowersOfTwo[5] = 16 /\ PowersOfTwo[6] = 32
      /\ PowersOfTwo[7] = 64 /\ PowersOfTwo[8] = 128 /\ PowersOfTwo[9] = 256
  BY SMT DEF PowersOfTwo
<1>2. ASSUME NEW i \in 0..8 PROVE PowersOfTwo[i + 1] \in Nat \ {0}
  BY SMT, <1>1
<1>3. ASSUME NEW i \in 1..8 PROVE PowersOfTwo[i + 1] = 2 * PowersOfTwo[i]
  BY SMT, <1>1
<1>4. ASSUME NEW i \in 0..8, NEW j \in 0..8, i <= j
      PROVE  PowersOfTwo[i + 1] <= PowersOfTwo[j + 1]
  BY SMT, <1>1, <1>4
<1> QED BY <1>2, <1>3, <1>4

LEMMA TimesMonotone ==
  ASSUME NEW a \in Nat, NEW p \in Nat, NEW q \in Nat, p <= q
  PROVE  a * p <= a * q
BY SMT

LEMMA TimesDouble ==
  ASSUME NEW a \in Nat, NEW p \in Nat
  PROVE  a * p \in Nat /\ a * (2 * p) = 2 * (a * p)
BY SMT

(* One more failure makes the delay longer, or the longest it can be. *)
LEMMA BackoffSteps ==
  ASSUME NEW n \in 0..MaxShift
  PROVE  /\ n > 0 => Backoff(n) > Backoff(n - 1) \/ Backoff(n) = Backoff(MaxShift)
         /\ Backoff(0) > 0 \/ Backoff(0) = Backoff(MaxShift)
<1> DEFINE D(i) == initial_backoff * PowersOfTwo[i + 1]
<1>a. /\ initial_backoff \in Nat /\ max_backoff \in Nat
      /\ MaxShift \in 0..8 /\ n \in 0..8 /\ n <= MaxShift /\ 0 \in 0..8
  BY SMT, BackoffAssumption
<1>1. ASSUME NEW i \in 0..8 PROVE D(i) \in Nat
  BY <1>a, PowerFacts, SMT
<1>2. ASSUME NEW i \in 0..8, i <= MaxShift PROVE D(i) <= D(MaxShift)
  <2>1. PowersOfTwo[i + 1] \in Nat /\ PowersOfTwo[MaxShift + 1] \in Nat
        /\ PowersOfTwo[i + 1] <= PowersOfTwo[MaxShift + 1]
    BY <1>a, <1>2, PowerFacts, SMT
  <2> QED BY <1>a, <2>1, TimesMonotone
<1>3. ASSUME n > 0 PROVE D(n) = 2 * D(n - 1) /\ n - 1 \in 0..8
  <2>1. n \in 1..8 /\ n - 1 + 1 = n /\ n - 1 \in 0..8
    BY <1>a, <1>3, SMT
  <2>2. PowersOfTwo[n] \in Nat /\ PowersOfTwo[n + 1] = 2 * PowersOfTwo[n]
    BY <2>1, PowerFacts, SMT
  <2>3. initial_backoff * (2 * PowersOfTwo[n]) = 2 * (initial_backoff * PowersOfTwo[n])
    BY <1>a, <2>2, TimesDouble
  <2> QED BY <2>1, <2>2, <2>3
<1>4. \A i : Backoff(i) = IF D(i) > max_backoff THEN max_backoff ELSE D(i)
  BY DEF Backoff
<1>5. D(0) = 0 => initial_backoff = 0
  BY <1>a, SMT DEF PowersOfTwo
<1>6. initial_backoff = 0 => \A i \in 0..8 : D(i) = 0
  BY <1>a, PowerFacts, SMT
<1>7. \A i \in 0..8 : i > 0 => D(i) >= D(0)
  <2>1. ASSUME NEW i \in 0..8 PROVE D(0) <= D(i)
    <3>1. PowersOfTwo[0 + 1] \in Nat /\ PowersOfTwo[i + 1] \in Nat
          /\ PowersOfTwo[0 + 1] <= PowersOfTwo[i + 1]
      BY <1>a, PowerFacts, SMT
    <3> QED BY <1>a, <3>1, TimesMonotone
  <2> QED BY <1>1, <1>a, <2>1, SMT
<1> HIDE DEF D
<1>8. ASSUME n > 0
      PROVE  Backoff(n) > Backoff(n - 1) \/ Backoff(n) = Backoff(MaxShift)
  <2>1. /\ D(n) \in Nat /\ D(n - 1) \in Nat /\ D(MaxShift) \in Nat /\ D(0) \in Nat
        /\ D(n) <= D(MaxShift) /\ D(n) = 2 * D(n - 1)
    BY <1>1, <1>2, <1>3, <1>8, <1>a
  <2>2. CASE D(n - 1) = 0
    <3>1. D(n) = 0
      BY <2>1, <2>2, SMT
    <3>2. D(0) = 0
      BY <1>7, <1>8, <1>a, <2>1, <3>1, SMT
    <3>3. D(MaxShift) = 0
      BY <1>5, <1>6, <1>a, <3>2
    <3> QED BY <1>4, <1>a, <3>1, <3>3
  <2>3. CASE D(n - 1) # 0
    BY <1>4, <1>a, <2>1, <2>3, SMT
  <2> QED BY <2>2, <2>3
<1>9. Backoff(0) > 0 \/ Backoff(0) = Backoff(MaxShift)
  <2>1. D(0) \in Nat /\ D(MaxShift) \in Nat /\ D(0) <= D(MaxShift)
    BY <1>1, <1>2, <1>a, SMT
  <2>2. CASE D(0) = 0
    BY <1>4, <1>5, <1>6, <1>a, <2>2
  <2>3. CASE D(0) # 0
    BY <1>4, <1>a, <2>1, <2>3, SMT
  <2> QED BY <2>2, <2>3
<1> QED BY <1>8, <1>9
=============================================================================
