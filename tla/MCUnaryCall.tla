---------------------------- MODULE MCUnaryCall -----------------------------
(***************************************************************************)
(* Instances of UnaryCall for TLC.                                         *)
(***************************************************************************)
EXTENDS UnaryCall, TLC

CONSTANTS tariff, post  \* GetUserTariff and PostOrder

(* Names with a leading slash, as the API reports them: one group for both *)
(* methods, and a limited and an unlimited group with the orders in both.  *)
MCTariffs ==
  {<<[limit |-> 1, methods |-> {<<1, tariff>>, <<1, post>>}]>>,
   <<[limit |-> 0, methods |-> {<<1, tariff>>, <<0, post>>}],
     [limit |-> 2, methods |-> {<<1, post>>}]>>}

MCOneTariff == {<<[limit |-> 1, methods |-> {<<1, post>>}]>>}

MCMethodSets == {{<<0, post>>}}

(* Success, the two transient errors (the first with a reset that is just  *)
(* near enough to wait for and one too far away) and a final error.        *)
MCAnswers ==
  {[code |-> "OK", reset |-> -1], [code |-> "OTHER", reset |-> -1],
   [code |-> "UNAVAILABLE", reset |-> -1],
   [code |-> "RESOURCE_EXHAUSTED", reset |-> 64],
   [code |-> "RESOURCE_EXHAUSTED", reset |-> 65]}

(* Success, and the first error without the header. *)
MCFewAnswers ==
  {[code |-> "OK", reset |-> -1], [code |-> "RESOURCE_EXHAUSTED", reset |-> -1]}

Symmetry ==
  Permutations(Threads) \cup Permutations(Groups) \cup Permutations(AsyncCalls)
=============================================================================
