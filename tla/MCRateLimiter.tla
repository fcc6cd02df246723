--------------------------- MODULE MCRateLimiter ----------------------------
(***************************************************************************)
(* Instances of RateLimiter for TLC.                                       *)
(***************************************************************************)
EXTENDS RateLimiter, TLC

CONSTANTS m1, m2        \* two methods

(* A tariff with a limited and an unlimited group, as the API reports it   *)
(* (leading slashes), and one that lists a method twice.                   *)
MCTariffs ==
  {<<[limit |-> 2, methods |-> {<<1, m1>>}], [limit |-> 0, methods |-> {<<1, m2>>}]>>,
   <<[limit |-> 1, methods |-> {<<0, m1>>}],
     [limit |-> 2, methods |-> {<<1, m1>>, <<1, m2>>}]>>}

MCMethodSets == {{<<0, m1>>}, {<<1, m1>>, <<0, m2>>}}

Symmetry == Permutations(Threads) \cup Permutations(Groups)
=============================================================================
