----------------------------- MODULE MCHashJoin -----------------------------
(* Joins for model checking.                                               *)
EXTENDS HashJoin, TLC

CONSTANTS b1, b2, p1, p2

K00 == <<0, 0>>
K01 == <<0, 1>>
K10 == <<1, 0>>

Join(kind, spill, early, abort, reclaimed, B1, B2, P1, P2) ==
    [kind |-> kind, spill |-> spill, early |-> early, abort |-> abort,
     reclaims |-> reclaimed, build |-> b1 :> B1 @@ b2 :> B2,
     probe |-> p1 :> P1 @@ p2 :> P2]

MCJoins ==
    {Join("right", TRUE, TRUE, FALSE, 3, <<K00, K01>>, <<K00, K10>>, <<K10, K01>>, <<K00>>),
     Join("right", FALSE, TRUE, FALSE, 0, <<K00>>, <<K01>>, <<K10>>, <<K00>>),
     Join("inner", TRUE, FALSE, FALSE, 1, <<>>, <<>>, <<K10>>, <<K00>>),
     Join("inner", TRUE, TRUE, TRUE, 1, <<K00>>, <<Null>>, <<K00>>, <<K10>>),
     Join("anti", TRUE, TRUE, FALSE, 2, <<K00>>, <<K10>>, <<K00>>, <<K01>>),
     Join("anti", TRUE, TRUE, FALSE, 1, <<K00, K01>>, <<Null>>, <<K00>>, <<K01>>)}
=============================================================================
