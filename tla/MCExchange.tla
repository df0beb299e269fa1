----------------------------- MODULE MCExchange -----------------------------
(* Instances of Exchange for model checking.                               *)
EXTENDS Exchange, TLC

(* The second page alone exceeds the limit of 100 queued bytes.            *)
SmallThenLarge == {<<1, 200>>}

(* Drivers that take any page, and drivers that wait for a batch of two     *)
(* bytes, with what may happen to them.                                    *)
Scenarios ==
    {[minBatch |-> 0, events |-> {"timeout"}],
     [minBatch |-> 2, events |-> {"terminate"}],
     [minBatch |-> 2, events |-> {"error", "limit"}]}

Symmetry == Permutations(RemoteTasks)
=============================================================================
