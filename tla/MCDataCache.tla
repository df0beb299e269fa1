---------------------------- MODULE MCDataCache ----------------------------
(* Instances of DataCache for TLC                                          *)
EXTENDS DataCache

CONSTANTS a, b

Get(how, k, size) == [how |-> how, key |-> k, size |-> size]

Plan(pages, x, y) == [pages |-> pages, asks |-> a :> x @@ b :> y]

(* Two readers of a file, then one with a larger load quantum; a reader    *)
(* and a query that needs the memory of the cache; a coalesced load by a   *)
(* reader and by an executor, with memory for all the entries and without; *)
(* a reader for whom the entries of the load are too small                 *)
MCPlans ==
    { Plan(1, <<Get("sync", 1, Tiny), Get("sync", 1, Large)>>,
              <<Get("sync", 1, Large), Get("sync", 2, Large)>>),
      Plan(2, <<Get("sync", 1, Large), Get("sync", 1, Larger)>>, <<Get("sync", 1, Large)>>),
      Plan(1, <<Get("sync", 1, Large)>>, <<Get("memory", 1, Large), Get("sync", 2, Large)>>),
      Plan(2, <<Get("coalesced", 1, Large)>>, <<Get("prefetch", 1, Large)>>),
      Plan(1, <<Get("coalesced", 1, Large)>>, <<Get("prefetch", 1, Large)>>),
      Plan(2, <<Get("coalesced", 1, Large)>>, <<Get("coalesced", 2, Larger)>>) }
==============================================================================
