--------------------------- MODULE MCMergeSource ---------------------------
(* Merges and merge joins for model checking.                              *)
EXTENDS MergeSource

Case(kind, fails, limit, batches) ==
    [kind |-> kind, fails |-> fails, limit |-> limit, batches |-> batches]

Long == << <<1>>, <<3, 6>>, <<8>>, <<11>> >>
Short == << <<2, 4>>, <<5>>, <<9>> >>

MCCases ==
    {Case("merge", FALSE, FALSE, <<Long, Short, << <<7, 10>> >> >>),
     Case("merge", TRUE, FALSE, <<Long, Short>>),
     Case("merge", FALSE, TRUE, <<Long, << >> >>),
     Case("merge", FALSE, FALSE, <<Long>>),
     Case("join", FALSE, TRUE, <<Long>>),
     Case("join", TRUE, FALSE, <<Short>>)}
============================================================================
