---------------------------- MODULE MCTaskDriver ----------------------------
(* Instances of TaskDriver for TLC.                                        *)
EXTENDS TaskDriver, TLC

CONSTANTS t1, t2

MCThreads == {t1, t2}
Symmetry == Permutations(MCThreads)
=============================================================================
