--------------------------- MODULE MCLocalExchange --------------------------
(* Instances of LocalExchange for model checking.                          *)
EXTENDS LocalExchange

(* A pass-through input and one that is split over both partitions.        *)
TwoInputs ==
    { [total |-> 2, single |-> TRUE, rows |-> <<1, 0>>],
      [total |-> 3, single |-> FALSE, rows |-> <<1, 1>>] }

(* The sizes of the inputs of a gather; no bytes at all is one of them.    *)
GatherInputs ==
    { [total |-> t, single |-> TRUE, rows |-> <<1>>] : t \in {0, 1, 2} }

MCExchanges ==
    { [producers |-> 2, partitions |-> 2, inputs |-> TwoInputs, maxInputs |-> 1,
       early |-> {1}],
      [producers |-> 1, partitions |-> 2, inputs |-> TwoInputs, maxInputs |-> 2,
       early |-> {1, 2}],
      [producers |-> 2, partitions |-> 1, inputs |-> GatherInputs, maxInputs |-> 2,
       early |-> {1}] }
=============================================================================
