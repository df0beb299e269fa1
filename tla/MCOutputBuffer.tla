--------------------------- MODULE MCOutputBuffer ---------------------------
(* Instances of OutputBuffer for model checking.                           *)
EXTENDS OutputBuffer

(* Two consumers, one of which may stop early; messages arrive.            *)
Partitioned ==
    { [kind |-> "partitioned", first |-> 2, last |-> 2, activeCheck |-> FALSE,
       early |-> {1}, faults |-> {}, maxInFlight |-> 1] }

(* One consumer with messages that are lost, repeated and late, and a task *)
(* that may be aborted; consumers that share pages, one of which comes     *)
(* late; consumers of an arbitrary output that go away while they wait.    *)
Faulty ==
    { [kind |-> "partitioned", first |-> 1, last |-> 1, activeCheck |-> FALSE,
       early |-> {}, faults |-> {"loss", "repeat", "timeout", "abort"}, maxInFlight |-> 3],
      [kind |-> "broadcast", first |-> 1, last |-> 2, activeCheck |-> FALSE,
       early |-> {1}, faults |-> {}, maxInFlight |-> 1],
      [kind |-> "arbitrary", first |-> 1, last |-> 2, activeCheck |-> TRUE,
       early |-> {}, faults |-> {"timeout"}, maxInFlight |-> 1] }
=============================================================================
