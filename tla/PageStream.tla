----------------------------- MODULE PageStream -----------------------------
(* What an exchange promises, whatever carries the data: each destination  *)
(* receives what was sent to it in the order it was sent, without loss or  *)
(* duplication, until its consumer gives up.  A consumer that is told of   *)
(* the end has received everything, and nothing is sent to it afterwards.  *)
EXTENDS Naturals, Sequences

CONSTANTS Destinations, Items

VARIABLES sent,       \* [Destinations -> Seq(Items)]
          received,   \* [Destinations -> Seq(Items)]
          state       \* [Destinations -> {"open", "ended", "closed"}]

vars == <<sent, received, state>>

Init ==
    /\ sent = [d \in Destinations |-> <<>>]
    /\ received = [d \in Destinations |-> <<>>]
    /\ state = [d \in Destinations |-> "open"]

(* Items are sent to some of the destinations that have not ended.         *)
Send ==
    /\ sent' \in [Destinations -> Seq(Items)]
    /\ \A d \in Destinations :
          /\ \E n \in 0..Len(sent'[d]) : sent[d] = SubSeq(sent'[d], 1, n)
          /\ sent'[d] # sent[d] => state[d] = "open"
    /\ UNCHANGED <<received, state>>

(* A destination receives items it has not seen; it may be told with the   *)
(* last one, or later, that there are no more.                             *)
Receive(d) ==
    /\ \E n \in Len(received[d]) .. Len(sent[d]) :
          received' = [received EXCEPT ![d] = SubSeq(sent[d], 1, n)]
    /\ \/ UNCHANGED state
       \/ /\ state[d] = "open" /\ received'[d] = sent[d]
          /\ state' = [state EXCEPT ![d] = "ended"]
    /\ UNCHANGED sent

(* The consumer gives up, or leaves after the end.                         *)
Close(d) ==
    /\ state[d] # "closed"
    /\ state' = [state EXCEPT ![d] = "closed"]
    /\ UNCHANGED <<sent, received>>

Next ==
    \/ Send
    \/ \E d \in Destinations : Receive(d) \/ Close(d)

Spec == Init /\ [][Next]_vars
=============================================================================
