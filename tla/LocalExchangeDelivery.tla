---------------------- MODULE LocalExchangeDelivery ------------------------
(* The consumers of a local exchange get what was enqueued for them: the   *)
(* local exchange implements PageStream.                                   *)
EXTENDS LocalExchangeProofs

-----------------------------------------------------------------------------
(* The end of the producers                                                *)

(* Producer i has still to call noMoreData() on queue p                    *)
Pending(i, p) ==
    \/ ppc[i] \in Adding \cup {"run"}
    \/ ppc[i] = "noMoreData" /\ part[i] <= p
    \/ ppc[i] = "noMoreDataNotify" /\ part[i] < p

(* S has n members                                                         *)
Counts(n, S) ==
    /\ n \in Nat
    /\ \E f \in [1..n -> S] :
          /\ \A x \in S : \E k \in 1..n : f[k] = x
          /\ \A j, k \in 1..n : f[j] = f[k] => j = k

EndInv ==
    \A p \in Partitions :
        /\ Counts(pendingProducers[p], {i \in Producers : Pending(i, p)})
        /\ cpc[p] = "finished" =>
              noMoreProducers /\ pendingProducers[p] = 0 /\ queue[p] = <<>>

PendingOf(p) == {i \in Producers : Pending(i, p)}

(* No element of the empty set ..                                          *)
LEMMA CountsNone == Counts(0, {})
<1>1. [k \in 1..0 |-> k] \in [1..0 -> {}]
  OBVIOUS
<1> QED
  BY Zenon, <1>1 DEF Counts

(* .. at least one of a set with an element.                               *)
LEMMA CountsSome ==
    ASSUME NEW n, NEW S, Counts(n, S), NEW x \in S
    PROVE  n \in Nat /\ n # 0
  BY DEF Counts

(* A set that gains an element ..                                          *)
LEMMA CountsAdd ==
    ASSUME NEW n, NEW S, Counts(n, S), NEW x, x \notin S
    PROVE  Counts(n + 1, S \cup {x})
<1>1. n \in Nat
  BY Zenon DEF Counts
<1>2. PICK f \in [1..n -> S] : /\ \A y \in S : \E k \in 1..n : f[k] = y
                               /\ \A j, k \in 1..n : f[j] = f[k] => j = k
  BY Zenon DEF Counts
<1> DEFINE g == [k \in 1..(n + 1) |-> IF k = n + 1 THEN x ELSE f[k]]
<1>3. \A k \in 1..(n + 1) : k = n + 1 \/ k \in 1..n
  BY <1>1
<1>4. n + 1 \in 1..(n + 1) /\ \A k \in 1..n : k \in 1..(n + 1) /\ k # n + 1
  BY <1>1
<1>5. g[n + 1] = x /\ \A k \in 1..n : g[k] = f[k] /\ f[k] \in S
  BY Zenon, <1>4
<1>6. g \in [1..(n + 1) -> S \cup {x}]
  BY Zenon, <1>3
<1> HIDE DEF g
<1>7. \A y \in S \cup {x} : \E k \in 1..(n + 1) : g[k] = y
  BY Zenon, <1>2, <1>4, <1>5
<1>8. \A j, k \in 1..(n + 1) : g[j] = g[k] => j = k
  BY Zenon, <1>2, <1>3, <1>5
<1>9. n + 1 \in Nat
  BY <1>1
<1> QED
  BY Zenon, <1>6, <1>7, <1>8, <1>9 DEF Counts

(* .. or loses one.                                                        *)
LEMMA CountsRemove ==
    ASSUME NEW n, NEW S, Counts(n, S), NEW x \in S
    PROVE  Counts(n - 1, S \ {x})
<1>1. n \in Nat /\ n # 0
  BY Zenon, CountsSome
<1>2. PICK f \in [1..n -> S] : /\ \A y \in S : \E k \in 1..n : f[k] = y
                               /\ \A j, k \in 1..n : f[j] = f[k] => j = k
  BY Zenon DEF Counts
<1>3. PICK m \in 1..n : f[m] = x
  BY Zenon, <1>2
<1> DEFINE h(k) == IF k = m THEN n ELSE k
           g == [k \in 1..(n - 1) |-> f[h(k)]]
<1>4. \A k \in 1..(n - 1) : h(k) \in 1..n /\ h(k) # m
  BY <1>1
<1>5. \A j, k \in 1..(n - 1) : h(j) = h(k) => j = k
  BY <1>1
<1>6. \A k \in 1..n : k # m => \E j \in 1..(n - 1) : h(j) = k
  <2> TAKE k \in 1..n
  <2>1. CASE k = n /\ k # m
    <3>1. m \in 1..(n - 1) /\ h(m) = k
      BY <1>1, <2>1
    <3> QED
      BY Zenon, <3>1
  <2>2. CASE k # n /\ k # m
    <3>1. k \in 1..(n - 1) /\ h(k) = k
      BY <1>1, <2>2
    <3> QED
      BY Zenon, <3>1
  <2> QED
    BY Zenon, <2>1, <2>2
<1> HIDE DEF h
<1>7. \A k \in 1..(n - 1) : g[k] = f[h(k)]
  BY Zenon
<1>8. \A k \in 1..(n - 1) : f[h(k)] \in S /\ f[h(k)] # x
  BY Zenon, <1>2, <1>3, <1>4
<1>9. g \in [1..(n - 1) -> S \ {x}]
  BY Zenon, <1>8
<1> HIDE DEF g
<1>10. \A y \in S \ {x} : \E k \in 1..(n - 1) : g[k] = y
  <2> TAKE y \in S \ {x}
  <2>1. PICK k \in 1..n : f[k] = y
    BY Zenon, <1>2
  <2>2. PICK j \in 1..(n - 1) : h(j) = k
    BY Zenon, <1>3, <1>6, <2>1
  <2> QED
    BY Zenon, <1>7, <2>1, <2>2
<1>11. \A j, k \in 1..(n - 1) : g[j] = g[k] => j = k
  BY Zenon, <1>2, <1>4, <1>5, <1>7
<1>12. n - 1 \in Nat
  BY <1>1
<1> QED
  BY Zenon, <1>9, <1>10, <1>11, <1>12 DEF Counts

(* No producer has ended.                                                  *)
LEMMA InitEnd == Init => EndInv
<1> SUFFICES ASSUME Init PROVE EndInv
  BY Zenon
<1> SUFFICES ASSUME NEW p \in Partitions
             PROVE  /\ Counts(pendingProducers[p], PendingOf(p))
                    /\ cpc[p] # "finished"
  BY Zenon DEF EndInv, PendingOf
<1>1. pendingProducers[p] = 0 /\ cpc[p] = "create"
  BY Zenon DEF Init
<1>2. \A i \in Producers : ppc[i] = "create"
  BY Zenon DEF Init
<1>3. PendingOf(p) = {}
  BY Zenon, <1>2 DEF PendingOf, Pending, Adding
<1> QED
  BY Zenon, <1>1, <1>3, CountsNone

(* A step that leaves the calls to come, and the queues that have ended    *)
LEMMA EndFrame ==
    ASSUME EndInv, exchange' = exchange, noMoreProducers => noMoreProducers',
           pendingProducers' = pendingProducers,
           NEW p \in Partitions,
           \A i \in Producers : Pending(i, p)' <=> Pending(i, p),
           cpc'[p] = "finished" => cpc[p] = "finished" /\ queue'[p] = queue[p]
    PROVE  /\ Counts(pendingProducers'[p], PendingOf(p)')
           /\ cpc'[p] = "finished" =>
                 noMoreProducers' /\ pendingProducers'[p] = 0 /\ queue'[p] = <<>>
<1>1. PendingOf(p)' = PendingOf(p)
  BY Zenon, Fixed DEF PendingOf
<1>2. Counts(pendingProducers[p], PendingOf(p))
  BY Zenon DEF EndInv, PendingOf
<1>3. Counts(pendingProducers'[p], PendingOf(p)')
  BY Zenon, <1>1, <1>2
<1> QED
  BY Zenon, <1>3 DEF EndInv

(* The calls to come of a producer that goes on                            *)
LEMMA SamePending ==
    ASSUME TypeInv, NEW i \in Producers, NEW p \in Partitions,
           \/ ppc[i] \in Adding \cup {"run"} /\ ppc'[i] \in Adding \cup {"run"}
           \/ ppc[i] = "run" /\ ppc'[i] = "noMoreData" /\ part'[i] = 1
           \/ ppc[i] = "noMoreDataNotify" /\ NextQueue(i)
           \/ ppc'[i] = ppc[i] /\ part'[i] = part[i]
    PROVE  Pending(i, p)' <=> Pending(i, p)
<1>1. CASE ppc[i] \in Adding \cup {"run"} /\ ppc'[i] \in Adding \cup {"run"}
  BY Zenon, <1>1 DEF Pending, Adding
<1>2. CASE ppc[i] = "run" /\ ppc'[i] = "noMoreData" /\ part'[i] = 1
  <2>1. p >= 1
    BY Constants DEF TypeInv
  <2> QED
    BY Zenon, <1>2, <2>1 DEF Pending
<1>3. CASE ppc[i] = "noMoreDataNotify" /\ NextQueue(i)
  <2>1. /\ NumPartitions \in Nat /\ p \in 1..NumPartitions
        /\ part \in [Producers -> 0..NumPartitions] /\ DOMAIN ppc = Producers
    BY Zenon, Constants DEF TypeInv, ProducerTypes
  <2>2. CASE part[i] < NumPartitions
    <3>1. part'[i] = part[i] + 1 /\ ppc'[i] = "noMoreData"
      BY Zenon, <1>3, <2>1, <2>2 DEF NextQueue
    <3> QED
      BY <1>3, <2>1, <3>1 DEF Pending, Adding
  <2>3. CASE ~(part[i] < NumPartitions)
    <3>1. ppc'[i] = "done"
      BY Zenon, <1>3, <2>1, <2>3 DEF NextQueue
    <3> QED
      BY <1>3, <2>1, <2>3, <3>1 DEF Pending, Adding
  <2> QED
    BY Zenon, <2>2, <2>3
<1>4. CASE ppc'[i] = ppc[i] /\ part'[i] = part[i]
  BY Zenon, <1>4 DEF Pending
<1> QED
  BY Zenon, <1>1, <1>2, <1>3, <1>4

(* noMoreData() on one queue takes the producer off its calls to come.     *)
LEMMA NoMoreDataEnd ==
    ASSUME TypeInv, StateInv, EndInv, NEW i \in Producers, NoMoreData(i)
    PROVE  EndInv'
<1>0. PICK n \in Partitions : n = part[i]
  BY Zenon DEF NoMoreData, TypeInv, ProducerAt
<1>1. /\ NumPartitions \in Nat /\ Partitions = 1..NumPartitions
      /\ part \in [Producers -> 0..NumPartitions] /\ DOMAIN ppc = Producers
      /\ ppc[i] = "noMoreData" /\ exchange' = exchange /\ exchange \in Exchanges
      /\ pendingProducers \in [Partitions -> Int]
  BY Zenon, Constants DEF NoMoreData, TypeInv, ProducerTypes, ProducerAt, QueueTypes
<1>2. /\ UNCHANGED <<queue, noMoreProducers, cpc>>
      /\ pendingProducers' = [pendingProducers EXCEPT ![n] = pendingProducers[n] - 1]
  BY Zenon, <1>0 DEF NoMoreData
<1>3. \/ ppc' = [ppc EXCEPT ![i] = "noMoreDataNotify"] /\ part' = part
      \/ /\ n < NumPartitions
         /\ ppc' = [ppc EXCEPT ![i] = "noMoreData"] /\ part' = [part EXCEPT ![i] = @ + 1]
      \/ /\ ~(n < NumPartitions)
         /\ ppc' = [ppc EXCEPT ![i] = "done"] /\ part' = [part EXCEPT ![i] = 0]
  BY Zenon, <1>0 DEF NoMoreData, NextQueue
<1>4. \A j \in Producers \ {i} : ppc'[j] = ppc[j] /\ part'[j] = part[j]
  BY Zenon, <1>0, <1>1, <1>3
<1>5. \A j \in Producers \ {i} : \A p \in Partitions : Pending(j, p)' <=> Pending(j, p)
  BY Zenon, <1>4, SamePending
<1>6. \A p \in Partitions : /\ Pending(i, p)' <=> n < p
                            /\ Pending(i, p) <=> n <= p
  <2> TAKE p \in Partitions
  <2>1. Pending(i, p) <=> n <= p
    BY Zenon, <1>0, <1>1 DEF Pending, Adding
  <2>2. CASE ppc' = [ppc EXCEPT ![i] = "noMoreDataNotify"] /\ part' = part
    <3>1. ppc'[i] = "noMoreDataNotify" /\ part'[i] = n
      BY Zenon, <1>0, <1>1, <2>2
    <3> QED
      BY Zenon, <1>0, <2>1, <3>1 DEF Pending, Adding
  <2>3. CASE /\ n < NumPartitions
             /\ ppc' = [ppc EXCEPT ![i] = "noMoreData"] /\ part' = [part EXCEPT ![i] = @ + 1]
    <3>1. ppc'[i] = "noMoreData" /\ part'[i] = n + 1
      BY Zenon, <1>0, <1>1, <2>3
    <3>2. Pending(i, p)' <=> n + 1 <= p
      BY Zenon, <1>0, <3>1 DEF Pending, Adding
    <3> QED
      BY <1>0, <1>1, <2>1, <3>2
  <2>4. CASE /\ ~(n < NumPartitions)
             /\ ppc' = [ppc EXCEPT ![i] = "done"] /\ part' = [part EXCEPT ![i] = 0]
    <3>1. ppc'[i] = "done"
      BY Zenon, <1>0, <1>1, <2>4
    <3>2. ~Pending(i, p)'
      BY Zenon, <1>0, <3>1 DEF Pending, Adding
    <3> QED
      BY <1>0, <1>1, <2>1, <2>4, <3>2
  <2> QED
    BY Zenon, <1>3, <2>2, <2>3, <2>4
<1>7. ASSUME NEW p \in Partitions, p # n
      PROVE  /\ Counts(pendingProducers'[p], PendingOf(p)')
             /\ cpc'[p] = "finished" =>
                   noMoreProducers' /\ pendingProducers'[p] = 0 /\ queue'[p] = <<>>
  <2>1. Pending(i, p)' <=> Pending(i, p)
    BY <1>0, <1>1, <1>6, <1>7
  <2>2. PendingOf(p)' = PendingOf(p)
    <3>1. PendingOf(p)' = {j \in Producers : Pending(j, p)'}
      BY Zenon, <1>0, <1>1, Fixed DEF PendingOf
    <3> QED
      BY Zenon, <1>5, <2>1, <3>1 DEF PendingOf
  <2>3. pendingProducers'[p] = pendingProducers[p]
    BY Zenon, <1>0, <1>1, <1>2, <1>7
  <2> QED
    BY Zenon, <1>2, <2>2, <2>3 DEF EndInv, PendingOf
<1>8. /\ Counts(pendingProducers'[n], PendingOf(n)')
      /\ cpc'[n] # "finished"
  <2>1. Pending(i, n) /\ ~Pending(i, n)'
    BY <1>0, <1>1, <1>6
  <2>2. PendingOf(n)' = PendingOf(n) \ {i} /\ i \in PendingOf(n)
    <3>1. PendingOf(n)' = {j \in Producers : Pending(j, n)'}
      BY Zenon, <1>0, <1>1, Fixed DEF PendingOf
    <3> QED
      BY Zenon, <1>0, <1>1, <1>5, <2>1, <3>1 DEF PendingOf
  <2>3. Counts(pendingProducers[n], PendingOf(n))
    BY Zenon DEF EndInv, PendingOf
  <2>4. pendingProducers[n] # 0
    BY Zenon, <2>2, <2>3, CountsSome
  <2>5. Counts(pendingProducers[n] - 1, PendingOf(n)')
    <3>1. Counts(pendingProducers[n] - 1, PendingOf(n) \ {i})
      BY Zenon, <2>2, <2>3, CountsRemove
    <3> QED
      BY Zenon, <2>2, <3>1
  <2>6. pendingProducers'[n] = pendingProducers[n] - 1
    BY Zenon, <1>1, <1>2
  <2>7. cpc'[n] # "finished"
    BY Zenon, <1>2, <2>4 DEF EndInv
  <2> QED
    BY Zenon, <2>5, <2>6, <2>7
<1> QED
  BY Zenon, <1>0, <1>1, <1>7, <1>8, Fixed DEF EndInv, PendingOf
(* The producers but i stand still when i takes a step.                    *)
LEMMA OthersStand ==
    ASSUME TypeInv, NEW i \in Producers, Produce(i)
    PROVE  \A j \in Producers \ {i} : ppc'[j] = ppc[j] /\ part'[j] = part[j]
<1>1. /\ ppc \in [Producers -> Adding \cup {"create", "run", "noMoreData",
                                            "noMoreDataNotify", "done"}]
      /\ part \in [Producers -> 0..NumPartitions]
  BY Zenon DEF TypeInv, ProducerTypes
<1>2. CASE AddInput(i) \/ EnqueueNotify(i) \/ GetVector(i) \/ NoMoreInput(i)
  BY Zenon, <1>1, <1>2 DEF AddInput, EnqueueNotify, AddTo, GetVector, NoMoreInput
<1>3. CASE Enqueue(i)
  BY Zenon, <1>1, <1>3 DEF Enqueue, AddTo
<1>4. CASE NoMoreData(i) \/ NoMoreDataNotify(i)
  BY Zenon, <1>1, <1>4 DEF NoMoreData, NoMoreDataNotify, NextQueue
<1> QED
  BY Zenon, <1>2, <1>3, <1>4 DEF Produce

(* What the producers do counts the ones that are not at their end.        *)
LEMMA ProduceEnd ==
    ASSUME TypeInv, StateInv, EndInv, NEW i \in Producers, Produce(i)
    PROVE  EndInv'
<1>1. CASE NoMoreData(i)
  BY Zenon, <1>1, NoMoreDataEnd
<1>2. CASE ~NoMoreData(i)
  <2>1. /\ exchange' = exchange /\ noMoreProducers' = noMoreProducers
        /\ pendingProducers' = pendingProducers
    BY Zenon, <1>2 DEF Produce, AddInput, GetVector, Enqueue, EnqueueNotify, NoMoreInput,
                NoMoreDataNotify, queueVars
  <2>2. DOMAIN ppc = Producers /\ DOMAIN part = Producers /\ exchange \in Exchanges
    BY Zenon DEF TypeInv, ProducerTypes
  <2>3. ASSUME NEW in, NEW p, AddTo(i, in, p)
        PROVE  ppc'[i] \in Adding \cup {"run"}
    BY Zenon, <2>2, <2>3 DEF AddTo, Adding
  <2>4. \A p \in Partitions : Pending(i, p)' <=> Pending(i, p)
    <3>1. CASE AddInput(i) \/ EnqueueNotify(i)
      <4>1. /\ ppc[i] \in Adding \cup {"run"}
            /\ \E in, p : AddTo(i, in, p)
        BY Zenon, <3>1 DEF AddInput, EnqueueNotify, Adding
      <4> QED
        BY Zenon, <2>3, <4>1, SamePending
    <3>2. CASE GetVector(i)
      <4>1. ppc[i] \in Adding \cup {"run"} /\ ppc'[i] \in Adding \cup {"run"}
        BY Zenon, <2>2, <3>2 DEF GetVector, Adding
      <4> QED
        BY Zenon, <4>1, SamePending
    <3>3. CASE Enqueue(i)
      <4>1. /\ ppc[i] \in Adding \cup {"run"}
            /\ \/ \E in, p : AddTo(i, in, p)
               \/ ppc' = [ppc EXCEPT ![i] = "notify"]
        BY Zenon, <3>3 DEF Enqueue, Adding
      <4>2. ppc'[i] \in Adding \cup {"run"}
        BY Zenon, <2>2, <2>3, <4>1 DEF Adding
      <4> QED
        BY Zenon, <4>1, <4>2, SamePending
    <3>4. CASE NoMoreInput(i)
      <4>1. ppc[i] = "run" /\ ppc'[i] = "noMoreData" /\ part'[i] = 1
        BY Zenon, <2>2, <3>4 DEF NoMoreInput
      <4> QED
        BY Zenon, <4>1, SamePending
    <3>5. CASE NoMoreDataNotify(i)
      <4>1. ppc[i] = "noMoreDataNotify" /\ NextQueue(i)
        BY Zenon, <3>5 DEF NoMoreDataNotify
      <4> QED
        BY Zenon, <4>1, SamePending
    <3> QED
      BY <1>2, <3>1, <3>2, <3>3, <3>4, <3>5 DEF Produce
  <2>5. \A j \in Producers : \A p \in Partitions : Pending(j, p)' <=> Pending(j, p)
    BY Zenon, <2>4, OthersStand, SamePending
  <2>6. ASSUME NEW p \in Partitions, cpc'[p] = "finished"
        PROVE  cpc[p] = "finished" /\ queue'[p] = queue[p]
    <3>1. CASE Enqueue(i)
      <4>1. cpc' = cpc /\ ppc[i] \in Adding
        BY Zenon, <3>1 DEF Enqueue, Adding
      <4>2. Pending(i, p)
        BY Zenon, <4>1 DEF Pending
      <4>3. pendingProducers[p] # 0
        <5>1. Counts(pendingProducers[p], PendingOf(p)) /\ i \in PendingOf(p)
          BY Zenon, <4>2 DEF EndInv, PendingOf
        <5> QED
          BY Zenon, <5>1, CountsSome
      <4> QED
        BY Zenon, <2>6, <4>1, <4>3 DEF EndInv
    <3>2. CASE EnqueueNotify(i) \/ NoMoreDataNotify(i)
      <4>1. queue' = queue /\ notify(pNotify[i])
        BY Zenon, <3>2 DEF EnqueueNotify, NoMoreDataNotify, queueVars
      <4> QED
        BY Zenon, <2>6, <4>1 DEF notify
    <3>3. CASE AddInput(i) \/ GetVector(i) \/ NoMoreInput(i)
      BY Zenon, <2>6, <3>3 DEF AddInput, GetVector, NoMoreInput, queueVars
    <3> QED
      BY Zenon, <1>2, <3>1, <3>2, <3>3 DEF Produce
  <2>7. ASSUME NEW p \in Partitions
        PROVE  /\ Counts(pendingProducers'[p], PendingOf(p)')
               /\ cpc'[p] = "finished" =>
                     noMoreProducers' /\ pendingProducers'[p] = 0 /\ queue'[p] = <<>>
    BY Zenon, <2>1, <2>5, <2>6, EndFrame
  <2> QED
    BY Zenon, <2>1, <2>7, Fixed DEF EndInv, PendingOf
<1> QED
  BY Zenon, <1>1, <1>2

(* addProducer and noMoreProducers count them too.                         *)
LEMMA CreateEnd ==
    ASSUME TypeInv, StateInv, EndInv, Create
    PROVE  EndInv'
<1>1. CASE NoMoreProducers
  <2>1. /\ exchange' = exchange /\ pendingProducers' = pendingProducers
        /\ UNCHANGED <<ppc, part>> /\ ~noMoreProducers
        /\ cpc' = [p \in Partitions |-> "run"]
    BY Zenon, <1>1 DEF NoMoreProducers, producerVars
  <2>2. ASSUME NEW p \in Partitions
        PROVE  /\ Counts(pendingProducers'[p], PendingOf(p)')
               /\ cpc'[p] # "finished"
    <3>1. PendingOf(p)' = PendingOf(p)
      BY Zenon, <2>1, Fixed DEF PendingOf, Pending
    <3>2. Counts(pendingProducers[p], PendingOf(p))
      BY Zenon DEF EndInv, PendingOf
    <3> QED
      BY Zenon, <2>1, <3>1, <3>2
  <2> QED
    BY Zenon, <2>1, <2>2, Fixed DEF EndInv, PendingOf
<1>2. ASSUME NEW i \in Producers, AddProducer(i)
      PROVE  EndInv'
  <2>1. /\ exchange' = exchange /\ UNCHANGED <<cpc, part>> /\ ~noMoreProducers
        /\ ppc[i] = "create" /\ ppc' = [ppc EXCEPT ![i] = "run"]
        /\ pendingProducers' = [p \in Partitions |-> pendingProducers[p] + 1]
    BY Zenon, <1>2 DEF AddProducer
  <2>2. \A p \in Partitions : cpc[p] = "create"
    BY Zenon, <2>1 DEF StateInv
  <2>3. exchange \in Exchanges /\ DOMAIN ppc = Producers
    BY Zenon DEF TypeInv, ProducerTypes
  <2>4. ppc'[i] = "run" /\ \A j \in Producers \ {i} : ppc'[j] = ppc[j]
    BY Zenon, <2>1, <2>3
  <2>5. ASSUME NEW p \in Partitions
        PROVE  Counts(pendingProducers'[p], PendingOf(p)')
    <3>1. ~Pending(i, p) /\ Pending(i, p)'
      BY Zenon, <2>1, <2>4 DEF Pending, Adding
    <3>2. \A j \in Producers \ {i} : Pending(j, p)' <=> Pending(j, p)
      BY Zenon, <2>1, <2>4 DEF Pending
    <3>3. PendingOf(p)' = {j \in Producers : Pending(j, p)'}
      BY Zenon, <2>1, Fixed DEF PendingOf
    <3>4. PendingOf(p)' = PendingOf(p) \cup {i} /\ i \notin PendingOf(p)
      BY Zenon, <3>1, <3>2, <3>3 DEF PendingOf
    <3>5. Counts(pendingProducers[p], PendingOf(p))
      BY Zenon DEF EndInv, PendingOf
    <3>6. Counts(pendingProducers[p] + 1, PendingOf(p)')
      <4>1. Counts(pendingProducers[p] + 1, PendingOf(p) \cup {i})
        BY Zenon, <3>4, <3>5, CountsAdd
      <4> QED
        BY Zenon, <3>4, <4>1
    <3> QED
      BY Zenon, <2>1, <3>6
  <2> QED
    BY Zenon, <2>1, <2>2, <2>5, Fixed DEF EndInv, PendingOf
<1> QED
  BY Zenon, <1>1, <1>2 DEF Create

(* What the consumers do ends no producer.                                 *)
LEMMA ConsumeEnd ==
    ASSUME TypeInv, StateInv, EndInv, NEW p \in Partitions, Fetch(p) \/ Close(p)
    PROVE  EndInv'
<1>1. /\ exchange' = exchange /\ noMoreProducers' = noMoreProducers
      /\ UNCHANGED <<ppc, part>>
      /\ \A q \in Partitions \ {p} : cpc'[q] = cpc[q]
  BY Zenon, ConsumeStates DEF producerVars
<1>2. pendingProducers' = pendingProducers
  BY Zenon DEF Fetch, NextFinished, NextBlocks, NextData, NextNotify, Push, Consume,
         CloseNotify, Close, queueVars
<1>3. DOMAIN cpc = Partitions /\ DOMAIN queue = Partitions
  BY Zenon DEF TypeInv, ConsumerTypes, QueueTypes
<1>4. ASSUME NEW q \in Partitions \ {p}
      PROVE  queue'[q] = queue[q]
  BY Zenon, <1>3 DEF Fetch, NextFinished, NextBlocks, NextData, NextNotify, Push, Consume,
         CloseNotify, Close, queueVars
<1>5. CASE NextFinished(p)
  <2>1. cpc[p] = "run" /\ isFinishedLocked(p) /\ queue' = queue
    BY Zenon, <1>5 DEF NextFinished, queueVars
  <2>2. p \notin closed
    BY Zenon, <2>1 DEF StateInv, ConsumerAt
  <2>3. noMoreProducers /\ pendingProducers[p] = 0 /\ queue[p] = <<>>
    BY Zenon, <2>1, <2>2 DEF isFinishedLocked
  <2>4. PendingOf(p)' = PendingOf(p)
    BY Zenon, <1>1, Fixed DEF PendingOf, Pending
  <2>5. Counts(pendingProducers'[p], PendingOf(p)')
    BY Zenon, <1>2, <2>4 DEF EndInv, PendingOf
  <2>6. ASSUME NEW q \in Partitions \ {p}
        PROVE  /\ Counts(pendingProducers'[q], PendingOf(q)')
               /\ cpc'[q] = "finished" =>
                     noMoreProducers' /\ pendingProducers'[q] = 0 /\ queue'[q] = <<>>
    <3>1. \A i \in Producers : Pending(i, q)' <=> Pending(i, q)
      BY Zenon, <1>1 DEF Pending
    <3> QED
      BY Zenon, <1>1, <1>2, <1>4, <3>1, EndFrame
  <2> QED
    BY Zenon, <1>1, <1>2, <2>1, <2>3, <2>5, <2>6, Fixed DEF EndInv, PendingOf
<1>6. CASE ~NextFinished(p)
  <2>1. cpc'[p] # "finished"
    BY Zenon, <1>3, <1>6 DEF Fetch, NextBlocks, NextData, NextNotify, Push, Consume,
                      CloseNotify, Close
  <2>2. ASSUME NEW q \in Partitions
        PROVE  /\ Counts(pendingProducers'[q], PendingOf(q)')
               /\ cpc'[q] = "finished" =>
                     noMoreProducers' /\ pendingProducers'[q] = 0 /\ queue'[q] = <<>>
    <3>1. \A i \in Producers : Pending(i, q)' <=> Pending(i, q)
      BY Zenon, <1>1 DEF Pending
    <3>2. cpc'[q] = "finished" => cpc[q] = "finished" /\ queue'[q] = queue[q]
      BY Zenon, <1>1, <1>4, <2>1
    <3> QED
      BY Zenon, <1>1, <1>2, <3>1, <3>2, EndFrame
  <2> QED
    BY Zenon, <1>1, <2>2, Fixed DEF EndInv, PendingOf
<1> QED
  BY Zenon, <1>5, <1>6

(* Every step counts the producers that are not at their end.              *)
LEMMA NextEnd ==
    ASSUME TypeInv, StateInv, EndInv, [Next]_vars
    PROVE  EndInv'
<1>1. CASE UNCHANGED vars
  BY Zenon, <1>1, Fixed DEF vars, queueVars, producerVars, EndInv, Pending
<1> QED
  BY Zenon, <1>1, ProduceEnd, CreateEnd, ConsumeEnd DEF Next
-----------------------------------------------------------------------------
(* Vectors in use                                                          *)

(* The vector of these rows has not been made                              *)
NotYet(v) ==
    \/ v[2] > numInputs[v[1]]
    \/ /\ v[2] = numInputs[v[1]]
       /\ \/ ppc[v[1]] = "getVector" /\ v[3] >= part[v[1]]
          \/ ppc[v[1]] \in {"enqueue", "notify"} /\ v[3] > part[v[1]]

(* A vector that the pool, a queue, a consumer or a producer refers to     *)
InUse(v) ==
    \/ v \in Entries(pool)
    \/ \E p \in Partitions : v \in Entries(queue[p]) \/ held[p].vec = v
    \/ \E i \in Producers : vec[i] = v

(* A vector that is not made yet is not in use.                            *)
FreshInv == \A v \in Items : NotYet(v) => ~InUse(v)

(* The producer, input and partition of an item.                           *)
LEMMA ItemParts ==
    ASSUME exchange \in Exchanges, NEW v \in Items
    PROVE  /\ v[1] \in Producers /\ v[2] \in 1..MaxInputs /\ v[3] \in Partitions
           /\ v = <<v[1], v[2], v[3]>> /\ v # NoVector
<1>1. v[1] \in Producers /\ v[2] \in 1..MaxInputs /\ v[3] \in Partitions
      /\ v = <<v[1], v[2], v[3]>>
  BY DEF Items
<1>2. v[1] # 0
  BY <1>1, Constants DEF Producers
<1> QED
  BY <1>1, <1>2 DEF NoVector

(* A step that brings vector x into use, and makes it                      *)
LEMMA FreshFrame ==
    ASSUME exchange \in Exchanges, FreshInv, exchange' = exchange, NEW x,
           \A v \in Items : InUse(v)' => InUse(v) \/ v = x,
           \A v \in Items : NotYet(v)' => NotYet(v) /\ v # x
    PROVE  FreshInv'
  BY Zenon, Fixed DEF FreshInv

(* The vectors of a part of a queue ..                                     *)
LEMMA EntriesOfPart ==
    ASSUME NEW S, NEW q \in Seq(S), NEW m \in 1..(Len(q) + 1)
    PROVE  Entries(SubSeq(q, m, Len(q))) \subseteq Entries(q)
<1> DEFINE t == SubSeq(q, m, Len(q))
<1>1. /\ Len(q) \in Nat /\ DOMAIN q = 1..Len(q)
      /\ t \in Seq(S) /\ DOMAIN t = 1..(Len(q) - m + 1)
      /\ \A k \in DOMAIN t : t[k] = q[m + k - 1]
  OBVIOUS
<1>2. \A k \in DOMAIN t : m + k - 1 \in DOMAIN q
  BY <1>1
<1> HIDE DEF t
<1> SUFFICES ASSUME NEW k \in DOMAIN t
             PROVE  t[k].vec \in Entries(q)
  BY Zenon DEF Entries, t
<1> QED
  BY Zenon, <1>1, <1>2 DEF Entries

(* .. of one without its first entry ..                                    *)
LEMMA EntriesOfTail ==
    ASSUME NEW S, NEW q \in Seq(S), q # <<>>
    PROVE  Entries(Tail(q)) \subseteq Entries(q) /\ Head(q).vec \in Entries(q)
<1>1. /\ Len(q) \in Nat /\ DOMAIN q = 1..Len(q) /\ Len(q) # 0
      /\ Tail(q) \in Seq(S) /\ DOMAIN Tail(q) = 1..(Len(q) - 1)
      /\ \A k \in DOMAIN Tail(q) : Tail(q)[k] = q[k + 1]
      /\ Head(q) = q[1]
  OBVIOUS
<1>2. 1 \in DOMAIN q /\ \A k \in DOMAIN Tail(q) : k + 1 \in DOMAIN q
  BY <1>1
<1> QED
  BY <1>1, <1>2 DEF Entries

(* .. and of one with another entry.                                       *)
LEMMA EntriesOfAppend ==
    ASSUME NEW S, NEW q \in Seq(S), NEW e \in S
    PROVE  Entries(Append(q, e)) = Entries(q) \cup {e.vec}
<1>1. /\ Len(q) \in Nat /\ DOMAIN q = 1..Len(q)
      /\ DOMAIN Append(q, e) = 1..(Len(q) + 1)
      /\ \A k \in DOMAIN q : Append(q, e)[k] = q[k]
      /\ Append(q, e)[Len(q) + 1] = e
  OBVIOUS
<1>2. DOMAIN Append(q, e) = DOMAIN q \cup {Len(q) + 1}
  BY <1>1
<1> QED
  BY <1>1, <1>2 DEF Entries

(* No vector is made yet.                                                  *)
LEMMA InitFresh == Init => FreshInv
<1> SUFFICES ASSUME Init, NEW v \in Items
             PROVE  ~InUse(v)
  BY Zenon DEF FreshInv
<1>1. exchange \in Exchanges /\ v # NoVector
  BY Zenon, ItemParts DEF Init
<1>2. /\ pool = <<>>
      /\ \A p \in Partitions : queue[p] = <<>> /\ held[p] = NoEntry
      /\ \A i \in Producers : vec[i] = NoVector
  BY Zenon DEF Init
<1>3. Entries(<<>>) = {}
  BY DEF Entries
<1>4. NoEntry.vec = NoVector
  BY Zenon DEF NoEntry
<1> QED
  BY Zenon, <1>1, <1>2, <1>3, <1>4 DEF InUse

(* Which vectors are still to be made when producer i goes on              *)
LEMMA GoOnFresh ==
    ASSUME TypeInv, NEW i \in Producers, ppc[i] \in {"enqueue", "notify"},
           AddTo(i, input[i], NextPart(input[i], part[i] + 1)), numInputs' = numInputs
    PROVE  \A v \in Items : NotYet(v)' => NotYet(v)
<1>1. PICK n \in 0..NumPartitions : /\ n = NextPart(input[i], part[i] + 1)
                                    /\ n # 0 => n > part[i]
  BY Zenon, NextPartType DEF Adding
<1>2. /\ NumPartitions \in Nat /\ Partitions = 1..NumPartitions /\ exchange \in Exchanges
      /\ part \in [Producers -> 0..NumPartitions]
  BY Zenon, Constants DEF TypeInv, ProducerTypes
<1>3. /\ part'[i] = n
      /\ n = 0 => ppc'[i] = "run"
      /\ \A j \in Producers \ {i} : ppc'[j] = ppc[j] /\ part'[j] = part[j]
      /\ n # 0 => ppc'[i] \in {"enqueue", "getVector"}
  BY Zenon, <1>1, NextPartType, AddToType DEF Adding
<1> SUFFICES ASSUME NEW v \in Items, NotYet(v)'
             PROVE  NotYet(v)
  BY Zenon
<1>4. v[1] \in Producers /\ v[3] \in Partitions
  BY Zenon, <1>2, ItemParts
<1>5. CASE v[1] # i
  <2>1. ppc'[v[1]] = ppc[v[1]] /\ part'[v[1]] = part[v[1]]
    BY Zenon, <1>3, <1>4, <1>5
  <2> QED
    BY Zenon, <2>1 DEF NotYet
<1>6. CASE v[1] = i
  <2>1. CASE v[2] > numInputs[i]
    BY Zenon, <1>6, <2>1 DEF NotYet
  <2>2. CASE v[2] = numInputs[i] /\ ~(v[2] > numInputs[i])
    <3>1. ppc'[i] \in {"getVector", "enqueue", "notify"} /\ v[3] >= part'[i]
      BY <1>2, <1>3, <1>4, <1>6, <2>2 DEF NotYet
    <3>2. n # 0
      BY Zenon, <1>3, <3>1
    <3>3. v[3] > part[i]
      BY <1>1, <1>2, <1>3, <1>4, <3>1, <3>2
    <3> QED
      BY Zenon, <1>6, <2>2, <3>3 DEF NotYet
  <2> QED
    BY Zenon, <1>6, <2>1, <2>2 DEF NotYet
<1> QED
  BY Zenon, <1>5, <1>6
(* The vectors of a new input are not made yet.                            *)
LEMMA AddInputFresh ==
    ASSUME TypeInv, FreshInv, NEW i \in Producers, AddInput(i)
    PROVE  FreshInv'
<1>1. /\ exchange' = exchange /\ exchange \in Exchanges
      /\ UNCHANGED <<pool, queue, held>> /\ ppc[i] = "run"
      /\ numInputs' = [numInputs EXCEPT ![i] = @ + 1]
  BY Zenon DEF AddInput, TypeInv, queueVars, poolVars, consumerVars
<1>2. /\ numInputs \in [Producers -> 0..MaxInputs] /\ MaxInputs \in Nat
      /\ DOMAIN vec = Producers /\ DOMAIN ppc = Producers /\ DOMAIN part = Producers
  BY Zenon, <1>1, Constants DEF TypeInv, ProducerTypes
<1>3. PICK in \in Inputs :
         /\ AddTo(i, in, NextPart(in, 1))
         /\ \/ /\ in.single
               /\ vec' = [vec EXCEPT ![i] = <<i, numInputs'[i], NextPart(in, 1)>>]
            \/ vec' = vec
  BY Zenon DEF AddInput
<1>4. PICK n : n = NextPart(in, 1)
  BY Zenon
<1>5. n \in Partitions /\ n # 0
  <2>1. n \in Partitions
    BY Zenon, <1>1, <1>4, FirstPart
  <2> QED
    BY <1>1, <2>1, Constants
<1>6. /\ part'[i] = n
      /\ in.single => ppc'[i] = "enqueue"
      /\ \A j \in Producers \ {i} : ppc'[j] = ppc[j] /\ part'[j] = part[j]
  BY <1>2, <1>3, <1>4, <1>5 DEF AddTo
<1>7. /\ numInputs'[i] = numInputs[i] + 1 /\ numInputs[i] \in Nat
      /\ \A j \in Producers \ {i} : numInputs'[j] = numInputs[j]
  BY <1>1, <1>2
<1>8. ASSUME NEW v \in Items, NotYet(v)'
      PROVE  NotYet(v) /\ (in.single => v # <<i, numInputs'[i], n>>)
  <2>1. v[1] \in Producers /\ v[2] \in Int /\ v[3] \in Int /\ Partitions \subseteq Int
    BY <1>1, ItemParts, Constants
  <2>2. CASE v[1] # i
    <3>1. /\ ppc'[v[1]] = ppc[v[1]] /\ part'[v[1]] = part[v[1]]
          /\ numInputs'[v[1]] = numInputs[v[1]]
      BY Zenon, <1>6, <1>7, <2>1, <2>2
    <3>2. v # <<i, numInputs'[i], n>>
      BY <2>2
    <3> QED
      BY Zenon, <1>8, <3>1, <3>2 DEF NotYet
  <2>3. CASE v[1] = i
    <3>1. v[2] > numInputs[i]
      BY <1>7, <1>8, <2>1, <2>3 DEF NotYet
    <3>2. in.single => v # <<i, numInputs'[i], n>>
      BY <1>5, <1>6, <1>7, <1>8, <2>1, <2>3 DEF NotYet
    <3> QED
      BY Zenon, <2>3, <3>1, <3>2 DEF NotYet
  <2> QED
    BY Zenon, <2>2, <2>3
<1>9. CASE in.single /\ vec' = [vec EXCEPT ![i] = <<i, numInputs'[i], n>>]
  <2>1. PICK x : x = <<i, numInputs'[i], n>>
    BY Zenon
  <2>2. \A v \in Items : InUse(v)' => InUse(v) \/ v = x
    BY Zenon, <1>1, <1>2, <1>9, <2>1, Fixed DEF InUse
  <2>3. \A v \in Items : NotYet(v)' => NotYet(v) /\ v # x
    BY Zenon, <1>8, <1>9, <2>1
  <2> QED
    BY Zenon, <1>1, <2>2, <2>3, FreshFrame
<1>10. CASE vec' = vec
  <2>1. \A v \in Items : InUse(v)' => InUse(v) \/ v = NoVector
    BY Zenon, <1>1, <1>10, Fixed DEF InUse
  <2>2. \A v \in Items : NotYet(v)' => NotYet(v) /\ v # NoVector
    BY Zenon, <1>1, <1>8, ItemParts
  <2> QED
    BY Zenon, <1>1, <2>1, <2>2, FreshFrame
<1> QED
  BY Zenon, <1>3, <1>4, <1>9, <1>10

(* getVector takes a new vector, or one of the pool.                       *)
LEMMA GetVectorFresh ==
    ASSUME TypeInv, FreshInv, NEW i \in Producers, GetVector(i)
    PROVE  FreshInv'
<1>1. /\ exchange' = exchange /\ exchange \in Exchanges
      /\ UNCHANGED <<queue, held, numInputs, part>> /\ ppc[i] = "getVector"
      /\ ppc' = [ppc EXCEPT ![i] = "enqueue"]
  BY Zenon DEF GetVector, TypeInv, queueVars, consumerVars
<1>2. /\ DOMAIN ppc = Producers /\ pool \in Seq(Entry)
      /\ part[i] \in Int /\ Partitions \subseteq Int
  BY <1>1, Constants DEF TypeInv, ProducerTypes, PoolTypes
<1>3. PICK x : x = <<i, numInputs[i], part[i]>>
  BY Zenon
<1>4. \A v : v \in Entries(pool') => v \in Entries(pool)
  <2>1. PICK k \in 0..Len(pool) : pool' = SubSeq(pool, k + 1, Len(pool))
    BY Zenon, PopType
  <2>2. k + 1 \in 1..(Len(pool) + 1) /\ Len(pool) \in Nat
    BY <1>2
  <2> QED
    BY Zenon, <1>2, <2>1, <2>2, EntriesOfPart
<1>5. /\ vec'[i] = x \/ vec'[i] \in Entries(pool)
      /\ \A j \in Producers \ {i} : vec'[j] = vec[j]
  <2>1. ASSUME Reusable # {}, vec'[i] = pool[Popped].vec
        PROVE  vec'[i] \in Entries(pool)
    <3>1. Popped \in DOMAIN pool
      BY <1>2, <2>1, PopType
    <3> QED
      BY Zenon, <2>1, <3>1 DEF Entries
  <2> QED
    BY Zenon, <1>3, <2>1, GetVectorTypes
<1>6. \A v \in Items : InUse(v)' => InUse(v) \/ v = x
  BY <1>1, <1>4, <1>5, Fixed DEF InUse
<1>7. ASSUME NEW v \in Items, NotYet(v)'
      PROVE  NotYet(v) /\ v # x
  <2>1. v[1] \in Producers /\ v[3] \in Int
    BY Zenon, <1>1, <1>2, ItemParts
  <2>2. ppc'[i] = "enqueue" /\ \A j \in Producers \ {i} : ppc'[j] = ppc[j]
    BY Zenon, <1>1, <1>2
  <2>3. CASE v[1] # i
    <3>1. ppc'[v[1]] = ppc[v[1]]
      BY Zenon, <2>1, <2>2, <2>3
    <3>2. v # x
      BY <1>3, <2>3
    <3> QED
      BY Zenon, <1>1, <1>7, <3>1, <3>2 DEF NotYet
  <2>4. CASE v[1] = i
    <3>1. v[2] > numInputs[i] \/ (v[2] = numInputs[i] /\ v[3] > part[i])
      BY Zenon, <1>1, <1>7, <2>2, <2>4 DEF NotYet
    <3>2. NotYet(v)
      BY <1>1, <1>2, <2>1, <2>4, <3>1 DEF NotYet
    <3>3. ~(v[2] > numInputs[i]) \/ v[2] # numInputs[i]
      <4>1. numInputs[i] \in Int
        BY <1>1, Constants DEF TypeInv, ProducerTypes
      <4> QED
        BY <4>1
    <3> QED
      BY <1>2, <1>3, <2>1, <3>1, <3>2, <3>3
  <2> QED
    BY Zenon, <2>3, <2>4
<1> QED
  BY Zenon, <1>1, <1>6, <1>7, FreshFrame

(* enqueue moves a vector from its producer to the queue.                  *)
LEMMA EnqueueFresh ==
    ASSUME TypeInv, FreshInv, NEW i \in Producers, Enqueue(i)
    PROVE  FreshInv'
<1>1. /\ exchange' = exchange /\ exchange \in Exchanges
      /\ UNCHANGED <<pool, held, numInputs>> /\ ppc[i] = "enqueue"
      /\ vec' = [vec EXCEPT ![i] = NoVector]
  BY Zenon DEF Enqueue, TypeInv, poolVars, consumerVars
<1>2. PICK n \in Partitions : n = part[i]
  BY Zenon, EnqueuedEntry
<1>3. PICK e \in Entry : e = [vec |-> vec[i], bytes |-> InputBytes(input[i], part[i])]
  BY Zenon, EnqueuedEntry
<1>4. /\ queue \in [Partitions -> Seq(Entry)] /\ DOMAIN vec = Producers
      /\ DOMAIN ppc = Producers
  BY Zenon DEF TypeInv, QueueTypes, ProducerTypes
<1>5. queue' = queue \/ queue' = [queue EXCEPT ![n] = Append(queue[n], e)]
  BY Zenon, <1>2, <1>3 DEF Enqueue
<1>6. \A p \in Partitions : \A v : v \in Entries(queue'[p]) => v \in Entries(queue[p]) \/ v = vec[i]
  <2>1. Entries(Append(queue[n], e)) = Entries(queue[n]) \cup {vec[i]}
    <3>1. queue[n] \in Seq(Entry) /\ e.vec = vec[i]
      BY Zenon, <1>3, <1>4
    <3>2. Entries(Append(queue[n], e)) = Entries(queue[n]) \cup {e.vec}
      BY <3>1, EntriesOfAppend
    <3> QED
      BY Zenon, <3>1, <3>2
  <2> QED
    BY Zenon, <1>4, <1>5, <2>1
<1>7. \A v \in Items : InUse(v)' => InUse(v) \/ v = NoVector
  BY Zenon, <1>1, <1>4, <1>6, Fixed DEF InUse
<1>8. \A v \in Items : NotYet(v)' => NotYet(v)
  <2>1. CASE AddTo(i, input[i], NextPart(input[i], part[i] + 1))
    BY Zenon, <1>1, <2>1, GoOnFresh
  <2>2. CASE ppc' = [ppc EXCEPT ![i] = "notify"] /\ part' = part
    <3>1. ppc'[i] = "notify" /\ \A j \in Producers \ {i} : ppc'[j] = ppc[j]
      BY Zenon, <1>4, <2>2
    <3> QED
      BY Zenon, <1>1, <2>2, <3>1, ItemParts DEF NotYet
  <2> QED
    BY Zenon, <2>1, <2>2 DEF Enqueue
<1>9. \A v \in Items : v # NoVector
  BY Zenon, <1>1, ItemParts
<1> QED
  BY Zenon, <1>1, <1>7, <1>8, <1>9, FreshFrame
(* What the producers do keeps vectors that are not made out of use.       *)
LEMMA ProduceFresh ==
    ASSUME TypeInv, FreshInv, NEW i \in Producers, Produce(i)
    PROVE  FreshInv'
<1>1. CASE AddInput(i) \/ GetVector(i) \/ Enqueue(i)
  BY Zenon, <1>1, AddInputFresh, GetVectorFresh, EnqueueFresh
<1>2. CASE EnqueueNotify(i) \/ NoMoreInput(i) \/ NoMoreData(i) \/ NoMoreDataNotify(i)
  <2>1. exchange' = exchange /\ UNCHANGED <<pool, queue, held, vec, numInputs>>
    BY Zenon, <1>2 DEF EnqueueNotify, NoMoreInput, NoMoreData, NoMoreDataNotify, queueVars,
                poolVars, consumerVars
  <2>2. exchange \in Exchanges /\ DOMAIN ppc = Producers
    BY Zenon DEF TypeInv, ProducerTypes
  <2>3. \A v \in Items : v # NoVector /\ v[1] \in Producers
    BY Zenon, <2>2, ItemParts
  <2>4. \A v \in Items : InUse(v)' => InUse(v) \/ v = NoVector
    BY Zenon, <2>1, Fixed DEF InUse
  <2>5. \A v \in Items : NotYet(v)' => NotYet(v)
    <3>1. CASE EnqueueNotify(i)
      <4>1. /\ ppc[i] = "notify"
            /\ AddTo(i, input[i], NextPart(input[i], part[i] + 1))
        BY Zenon, <3>1 DEF EnqueueNotify
      <4> QED
        BY Zenon, <2>1, <4>1, GoOnFresh
    <3>2. CASE NoMoreInput(i) \/ NoMoreData(i) \/ NoMoreDataNotify(i)
      <4>1. \E c \in {"noMoreData", "noMoreDataNotify", "done"} :
               ppc' = [ppc EXCEPT ![i] = c]
        BY Zenon, <3>2 DEF NoMoreInput, NoMoreData, NoMoreDataNotify, NextQueue
      <4>2. ppc'[i] \notin {"getVector", "enqueue", "notify"}
        BY Zenon, <2>2, <4>1
      <4>3. \A j \in Producers \ {i} : ppc'[j] = ppc[j] /\ part'[j] = part[j]
        BY Zenon, OthersStand
      <4> QED
        BY Zenon, <2>1, <2>3, <4>2, <4>3 DEF NotYet
    <3> QED
      BY Zenon, <1>2, <3>1, <3>2
  <2> QED
    BY <2>1, <2>2, <2>3, <2>4, <2>5, FreshFrame
<1> QED
  BY Zenon, <1>1, <1>2 DEF Produce

(* What the consumers do keeps vectors that are not made out of use.       *)
LEMMA ConsumeFresh ==
    ASSUME TypeInv, StateInv, FreshInv, NEW p \in Partitions, Fetch(p) \/ Close(p)
    PROVE  FreshInv'
<1>1. exchange' = exchange /\ exchange \in Exchanges /\ UNCHANGED <<vec, numInputs, ppc, part>>
  BY Zenon, ConsumeStates DEF TypeInv, producerVars
<1>2. \A v \in Items : (NotYet(v)' <=> NotYet(v)) /\ v # NoVector
  BY Zenon, <1>1, ItemParts DEF NotYet
<1>3. /\ queue \in [Partitions -> Seq(Entry)] /\ DOMAIN held = Partitions
      /\ pool \in Seq(Entry)
  BY Zenon DEF TypeInv, QueueTypes, ConsumerTypes, PoolTypes
<1>4. NoEntry.vec = NoVector /\ Entries(<<>>) = {}
  BY DEF NoEntry, Entries
<1>5. \A v \in Items : InUse(v)' => InUse(v) \/ v = NoVector
  <2>1. CASE NextData(p)
    <3>1. /\ queue' = [queue EXCEPT ![p] = Tail(queue[p])] /\ queue[p] # <<>>
          /\ held' = [held EXCEPT ![p] = Head(queue[p])] /\ pool' = pool
      BY Zenon, <2>1 DEF NextData, poolVars
    <3>2. /\ \A v : v \in Entries(Tail(queue[p])) => v \in Entries(queue[p])
          /\ Head(queue[p]).vec \in Entries(queue[p])
      BY Zenon, <1>3, <3>1, EntriesOfTail
    <3>3. \A q \in Partitions : \A v : v \in Entries(queue'[q]) => v \in Entries(queue[q])
      BY Zenon, <1>3, <3>1, <3>2
    <3>4. \A q \in Partitions :
             held'[q].vec = held[q].vec \/ held'[q].vec \in Entries(queue[q])
      BY Zenon, <1>3, <3>1, <3>2
    <3> QED
      BY Zenon, <1>1, <3>1, <3>3, <3>4, Fixed DEF InUse
  <2>2. CASE Push(p)
    <3>1. /\ pool' = pool \/ pool' = Append(pool, held[p])
          /\ queue' = queue /\ held' = held /\ cpc[p] = "push"
      BY Zenon, <2>2 DEF Push, poolVars, queueVars, consumerVars
    <3>2. held[p] \in Entry
      BY Zenon, <3>1 DEF StateInv, ConsumerAt
    <3>3. \A v : v \in Entries(pool') => v \in Entries(pool) \/ v = held[p].vec
      <4>1. Entries(Append(pool, held[p])) = Entries(pool) \cup {held[p].vec}
        <5>1. pool \in Seq(Entry)
          BY Zenon, <1>3
        <5> QED
          BY <3>2, <5>1, EntriesOfAppend
      <4>2. pool' = pool \/ pool' = Append(pool, held[p])
        BY Zenon, <3>1
      <4> QED
        BY Zenon, <4>1, <4>2
    <3> QED
      BY Zenon, <1>1, <3>1, <3>3, Fixed DEF InUse
  <2>3. CASE Consume(p) \/ Close(p)
    <3>1. /\ queue' = queue \/ queue' = [queue EXCEPT ![p] = <<>>]
          /\ held' = [held EXCEPT ![p] = NoEntry] /\ pool' = pool
      BY Zenon, <2>3 DEF Consume, Close, poolVars, queueVars
    <3>2. \A q \in Partitions : \A v : v \in Entries(queue'[q]) => v \in Entries(queue[q])
      BY Zenon, <1>3, <1>4, <3>1
    <3>3. \A q \in Partitions : held'[q].vec = held[q].vec \/ held'[q].vec = NoVector
      BY Zenon, <1>3, <1>4, <3>1
    <3>4. pool' = pool
      BY Zenon, <3>1
    <3> QED
      BY <1>1, <3>2, <3>3, <3>4, Fixed DEF InUse
  <2>4. CASE NextFinished(p) \/ NextBlocks(p) \/ NextNotify(p) \/ CloseNotify(p)
    <3>1. UNCHANGED <<queue, held, pool>>
      BY Zenon, <2>4 DEF NextFinished, NextBlocks, NextNotify, CloseNotify, poolVars,
                  queueVars, consumerVars
    <3> QED
      BY Zenon, <1>1, <3>1, Fixed DEF InUse
  <2> QED
    BY Zenon, <2>1, <2>2, <2>3, <2>4 DEF Fetch
<1> QED
  BY Zenon, <1>1, <1>2, <1>5, FreshFrame

(* Every step keeps vectors that are not made out of use.                  *)
LEMMA NextFresh ==
    ASSUME TypeInv, StateInv, FreshInv, [Next]_vars
    PROVE  FreshInv'
<1>1. ASSUME exchange' = exchange, UNCHANGED <<pool, queue, held, vec, numInputs, part>>,
             \A i \in Producers : ppc'[i] = ppc[i] \/ ppc'[i] = "run"
      PROVE  FreshInv'
  <2>1. \A v \in Items : v # NoVector /\ v[1] \in Producers
    BY Zenon, ItemParts DEF TypeInv
  <2>2. \A v \in Items : InUse(v)' => InUse(v) \/ v = NoVector
    BY Zenon, <1>1, Fixed DEF InUse
  <2>3. \A v \in Items : NotYet(v)' => NotYet(v)
    BY Zenon, <1>1, <2>1 DEF NotYet
  <2> QED
    BY Zenon, <1>1, <2>1, <2>2, <2>3, FreshFrame DEF TypeInv
<1>2. CASE Create
  <2>1. exchange' = exchange /\ UNCHANGED <<pool, queue, held, vec, numInputs, part>>
    BY Zenon, <1>2 DEF Create, NoMoreProducers, AddProducer, producerVars, poolVars, consumerVars
  <2>2. ppc' = ppc \/ \E j \in Producers : ppc' = [ppc EXCEPT ![j] = "run"]
    BY Zenon, <1>2 DEF Create, NoMoreProducers, AddProducer, producerVars
  <2>3. \A i \in Producers : ppc'[i] = ppc[i] \/ ppc'[i] = "run"
    BY Zenon, <2>2 DEF TypeInv, ProducerTypes
  <2> QED
    BY Zenon, <1>1, <2>1, <2>3
<1>3. CASE UNCHANGED vars
  <2>1. exchange' = exchange /\ UNCHANGED <<pool, queue, held, vec, numInputs, part, ppc>>
    BY Zenon, <1>3 DEF vars, producerVars, poolVars, consumerVars, queueVars
  <2> QED
    BY Zenon, <1>1, <2>1
<1> QED
  BY Zenon, <1>2, <1>3, ProduceFresh, ConsumeFresh DEF Next
-----------------------------------------------------------------------------
(* What was enqueued and what was consumed                                 *)

(* Sequences put together                                                  *)
LEMMA SameSeq ==
    ASSUME NEW S, NEW s \in Seq(S), NEW t \in Seq(S), Len(s) = Len(t),
           \A k \in 1..Len(s) : s[k] = t[k]
    PROVE  s = t
  OBVIOUS

(* An append is a concatenation with one element.                          *)
LEMMA AppendOne ==
    ASSUME NEW S, NEW s \in Seq(S), NEW x \in S
    PROVE  Append(s, x) = s \o <<x>>
<1> DEFINE a == Append(s, x)
           b == s \o <<x>>
<1>1. a \in Seq(S) /\ b \in Seq(S) /\ Len(a) = Len(b)
  OBVIOUS
<1>2. \A k \in 1..Len(a) : a[k] = b[k]
  OBVIOUS
<1> HIDE DEF a, b
<1>3. a = b
  BY Zenon, <1>1, <1>2, SameSeq
<1> QED
  BY Zenon, <1>3 DEF a, b

(* Concatenation is associative.                                           *)
LEMMA ConcatThree ==
    ASSUME NEW S, NEW r \in Seq(S), NEW s \in Seq(S), NEW t \in Seq(S)
    PROVE  (r \o s) \o t = r \o (s \o t)
<1> DEFINE a == (r \o s) \o t
           b == r \o (s \o t)
<1>1. a \in Seq(S) /\ b \in Seq(S) /\ Len(a) = Len(b)
  OBVIOUS
<1>2. \A k \in 1..Len(a) : a[k] = b[k]
  OBVIOUS
<1> HIDE DEF a, b
<1>3. a = b
  BY Zenon, <1>1, <1>2, SameSeq
<1> QED
  BY Zenon, <1>3 DEF a, b

(* The empty sequence is its unit.                                         *)
LEMMA ConcatNone ==
    ASSUME NEW S, NEW s \in Seq(S)
    PROVE  s \o <<>> = s
  OBVIOUS

(* A concatenation begins with its first part.                             *)
LEMMA ConcatPrefix ==
    ASSUME NEW S, NEW s \in Seq(S), NEW t \in Seq(S)
    PROVE  SubSeq(s \o t, 1, Len(s)) = s
<1> DEFINE a == SubSeq(s \o t, 1, Len(s))
<1>1. a \in Seq(S) /\ Len(a) = Len(s)
  OBVIOUS
<1>2. \A k \in 1..Len(a) : a[k] = s[k]
  OBVIOUS
<1> HIDE DEF a
<1>3. a = s
  BY Zenon, <1>1, <1>2, SameSeq
<1> QED
  BY Zenon, <1>3 DEF a
(* A sequence over a set is one over a larger set.                         *)
LEMMA SeqSubset ==
    ASSUME NEW S, NEW T, S \subseteq T, NEW s \in Seq(S)
    PROVE  s \in Seq(T)
  OBVIOUS

AppendsToBoth(s, q, x) == Append(s \o q, x) = s \o Append(q, x)

(* An element appended to the second of two sequences ..                   *)
LEMMA AppendEnd ==
    ASSUME NEW S, NEW s \in Seq(S), NEW q \in Seq(S), NEW x \in S
    PROVE  AppendsToBoth(s, q, x)
<1> DEFINE u == <<x>>
<1>1. s \o q \in Seq(S) /\ u \in Seq(S)
  OBVIOUS
<1>2. Append(s \o q, x) = (s \o q) \o u /\ Append(q, x) = q \o u
  BY Zenon, <1>1, AppendOne
<1> HIDE DEF u
<1>3. (s \o q) \o u = s \o (q \o u)
  BY <1>1, ConcatThree
<1> QED
  BY Zenon, <1>2, <1>3 DEF AppendsToBoth

AppendsToLast(r, h, q, x) == Append(r \o h \o q, x) = r \o h \o Append(q, x)

(* .. to the last of three ..                                              *)
LEMMA AppendLast ==
    ASSUME NEW S, NEW r \in Seq(S), NEW h \in Seq(S), NEW q \in Seq(S), NEW x \in S
    PROVE  AppendsToLast(r, h, q, x)
<1>1. r \o h \in Seq(S)
  OBVIOUS
<1>2. AppendsToBoth(r \o h, q, x)
  BY Zenon, <1>1, AppendEnd
<1> QED
  BY Zenon, <1>2 DEF AppendsToBoth, AppendsToLast

TakesFirst(r, q) == r \o <<>> \o q = r \o <<Head(q)>> \o Tail(q)

(* .. the first element of the second, kept between the two ..             *)
LEMMA TakeFirst ==
    ASSUME NEW S, NEW r \in Seq(S), NEW q \in Seq(S), q # <<>>
    PROVE  TakesFirst(r, q)
<1>1. /\ Head(q) \in S /\ Tail(q) \in Seq(S) /\ <<Head(q)>> \in Seq(S)
      /\ <<Head(q)>> \o Tail(q) \in Seq(S)
  OBVIOUS
<1>2. r \o <<>> = r
  BY Zenon, ConcatNone
<1>3. q = <<Head(q)>> \o Tail(q)
  <2> DEFINE t == <<Head(q)>> \o Tail(q)
  <2>1. Len(t) = Len(q) /\ Len(q) \in Nat
    OBVIOUS
  <2>2. \A k \in 1..Len(q) : t[k] = q[k]
    OBVIOUS
  <2>3. t \in Seq(S)
    BY Zenon, <1>1
  <2> HIDE DEF t
  <2>4. q = t
    BY Zenon, <2>1, <2>2, <2>3, SameSeq
  <2> QED
    BY Zenon, <2>4 DEF t
<1>4. (r \o <<Head(q)>>) \o Tail(q) = r \o (<<Head(q)>> \o Tail(q))
  <2> DEFINE s == <<Head(q)>>
             u == Tail(q)
  <2>1. s \in Seq(S) /\ u \in Seq(S)
    BY Zenon, <1>1
  <2> HIDE DEF s, u
  <2>2. (r \o s) \o u = r \o (s \o u)
    BY <2>1, ConcatThree
  <2> QED
    BY Zenon, <2>2 DEF s, u
<1> QED
  BY Zenon, <1>2, <1>3, <1>4 DEF TakesFirst

MovesOne(r, q, x) ==
    /\ r \o <<x>> \o q = Append(r, x) \o <<>> \o q
    /\ Len(r) + 1 \in Len(r) .. Len(r \o <<x>> \o q)
    /\ SubSeq(r \o <<x>> \o q, 1, Len(r) + 1) = Append(r, x)

(* .. and moved to the end of the first.                                   *)
LEMMA MoveOne ==
    ASSUME NEW S, NEW r \in Seq(S), NEW q \in Seq(S), NEW x \in S
    PROVE  MovesOne(r, q, x)
<1> DEFINE a == Append(r, x)
<1>1. a \in Seq(S) /\ Len(a) = Len(r) + 1 /\ Len(r) \in Nat /\ Len(q) \in Nat
  OBVIOUS
<1>2. a = r \o <<x>>
  BY Zenon, AppendOne
<1> HIDE DEF a
<1>3. a \o <<>> = a
  BY Zenon, <1>1, ConcatNone
<1>4. a \o q \in Seq(S) /\ Len(a \o q) = Len(a) + Len(q)
  BY <1>1
<1>5. SubSeq(a \o q, 1, Len(a)) = a
  BY Zenon, <1>1, ConcatPrefix
<1>6. Len(r) + 1 \in Len(r) .. Len(a \o q)
  BY <1>1, <1>4
<1>7. SubSeq(a \o q, 1, Len(r) + 1) = a
  BY Zenon, <1>1, <1>5
<1> QED
  BY Zenon, <1>1, <1>2, <1>3, <1>4, <1>6, <1>7 DEF a, MovesOne

(* What a consumer will get: the vector in its hands, and its queue        *)
InHand(p) == IF held[p] = NoEntry THEN <<>> ELSE <<content[held[p].vec]>>
Queued(p) == [k \in DOMAIN queue[p] |-> content[queue[p][k].vec]]

HistoryTypes ==
    /\ sent \in [Destinations -> Seq(Items)]
    /\ received \in [Destinations -> Seq(Items)]

OrderAt(p) == p \notin closed => sent[p] = received[p] \o InHand(p) \o Queued(p)

OrderInv == HistoryTypes /\ \A p \in Partitions : OrderAt(p)

(* A partition is a destination of the stream.                             *)
LEMMA IsDestination ==
    ASSUME exchange \in Exchanges, NEW p \in Partitions
    PROVE  p \in Destinations
  BY Zenon DEF Destinations, Partitions, NumPartitions

(* What is queued are items of the stream.                                 *)
LEMMA QueuedType ==
    ASSUME TypeInv, NEW p \in Partitions
    PROVE  /\ Queued(p) \in Seq(Items) /\ InHand(p) \in Seq(Items)
           /\ Len(Queued(p)) = Len(queue[p])
           /\ \A k \in DOMAIN queue[p] : queue[p][k].vec \in Items
<1>1. queue[p] \in Seq(Entry) /\ held[p] \in Entry \cup {NoEntry}
  BY Zenon DEF TypeInv, QueueTypes, ConsumerTypes
<1>2. content \in [Items -> Items]
  BY Zenon DEF TypeInv, PoolTypes
<1>3. \A k \in DOMAIN queue[p] : queue[p][k].vec \in Items
  <2>1. \A k \in DOMAIN queue[p] : queue[p][k] \in Entry
    BY <1>1
  <2> QED
    BY Zenon, <2>1 DEF Entry
<1>4. DOMAIN queue[p] = 1..Len(queue[p]) /\ Len(queue[p]) \in Nat
  BY <1>1
<1>5. \A k \in 1..Len(queue[p]) : content[queue[p][k].vec] \in Items
  BY Zenon, <1>2, <1>3, <1>4
<1>6. Queued(p) \in Seq(Items) /\ Len(Queued(p)) = Len(queue[p])
  <2>1. Queued(p) = [k \in 1..Len(queue[p]) |-> content[queue[p][k].vec]]
    BY Zenon, <1>4 DEF Queued
  <2> QED
    BY <1>4, <1>5, <2>1
<1>7. InHand(p) \in Seq(Items)
  <2>1. held[p] # NoEntry => content[held[p].vec] \in Items
    BY Zenon, <1>1, <1>2 DEF Entry
  <2>2. <<>> \in Seq(Items)
    OBVIOUS
  <2> QED
    BY <2>1, <2>2 DEF InHand
<1> QED
  BY Zenon, <1>3, <1>6, <1>7

(* Nothing is delivered yet.                                               *)
LEMMA InitOrder == Init => OrderInv
<1> SUFFICES ASSUME Init PROVE OrderInv
  BY Zenon
<1>1. HistoryTypes
  BY DEF Init, HistoryTypes
<1>2. ASSUME NEW p \in Partitions
      PROVE  OrderAt(p)
  <2>1. p \in Destinations
    BY Zenon, IsDestination DEF Init
  <2>2. /\ sent[p] = <<>> /\ received[p] = <<>> /\ queue[p] = <<>> /\ held[p] = NoEntry
    BY Zenon, <2>1 DEF Init
  <2>3. InHand(p) = <<>> /\ Queued(p) = <<>>
    BY <2>2 DEF InHand, Queued
  <2>4. <<>> \o <<>> \o <<>> = <<>>
    OBVIOUS
  <2> QED
    BY Zenon, <2>2, <2>3, <2>4 DEF OrderAt
<1> QED
  BY Zenon, <1>1, <1>2 DEF OrderInv
(* The vectors that partition p waits for keep their contents.             *)
LEMMA OrderFrame ==
    ASSUME TypeInv, NEW p \in Partitions, OrderAt(p), p \in closed => p \in closed',
           sent'[p] = sent[p], received'[p] = received[p],
           held'[p] = held[p], queue'[p] = queue[p],
           \A v \in Items : v \in Entries(queue[p]) => content'[v] = content[v],
           held[p] # NoEntry => content'[held[p].vec] = content[held[p].vec]
    PROVE  OrderAt(p)'
<1>1. \A k \in DOMAIN queue[p] :
         queue[p][k].vec \in Entries(queue[p]) /\ queue[p][k].vec \in Items
  BY Zenon, QueuedType DEF Entries
<1>2. Queued(p)' = Queued(p)
  BY Zenon, <1>1 DEF Queued
<1>3. InHand(p)' = InHand(p)
  BY Zenon DEF InHand
<1> QED
  BY Zenon, <1>2, <1>3 DEF OrderAt

(* A step that moves no item.                                              *)
LEMMA OrderFrameAll ==
    ASSUME TypeInv, OrderInv, exchange' = exchange, closed' = closed,
           UNCHANGED <<sent, received>>,
           held' = held, queue' = queue, content' = content
    PROVE  OrderInv'
<1>1. HistoryTypes'
  BY Zenon, Fixed DEF OrderInv, HistoryTypes
<1>2. \A p \in Partitions : OrderAt(p)'
  BY Zenon, OrderFrame DEF OrderInv
<1> QED
  BY Zenon, <1>1, <1>2, Fixed DEF OrderInv

(* The vector that getVector() returns is not in a queue, and not held.    *)
LEMMA GetVectorOrder ==
    ASSUME TypeInv, FreshInv, OrderInv, NEW i \in Producers, GetVector(i)
    PROVE  OrderInv'
<1>1. /\ exchange' = exchange /\ exchange \in Exchanges
      /\ UNCHANGED <<queue, held, closed, sent, received>> /\ ppc[i] = "getVector"
  BY Zenon DEF GetVector, TypeInv, queueVars, consumerVars, historyVars
<1>2. PICK v \in Items : v = vec'[i]
  BY Zenon, GetVectorTypes
<1>3. \A u \in Items : u # v => content'[u] = content[u]
  BY Zenon, <1>2, GetVectorTypes DEF TypeInv, PoolTypes
<1>4. \A p \in Partitions : v \notin Entries(queue[p]) /\ held[p].vec # v
  <2>1. CASE v = <<i, numInputs[i], part[i]>>
    <3>1. v[1] = i /\ v[2] = numInputs[i] /\ v[3] = part[i]
      BY Zenon, <2>1
    <3>2. part[i] \in Int
      BY <1>1, Constants DEF TypeInv, ProducerTypes
    <3>3. NotYet(v)
      BY <1>1, <3>1, <3>2 DEF NotYet
    <3> QED
      BY Zenon, <3>3 DEF FreshInv, InUse
  <2>2. CASE Reusable # {} /\ v = pool[Popped].vec
    <3>1. Popped \in Reusable
      BY Zenon, <2>2, PopType
    <3>2. Unreferenced(pool[Popped].vec,
                       SubSeq(pool, Popped + 1, Len(pool)))
      BY Zenon, <3>1 DEF Reusable
    <3> QED
      BY Zenon, <2>2, <3>2 DEF Unreferenced
  <2> QED
    BY Zenon, <1>2, <2>1, <2>2, GetVectorTypes
<1>5. \A p \in Partitions : OrderAt(p)'
  <2> TAKE p \in Partitions
  <2>1. held[p] # NoEntry => held[p].vec \in Items
    BY Zenon DEF TypeInv, ConsumerTypes, Entry
  <2>2. /\ \A u \in Items : u \in Entries(queue[p]) => content'[u] = content[u]
        /\ held[p] # NoEntry => content'[held[p].vec] = content[held[p].vec]
    BY Zenon, <1>3, <1>4, <2>1
  <2> QED
    BY Zenon, <1>1, <2>2, OrderFrame DEF OrderInv
<1>6. HistoryTypes'
  BY Zenon, <1>1, Fixed DEF OrderInv, HistoryTypes
<1> QED
  BY Zenon, <1>1, <1>5, <1>6, Fixed DEF OrderInv

(* enqueue appends to what is on its way to the partition.                 *)
LEMMA EnqueueOrder ==
    ASSUME TypeInv, OrderInv, NEW i \in Producers, Enqueue(i)
    PROVE  OrderInv'
<1>1. /\ exchange' = exchange /\ exchange \in Exchanges
      /\ UNCHANGED <<held, closed, content, received>>
  BY Zenon DEF Enqueue, TypeInv, consumerVars
<1>2. CASE part[i] \in closed
  <2>1. queue' = queue /\ sent' = sent
    BY Zenon, <1>2 DEF Enqueue
  <2> QED
    BY Zenon, <1>1, <2>1, OrderFrameAll
<1>3. CASE part[i] \notin closed
  <2>1. PICK n \in Partitions : n = part[i]
    BY Zenon, EnqueuedEntry
  <2>2. PICK e \in Entry : e = [vec |-> vec[i], bytes |-> InputBytes(input[i], part[i])]
    BY Zenon, EnqueuedEntry
  <2>3. PICK x \in Items : x = content[vec[i]]
    BY Zenon, EnqueuedEntry DEF TypeInv, PoolTypes
  <2>4. /\ queue' = [queue EXCEPT ![n] = Append(queue[n], e)]
        /\ sent' = [sent EXCEPT ![n] = Append(sent[n], x)]
    BY Zenon, <1>3, <2>1, <2>2, <2>3 DEF Enqueue
  <2>5. /\ sent \in [Destinations -> Seq(Items)] /\ received \in [Destinations -> Seq(Items)]
        /\ n \in Destinations /\ queue \in [Partitions -> Seq(Entry)]
    BY Zenon, <1>1, <2>1, IsDestination DEF OrderInv, HistoryTypes, TypeInv, QueueTypes
  <2>6. HistoryTypes'
    <3>1. sent' \in [Destinations -> Seq(Items)]
      <4>1. Append(sent[n], x) \in Seq(Items)
        BY <2>5
      <4> QED
        BY Zenon, <2>4, <2>5, <4>1
    <3> QED
      BY Zenon, <1>1, <2>5, <3>1, Fixed DEF HistoryTypes
  <2>7. ASSUME NEW p \in Partitions, p # n
        PROVE  OrderAt(p)'
    <3>1. queue'[p] = queue[p] /\ sent'[p] = sent[p]
      BY Zenon, <2>4, <2>5, <2>7, <1>1, IsDestination
    <3> QED
      BY Zenon, <1>1, <3>1, OrderFrame DEF OrderInv
  <2>8. OrderAt(n)'
    <3>1. sent'[n] = Append(sent[n], x) /\ queue'[n] = Append(queue[n], e)
      BY Zenon, <2>4, <2>5
    <3>2. sent[n] = received[n] \o InHand(n) \o Queued(n)
      BY Zenon, <1>3, <2>1 DEF OrderInv, OrderAt
    <3>3. InHand(n)' = InHand(n)
      BY Zenon, <1>1 DEF InHand
    <3>4. Queued(n)' = Append(Queued(n), x)
      <4>1. queue[n] \in Seq(Entry)
        BY Zenon, <2>5
      <4>2. /\ DOMAIN queue[n] = 1..Len(queue[n]) /\ Len(queue[n]) \in Nat
            /\ DOMAIN queue'[n] = 1..(Len(queue[n]) + 1)
            /\ \A k \in 1..Len(queue[n]) : queue'[n][k] = queue[n][k]
            /\ queue'[n][Len(queue[n]) + 1] = e
        BY <3>1, <4>1
      <4>3. content[e.vec] = x
        BY Zenon, <2>2, <2>3
      <4>4. Queued(n)' = [k \in 1..(Len(queue[n]) + 1) |-> content[queue'[n][k].vec]]
        BY Zenon, <1>1, <4>2 DEF Queued
      <4>5. Queued(n) \in Seq(Items) /\ Len(Queued(n)) = Len(queue[n])
        BY Zenon, QueuedType
      <4>6. Append(Queued(n), x) \in Seq(Items) /\ Len(Append(Queued(n), x)) = Len(queue[n]) + 1
        BY <4>5
      <4>7. ASSUME NEW k \in 1..(Len(queue[n]) + 1)
            PROVE  Append(Queued(n), x)[k] = content[queue'[n][k].vec]
        <5>1. CASE k = Len(queue[n]) + 1
          <6>1. Append(Queued(n), x)[Len(Queued(n)) + 1] = x
            BY <4>5
          <6> QED
            BY Zenon, <4>2, <4>3, <4>5, <5>1, <6>1
        <5>2. CASE k \in 1..Len(queue[n])
          <6>1. Queued(n)[k] = content[queue[n][k].vec]
            BY Zenon, <4>2, <5>2 DEF Queued
          <6>2. Append(Queued(n), x)[k] = Queued(n)[k]
            BY <4>5, <5>2
          <6> QED
            BY Zenon, <4>2, <5>2, <6>1, <6>2
        <5>3. Len(queue[n]) \in Nat
          BY Zenon, <4>2
        <5>4. k = Len(queue[n]) + 1 \/ k \in 1..Len(queue[n])
          BY <5>3
        <5> QED
          BY Zenon, <5>1, <5>2, <5>4
      <4>8. Append(Queued(n), x)
               = [k \in 1..(Len(queue[n]) + 1) |-> content[queue'[n][k].vec]]
        <5> DEFINE a == Append(Queued(n), x)
        <5>1. a \in Seq(Items) /\ Len(a) = Len(queue[n]) + 1
          BY Zenon, <4>6
        <5>2. \A k \in 1..(Len(queue[n]) + 1) : a[k] = content[queue'[n][k].vec]
          BY Zenon, <4>7
        <5> HIDE DEF a
        <5>3. a = [k \in 1..(Len(queue[n]) + 1) |-> content[queue'[n][k].vec]]
          BY <5>1, <5>2
        <5> QED
          BY Zenon, <5>3 DEF a
      <4> QED
        BY Zenon, <4>4, <4>8
    <3>5. received[n] \in Seq(Items) /\ InHand(n) \in Seq(Items) /\ Queued(n) \in Seq(Items)
      BY Zenon, <2>5, QueuedType
    <3>6. AppendsToLast(received[n], InHand(n), Queued(n), x)
      BY Zenon, <3>5, AppendLast
    <3> QED
      BY <1>1, <3>1, <3>2, <3>3, <3>4, <3>6 DEF OrderAt, AppendsToLast
  <2> QED
    BY Zenon, <1>1, <2>6, <2>7, <2>8, Fixed DEF OrderInv
<1> QED
  BY Zenon, <1>2, <1>3
(* next delivers the first item on its way.                                *)
LEMMA NextDataOrder ==
    ASSUME TypeInv, StateInv, OrderInv, NEW p \in Partitions, NextData(p)
    PROVE  OrderInv'
<1>1. /\ exchange' = exchange /\ exchange \in Exchanges
      /\ UNCHANGED <<closed, content, sent, received>>
      /\ cpc[p] = "run" /\ queue[p] # <<>>
      /\ held' = [held EXCEPT ![p] = Head(queue[p])]
      /\ queue' = [queue EXCEPT ![p] = Tail(queue[p])]
  BY Zenon DEF NextData, TypeInv, historyVars
<1>2. /\ queue \in [Partitions -> Seq(Entry)] /\ DOMAIN held = Partitions
      /\ content \in [Items -> Items]
  BY Zenon DEF TypeInv, QueueTypes, ConsumerTypes, PoolTypes
<1>3. \A q \in Partitions \ {p} : OrderAt(q)'
  <2> TAKE q \in Partitions \ {p}
  <2>1. held'[q] = held[q] /\ queue'[q] = queue[q]
    BY Zenon, <1>1, <1>2
  <2> QED
    BY Zenon, <1>1, <2>1, OrderFrame DEF OrderInv
<1>4. OrderAt(p)'
  <2>1. held[p] = NoEntry /\ p \notin closed
    BY Zenon, <1>1 DEF StateInv, ConsumerAt
  <2>2. sent[p] = received[p] \o <<>> \o Queued(p)
    BY Zenon, <2>1 DEF OrderInv, OrderAt, InHand
  <2>3. held'[p] = Head(queue[p]) /\ queue'[p] = Tail(queue[p])
    BY Zenon, <1>1, <1>2
  <2>4. Queued(p) \in Seq(Items) /\ Queued(p) # <<>> /\ received[p] \in Seq(Items)
    <3>1. Queued(p) \in Seq(Items) /\ Len(Queued(p)) = Len(queue[p])
      BY Zenon, QueuedType
    <3>2. Len(queue[p]) # 0 /\ queue[p] \in Seq(Entry)
      BY <1>1, <1>2
    <3>3. received[p] \in Seq(Items)
      BY Zenon, <1>1, IsDestination DEF OrderInv, HistoryTypes
    <3> QED
      BY Zenon, <3>1, <3>2, <3>3
  <2>5. TakesFirst(received[p], Queued(p))
    BY Zenon, <2>4, TakeFirst
  <2>6. /\ queue[p] \in Seq(Entry) /\ Len(queue[p]) \in Nat \ {0}
        /\ DOMAIN queue[p] = 1..Len(queue[p]) /\ Head(queue[p]) = queue[p][1]
        /\ Tail(queue[p]) \in Seq(Entry) /\ Len(Tail(queue[p])) = Len(queue[p]) - 1
        /\ \A k \in 1..(Len(queue[p]) - 1) : Tail(queue[p])[k] = queue[p][k + 1]
    BY <1>1, <1>2
  <2>7. held'[p] # NoEntry
    <3>1. Head(queue[p]) \in Entry
      BY Zenon, <1>1, HeadTypes
    <3>2. Head(queue[p]).vec \in Items
      BY Zenon, <3>1 DEF Entry
    <3>3. Head(queue[p]).vec # NoVector
      BY Zenon, <1>1, <3>2, ItemParts
    <3> QED
      BY <2>3, <3>3 DEF NoEntry
  <2>8. \A k \in 1..Len(queue[p]) : Queued(p)[k] = content[queue[p][k].vec]
    BY Zenon, <2>6 DEF Queued
  <2>9. InHand(p)' = <<Head(Queued(p))>>
    <3>1. Head(Queued(p)) = content[queue[p][1].vec]
      <4>1. Head(Queued(p)) = Queued(p)[1]
        BY <2>4
      <4>2. 1 \in 1..Len(queue[p])
        BY <2>6
      <4> QED
        BY Zenon, <2>8, <4>1, <4>2
    <3> QED
      BY Zenon, <1>1, <2>3, <2>6, <2>7, <3>1 DEF InHand
  <2>10. Queued(p)' = Tail(Queued(p))
    <3> DEFINE m == Len(queue[p]) - 1
               t == Tail(Queued(p))
    <3>1. m \in Nat /\ DOMAIN Tail(queue[p]) = 1..m
      BY <2>6
    <3>2. Queued(p)' = [k \in 1..m |-> content[queue[p][k + 1].vec]]
      <4>1. Queued(p)' = [k \in DOMAIN queue'[p] |-> content[queue'[p][k].vec]]
        BY <1>1 DEF Queued
      <4>2. \A k \in 1..m : queue'[p][k] = queue[p][k + 1]
        BY Zenon, <2>3, <2>6
      <4> QED
        BY Zenon, <2>3, <3>1, <4>1, <4>2
    <3>3. t \in Seq(Items) /\ Len(t) = m /\ \A k \in 1..m : t[k] = Queued(p)[k + 1]
      <4>1. Len(Queued(p)) = Len(queue[p])
        BY Zenon, QueuedType
      <4> QED
        BY <2>4, <4>1
    <3>4. \A k \in 1..m : t[k] = content[queue[p][k + 1].vec]
      BY <2>6, <2>8, <3>3
    <3> HIDE DEF t, m
    <3>5. t = [k \in 1..m |-> content[queue[p][k + 1].vec]]
      BY <3>3, <3>4
    <3> QED
      BY Zenon, <3>2, <3>5 DEF t
  <2> QED
    BY Zenon, <1>1, <2>2, <2>5, <2>9, <2>10 DEF OrderAt, TakesFirst
<1>5. HistoryTypes'
  BY Zenon, <1>1, Fixed DEF OrderInv, HistoryTypes
<1> QED
  BY <1>1, <1>3, <1>4, <1>5, Fixed DEF OrderInv

(* What Consume(p) makes of the history                                    *)
LEMMA ConsumeOrder ==
    ASSUME TypeInv, StateInv, OrderInv, NEW p \in Partitions, Consume(p)
    PROVE  /\ OrderInv'
           /\ received' = [received EXCEPT ![p] = SubSeq(sent[p], 1, Len(received[p]) + 1)]
           /\ Len(received[p]) + 1 \in Len(received[p]) .. Len(sent[p])
<1>1. /\ exchange' = exchange /\ exchange \in Exchanges
      /\ UNCHANGED <<closed, content, sent, queue>>
      /\ cpc[p] = "hold"
      /\ held' = [held EXCEPT ![p] = NoEntry]
      /\ received' = [received EXCEPT ![p] = Append(received[p], content[held[p].vec])]
  BY Zenon DEF Consume, TypeInv, queueVars
<1>2. DOMAIN held = Partitions /\ content \in [Items -> Items]
  BY Zenon DEF TypeInv, ConsumerTypes, PoolTypes
<1>3. /\ sent \in [Destinations -> Seq(Items)] /\ received \in [Destinations -> Seq(Items)]
      /\ \A q \in Partitions : q \in Destinations
  BY Zenon, <1>1, IsDestination DEF OrderInv, HistoryTypes
<1>4. \A q \in Partitions \ {p} : OrderAt(q)'
  <2> TAKE q \in Partitions \ {p}
  <2>1. held'[q] = held[q] /\ received'[q] = received[q]
    BY Zenon, <1>1, <1>2, <1>3
  <2> QED
    BY Zenon, <1>1, <2>1, OrderFrame DEF OrderInv
<1>5. held[p] \in Entry /\ p \notin closed
  BY Zenon, <1>1 DEF StateInv, ConsumerAt
<1>6. held[p].vec \in Items /\ held[p] # NoEntry
  <2>1. held[p].vec \in Items
    BY Zenon, <1>5 DEF Entry
  <2>2. held[p].vec # NoVector
    BY Zenon, <1>1, <2>1, ItemParts
  <2> QED
    BY <2>1, <2>2 DEF NoEntry
<1>7. PICK x \in Items : x = content[held[p].vec]
  BY Zenon, <1>2, <1>6
<1>8. InHand(p) = <<x>> /\ InHand(p)' = <<>>
  <2>1. held'[p] = NoEntry
    BY Zenon, <1>1, <1>2
  <2> QED
    BY Zenon, <1>6, <1>7, <2>1 DEF InHand
<1>9. sent[p] = received[p] \o <<x>> \o Queued(p)
  BY Zenon, <1>5, <1>8 DEF OrderInv, OrderAt
<1>10. received[p] \in Seq(Items) /\ Queued(p) \in Seq(Items)
  BY Zenon, <1>3, QueuedType
<1>11. MovesOne(received[p], Queued(p), x)
  BY Zenon, <1>10, MoveOne
<1>12. received'[p] = Append(received[p], x)
  BY Zenon, <1>1, <1>3, <1>7
<1>13. Queued(p)' = Queued(p)
  BY Zenon, <1>1 DEF Queued
<1>14. OrderAt(p)'
  BY Zenon, <1>1, <1>8, <1>9, <1>11, <1>12, <1>13 DEF OrderAt, MovesOne
<1>15. HistoryTypes'
  <2>1. received' \in [Destinations -> Seq(Items)]
    BY <1>1, <1>3, <1>7, <1>10
  <2> QED
    BY Zenon, <1>1, <1>3, <2>1, Fixed DEF HistoryTypes
<1>16. /\ received' = [received EXCEPT ![p] = SubSeq(sent[p], 1, Len(received[p]) + 1)]
       /\ Len(received[p]) + 1 \in Len(received[p]) .. Len(sent[p])
  BY Zenon, <1>1, <1>7, <1>9, <1>11 DEF MovesOne
<1> QED
  BY Zenon, <1>1, <1>4, <1>14, <1>15, <1>16, Fixed DEF OrderInv
(* Every step keeps the order in which items were enqueued.                *)
LEMMA NextOrder ==
    ASSUME TypeInv, StateInv, FreshInv, OrderInv, [Next]_vars
    PROVE  OrderInv'
<1>1. ASSUME exchange' = exchange, closed' = closed,
             UNCHANGED <<sent, received, held, queue, content>>
      PROVE  OrderInv'
  BY Zenon, <1>1, OrderFrameAll
<1>2. CASE Create
  BY Zenon, <1>1, <1>2 DEF Create, NoMoreProducers, AddProducer, consumerVars, historyVars
<1>3. ASSUME NEW i \in Producers, Produce(i)
      PROVE  OrderInv'
  <2>1. CASE GetVector(i) \/ Enqueue(i)
    BY Zenon, <2>1, GetVectorOrder, EnqueueOrder
  <2>2. CASE ~(GetVector(i) \/ Enqueue(i))
    BY Zenon, <1>1, <1>3, <2>2 DEF Produce, AddInput, EnqueueNotify, NoMoreInput, NoMoreData,
                            NoMoreDataNotify, queueVars, consumerVars, historyVars
  <2> QED
    BY Zenon, <2>1, <2>2
<1>4. ASSUME NEW p \in Partitions, Fetch(p) \/ Close(p)
      PROVE  OrderInv'
  <2>1. CASE NextData(p) \/ Consume(p)
    BY Zenon, <2>1, NextDataOrder, ConsumeOrder
  <2>2. CASE Close(p)
    <3>1. /\ exchange' = exchange /\ closed' = closed \cup {p}
          /\ UNCHANGED <<sent, received, content>>
          /\ held' = [held EXCEPT ![p] = NoEntry]
          /\ queue' = [queue EXCEPT ![p] = <<>>]
      BY Zenon, <2>2 DEF Close, historyVars
    <3>2. DOMAIN held = Partitions /\ DOMAIN queue = Partitions
      BY Zenon DEF TypeInv, ConsumerTypes, QueueTypes
    <3>3. ASSUME NEW q \in Partitions
          PROVE  OrderAt(q)'
      <4>1. CASE q = p
        BY Zenon, <3>1, <4>1 DEF OrderAt
      <4>2. CASE q # p
        <5>1. held'[q] = held[q] /\ queue'[q] = queue[q]
          BY Zenon, <3>1, <3>2, <4>2
        <5> QED
          BY Zenon, <3>1, <5>1, OrderFrame DEF OrderInv
      <4> QED
        BY Zenon, <4>1, <4>2
    <3>4. HistoryTypes'
      BY Zenon, <3>1, Fixed DEF OrderInv, HistoryTypes
    <3> QED
      BY Zenon, <3>1, <3>3, <3>4, Fixed DEF OrderInv
  <2>3. CASE NextFinished(p) \/ NextBlocks(p) \/ NextNotify(p) \/ Push(p) \/ CloseNotify(p)
    BY Zenon, <1>1, <2>3 DEF NextFinished, NextBlocks, NextNotify, Push, CloseNotify, queueVars,
                      consumerVars, historyVars
  <2> QED
    BY Zenon, <1>4, <2>1, <2>2, <2>3 DEF Fetch
<1>5. CASE UNCHANGED vars
  BY Zenon, <1>1, <1>5 DEF vars, queueVars, consumerVars, historyVars
<1> QED
  BY Zenon, <1>2, <1>3, <1>4, <1>5 DEF Next

-----------------------------------------------------------------------------
(* The refinement                                                          *)

StateAt(p) ==
    IF p \in closed THEN "closed"
    ELSE IF p \in Partitions /\ cpc[p] = "finished" THEN "ended"
    ELSE "open"

StreamItems == UNION {(1..x.producers) \X (1..x.maxInputs) \X Destinations : x \in Exchanges}

(* Items of the exchange are items of the stream.                          *)
LEMMA ItemsAreStreamItems ==
    ASSUME exchange \in Exchanges
    PROVE  Items \subseteq StreamItems
<1> SUFFICES ASSUME NEW v \in Items
             PROVE  v \in StreamItems
  BY Zenon
<1>1. /\ v[1] \in Producers /\ v[2] \in 1..MaxInputs /\ v[3] \in Partitions
      /\ v = <<v[1], v[2], v[3]>>
  BY Zenon, ItemParts
<1>2. v[3] \in Destinations
  BY Zenon, <1>1, IsDestination
<1>3. v \in (1..exchange.producers) \X (1..exchange.maxInputs) \X Destinations
  BY Zenon, <1>1, <1>2 DEF Producers, MaxInputs
<1> QED
  BY Zenon, <1>3 DEF StreamItems

(* The steps of a stream                                                   *)
LEMMA SendStep ==
    ASSUME TypeInv, EndInv, OrderInv, NEW i \in Producers, Enqueue(i), part[i] \notin closed
    PROVE  Stream!Send
<1>1. PICK n \in Partitions : n = part[i]
  BY Zenon, EnqueuedEntry
<1>2. PICK x \in Items : x = content[vec[i]]
  BY Zenon, EnqueuedEntry DEF TypeInv, PoolTypes
<1>3. /\ exchange' = exchange /\ exchange \in Exchanges /\ UNCHANGED <<received, closed, cpc>>
      /\ sent' = [sent EXCEPT ![n] = Append(sent[n], x)]
  BY Zenon, <1>1, <1>2 DEF Enqueue, TypeInv
<1>4. n \in Destinations /\ sent \in [Destinations -> Seq(Items)]
  BY Zenon, <1>3, IsDestination DEF OrderInv, HistoryTypes
<1>5. sent' \in [Destinations -> Seq(StreamItems)]
  <2>1. sent' \in [Destinations -> Seq(Items)]
    <3>1. Append(sent[n], x) \in Seq(Items)
      BY <1>4
    <3> QED
      BY Zenon, <1>3, <1>4, <3>1
  <2>2. Items \subseteq StreamItems
    BY Zenon, <1>3, ItemsAreStreamItems
  <2>3. \A d \in Destinations : sent'[d] \in Seq(StreamItems)
    BY Zenon, <2>1, <2>2, SeqSubset
  <2> QED
    BY Zenon, <2>1, <2>3
<1>6. cpc[n] # "finished"
  <2>1. ppc[i] \in Adding
    BY Zenon DEF Enqueue, Adding
  <2>2. Pending(i, n)
    BY Zenon, <2>1 DEF Pending
  <2>3. Counts(pendingProducers[n], PendingOf(n)) /\ i \in PendingOf(n)
    BY Zenon, <2>2 DEF EndInv, PendingOf
  <2>4. pendingProducers[n] # 0
    BY Zenon, <2>3, CountsSome
  <2> QED
    BY Zenon, <2>4 DEF EndInv
<1>7. ASSUME NEW d \in Destinations
      PROVE  /\ \E k \in 0..Len(sent'[d]) : sent[d] = SubSeq(sent'[d], 1, k)
             /\ sent'[d] # sent[d] => StateAt(d) = "open"
  <2>1. sent[d] \in Seq(Items) /\ Len(sent[d]) \in Nat
    BY <1>4
  <2>2. CASE d = n
    <3> DEFINE s == sent[n]
               a == Append(s, x)
    <3>1. s \in Seq(Items) /\ a \in Seq(Items) /\ Len(a) = Len(s) + 1 /\ Len(s) \in Nat
      BY <1>4
    <3>2. sent'[d] = a /\ sent[d] = s
      BY Zenon, <1>3, <1>4, <2>2
    <3>3. s = SubSeq(a, 1, Len(s)) /\ Len(s) \in 0..Len(a)
      BY <3>1
    <3> HIDE DEF s, a
    <3>4. \E k \in 0..Len(sent'[d]) : sent[d] = SubSeq(sent'[d], 1, k)
      BY Zenon, <3>2, <3>3
    <3>5. StateAt(d) = "open"
      BY Zenon, <1>1, <1>6, <2>2 DEF StateAt
    <3> QED
      BY Zenon, <3>4, <3>5
  <2>3. CASE d # n
    <3>1. sent'[d] = sent[d]
      BY Zenon, <1>3, <1>4, <2>3
    <3>2. sent[d] = SubSeq(sent[d], 1, Len(sent[d])) /\ Len(sent[d]) \in 0..Len(sent[d])
      BY <2>1
    <3> QED
      BY Zenon, <3>1, <3>2
  <2> QED
    BY Zenon, <2>2, <2>3
<1>8. \A d \in Destinations : StateAt(d)' = StateAt(d)
  BY Zenon, <1>3, Fixed DEF StateAt
<1> QED
  BY Zenon, <1>3, <1>5, <1>7, <1>8 DEF Stream!Send, StateAt, StreamItems
(* next that finds the queue at its end tells so in the stream.            *)
LEMMA EndStep ==
    ASSUME TypeInv, StateInv, OrderInv, NEW p \in Partitions, NextFinished(p)
    PROVE  Stream!Receive(p)
<1>1. /\ exchange' = exchange /\ exchange \in Exchanges
      /\ UNCHANGED <<sent, received, closed, queue>>
      /\ cpc[p] = "run" /\ queue[p] = <<>> /\ cpc' = [cpc EXCEPT ![p] = "finished"]
  BY Zenon DEF NextFinished, TypeInv, historyVars, queueVars
<1>2. /\ p \in Destinations /\ sent[p] \in Seq(Items) /\ received[p] \in Seq(Items)
      /\ DOMAIN received = Destinations /\ DOMAIN cpc = Partitions
  BY Zenon, <1>1, IsDestination DEF OrderInv, HistoryTypes, TypeInv, ConsumerTypes
<1>3. p \notin closed /\ held[p] = NoEntry
  BY Zenon, <1>1 DEF StateInv, ConsumerAt
<1>4. InHand(p) = <<>> /\ Queued(p) = <<>>
  BY <1>1, <1>3 DEF InHand, Queued
<1>5. received[p] = sent[p]
  <2>1. sent[p] = received[p] \o <<>> \o <<>>
    BY Zenon, <1>3, <1>4 DEF OrderInv, OrderAt
  <2>2. received[p] \o <<>> = received[p]
    BY Zenon, <1>2, ConcatNone
  <2> QED
    BY Zenon, <2>1, <2>2
<1>6. \E n \in Len(received[p]) .. Len(sent[p]) :
         received' = [received EXCEPT ![p] = SubSeq(sent[p], 1, n)]
  <2>1. Len(sent[p]) \in Len(received[p]) .. Len(sent[p])
    BY <1>2, <1>5
  <2>2. SubSeq(sent[p], 1, Len(sent[p])) = received[p]
    BY <1>2, <1>5
  <2>3. received' = [received EXCEPT ![p] = received[p]]
    <3>1. received \in [Destinations -> Seq(Items)]
      BY Zenon DEF OrderInv, HistoryTypes
    <3> QED
      BY Zenon, <1>1, <3>1
  <2> QED
    BY Zenon, <2>1, <2>2, <2>3
<1> DEFINE s == [d \in Destinations |-> StateAt(d)]
<1>7. s[p] = "open"
  BY Zenon, <1>1, <1>2, <1>3 DEF StateAt
<1>8. s' = [s EXCEPT ![p] = "ended"]
  <2>1. \A d \in Destinations : StateAt(d)' = IF d = p THEN "ended" ELSE StateAt(d)
    <3> TAKE d \in Destinations
    <3>1. CASE d = p
      BY <1>1, <1>2, <1>3, <3>1, Fixed DEF StateAt
    <3>2. CASE d # p
      BY Zenon, <1>1, <1>2, <3>2, Fixed DEF StateAt
    <3> QED
      BY Zenon, <3>1, <3>2
  <2> QED
    BY Zenon, <1>2, <2>1
<1>9. received'[p] = sent[p]
  BY Zenon, <1>1, <1>5
<1> QED
  BY Zenon, <1>1, <1>6, <1>7, <1>8, <1>9 DEF Stream!Receive, StateAt

(* next that takes an entry is a receive of the stream.                    *)
LEMMA ReceiveStep ==
    ASSUME TypeInv, StateInv, OrderInv, NEW p \in Partitions, Consume(p)
    PROVE  Stream!Receive(p)
<1>1. /\ exchange' = exchange /\ UNCHANGED <<sent, closed>>
      /\ cpc[p] = "hold" /\ cpc' = [cpc EXCEPT ![p] = "run"]
  BY Zenon DEF Consume, queueVars
<1>2. \E n \in Len(received[p]) .. Len(sent[p]) :
         received' = [received EXCEPT ![p] = SubSeq(sent[p], 1, n)]
  BY Zenon, ConsumeOrder
<1>3. DOMAIN cpc = Partitions
  BY Zenon DEF TypeInv, ConsumerTypes
<1>4. \A d \in Destinations : StateAt(d)' = StateAt(d)
  BY Zenon, <1>1, <1>3, Fixed DEF StateAt
<1> QED
  BY Zenon, <1>1, <1>2, <1>4 DEF Stream!Receive, StateAt

(* close of a queue is a close of the stream.                              *)
LEMMA CloseStep ==
    ASSUME TypeInv, StateInv, NEW p \in Partitions, Close(p)
    PROVE  Stream!Close(p)
<1>1. /\ exchange' = exchange /\ UNCHANGED <<sent, received>> /\ closed' = closed \cup {p}
      /\ cpc[p] \notin {"closing", "closed"}
      /\ \E c \in {"closed", "closing"} : cpc' = [cpc EXCEPT ![p] = c]
  BY Zenon DEF Close, historyVars
<1>2. p \notin closed
  BY Zenon, <1>1 DEF StateInv, ConsumerAt
<1>3. DOMAIN cpc = Partitions /\ p \in Destinations
  BY Zenon, IsDestination DEF TypeInv, ConsumerTypes
<1> DEFINE s == [d \in Destinations |-> StateAt(d)]
<1>4. s[p] # "closed"
  BY Zenon, <1>2, <1>3 DEF StateAt
<1>5. s' = [s EXCEPT ![p] = "closed"]
  <2>1. \A d \in Destinations : StateAt(d)' = IF d = p THEN "closed" ELSE StateAt(d)
    <3> TAKE d \in Destinations
    <3>1. CASE d = p
      BY Zenon, <1>1, <3>1 DEF StateAt
    <3>2. CASE d # p
      <4>1. d \in closed' <=> d \in closed
        BY Zenon, <1>1, <3>2
      <4>2. d \in Partitions => cpc'[d] = cpc[d]
        BY Zenon, <1>1, <1>3, <3>2
      <4> QED
        BY <1>1, <3>2, <4>1, <4>2, Fixed DEF StateAt
    <3> QED
      BY Zenon, <3>1, <3>2
  <2> QED
    BY Zenon, <1>3, <2>1
<1> QED
  BY Zenon, <1>1, <1>4, <1>5 DEF Stream!Close, StateAt

(* The other steps are not seen.                                           *)
LEMMA Unseen ==
    ASSUME exchange' = exchange, UNCHANGED <<sent, received, closed>>,
           \A p \in Partitions : cpc'[p] = "finished" <=> cpc[p] = "finished"
    PROVE  UNCHANGED Stream!vars
<1>1. \A d \in Destinations : StateAt(d)' = StateAt(d)
  BY Zenon, Fixed DEF StateAt
<1> QED
  BY Zenon, <1>1 DEF Stream!vars, StateAt

(* Every step of the exchange is one of the stream, or none.               *)
LEMMA StreamStep ==
    ASSUME TypeInv, StateInv, EndInv, OrderInv, [Next]_vars
    PROVE  Stream!Next \/ UNCHANGED Stream!vars
<1>1. CASE Create
  <2>1. exchange' = exchange /\ UNCHANGED <<sent, received, closed>>
    BY Zenon, <1>1 DEF Create, NoMoreProducers, AddProducer, historyVars
  <2>2. \A p \in Partitions : cpc'[p] # "finished" /\ cpc[p] # "finished"
    <3>1. /\ ~noMoreProducers
          /\ cpc' = cpc \/ cpc' = [p \in Partitions |-> "run"]
      BY Zenon, <1>1 DEF Create, NoMoreProducers, AddProducer
    <3> QED
      BY Zenon, <3>1 DEF StateInv
  <2> QED
    BY Zenon, <2>1, <2>2, Unseen
<1>2. ASSUME NEW i \in Producers, Produce(i)
      PROVE  Stream!Next \/ UNCHANGED Stream!vars
  <2>1. CASE Enqueue(i) /\ part[i] \notin closed
    BY Zenon, <2>1, SendStep DEF Stream!Next
  <2>2. CASE Enqueue(i) /\ part[i] \in closed
    <3>1. exchange' = exchange /\ UNCHANGED <<sent, received, closed, cpc>>
      BY Zenon, <2>2 DEF Enqueue
    <3> QED
      BY Zenon, <3>1, Unseen
  <2>3. CASE EnqueueNotify(i) \/ NoMoreDataNotify(i)
    <3>1. exchange' = exchange /\ UNCHANGED <<sent, received, closed>> /\ notify(pNotify[i])
      BY Zenon, <2>3 DEF EnqueueNotify, NoMoreDataNotify, historyVars, queueVars
    <3>2. \A p \in Partitions : cpc'[p] = "finished" <=> cpc[p] = "finished"
      BY Zenon, <3>1 DEF notify
    <3> QED
      BY <3>1, <3>2, Unseen
  <2>4. CASE AddInput(i) \/ GetVector(i) \/ NoMoreInput(i) \/ NoMoreData(i)
    <3>1. exchange' = exchange /\ UNCHANGED <<sent, received, closed, cpc>>
      BY Zenon, <2>4 DEF AddInput, GetVector, NoMoreInput, NoMoreData, historyVars, queueVars
    <3> QED
      BY Zenon, <3>1, Unseen
  <2> QED
    BY <1>2, <2>1, <2>2, <2>3, <2>4 DEF Produce
<1>3. ASSUME NEW p \in Partitions, Fetch(p) \/ Close(p)
      PROVE  Stream!Next \/ UNCHANGED Stream!vars
  <2>1. p \in Destinations
    BY Zenon, IsDestination DEF TypeInv
  <2>2. CASE NextFinished(p) \/ Consume(p)
    BY <2>1, <2>2, EndStep, ReceiveStep DEF Stream!Next
  <2>3. CASE Close(p)
    BY <2>1, <2>3, CloseStep DEF Stream!Next
  <2>4. CASE NextBlocks(p) \/ NextData(p) \/ NextNotify(p) \/ Push(p) \/ CloseNotify(p)
    <3>1. exchange' = exchange /\ UNCHANGED <<sent, received, closed>>
      BY Zenon, <2>4 DEF NextBlocks, NextData, NextNotify, Push, CloseNotify, historyVars, queueVars
    <3>2. /\ cpc[p] # "finished"
          /\ \E c \in {"waiting", "notify", "push", "hold", "closed"} :
                cpc' = [cpc EXCEPT ![p] = c]
      BY Zenon, <2>4 DEF NextBlocks, NextData, NextNotify, Push, CloseNotify
    <3>3. \A q \in Partitions : cpc'[q] = "finished" <=> cpc[q] = "finished"
      BY Zenon, <3>2 DEF TypeInv, ConsumerTypes
    <3> QED
      BY <3>1, <3>3, Unseen
  <2> QED
    BY <1>3, <2>2, <2>3, <2>4 DEF Fetch
<1>4. CASE UNCHANGED vars
  <2>1. exchange' = exchange /\ UNCHANGED <<sent, received, closed, cpc>>
    BY Zenon, <1>4 DEF vars, historyVars, queueVars
  <2> QED
    BY Zenon, <2>1, Unseen
<1> QED
  BY <1>1, <1>2, <1>3, <1>4 DEF Next

(* The created exchange is a created stream.                               *)
LEMMA StreamInit == Init => Stream!Init
<1> SUFFICES ASSUME Init PROVE Stream!Init
  BY Zenon
<1>1. \A d \in Destinations : StateAt(d) = "open"
  BY Zenon DEF Init, StateAt
<1> QED
  BY <1>1 DEF Init, Stream!Init, StateAt

(* The local exchange implements PageStream: every consumer gets what was  *)
(* enqueued for it, in order, once, and not overwritten by the reuse of a  *)
(* vector; a consumer that is told of the end has got all of it, and       *)
(* nothing is enqueued for it afterwards.                                  *)
THEOREM LocalDelivery == Spec => Delivery
<1> DEFINE Inv == TypeInv /\ StateInv /\ EndInv /\ FreshInv /\ OrderInv
<1>1. Init => Inv
  BY InitTypes, InitState, InitEnd, InitFresh, InitOrder
<1>2. Inv /\ [Next]_vars => Inv'
  BY NextTypesAndStates, NextEnd, NextFresh, NextOrder
<1>3. Inv /\ [Next]_vars => [Stream!Next]_(Stream!vars)
  BY Zenon, StreamStep
<1>4. Init => Stream!Init
  BY Zenon, StreamInit
<1> QED
  BY <1>1, <1>2, <1>3, <1>4, PTL DEF Spec, Delivery, Stream!Spec
============================================================================
