---------------------------- MODULE LocalExchange ---------------------------
(* A local exchange: LocalPartition operators of the producer drivers      *)
(* enqueue to one LocalExchangeQueue per consumer driver; all the queues   *)
(* share a LocalExchangeMemoryManager and a LocalExchangeVectorPool.  A    *)
(* critical section is a step; promises taken out of a queue or of the     *)
(* memory manager are fulfilled in a later step, outside of the lock.      *)
EXTENDS Integers, Sequences, FiniteSets, FiniteSetsExt, Sums

CONSTANTS Exchanges,       \* the exchanges to consider, see below
          MaxBufferSize    \* of the memory manager, the pool's capacity too

VARIABLE exchange          \* the one that is executed: never changes

(* An exchange has drivers with a LocalPartition and drivers with a        *)
(* LocalExchange, one queue each, of which some may close early; addInput  *)
(* is given one of the inputs.  Bound: the number of inputs of a producer. *)
Producers == 1..exchange.producers
NumPartitions == exchange.partitions
Partitions == 1..NumPartitions
Inputs == exchange.inputs
MaxInputs == exchange.maxInputs

(* An input has a retained size, and a number of rows for each partition.  *)
(* A partition function may report that all rows go to one partition; the  *)
(* input is then passed through as it is.                                  *)
NumRows(in) == SumSeq(in.rows)

ASSUME ExchangeAssumption ==
    /\ MaxBufferSize \in Nat \ {0}
    /\ \A x \in Exchanges : LET parts == 1..x.partitions IN
          /\ x.producers \in Nat \ {0} /\ x.partitions \in Nat \ {0}
          /\ x.maxInputs \in Nat /\ x.early \subseteq parts
          /\ IsFiniteSet(x.inputs) /\ x.inputs # {}
          /\ \A in \in x.inputs :
                /\ in.total \in Nat /\ in.single \in BOOLEAN
                /\ in.rows \in [parts -> Nat]
                /\ \E p \in parts : in.rows[p] > 0 /\ \A q \in 1..(p - 1) : in.rows[q] = 0
                /\ in.single => \E p \in parts : \A q \in parts \ {p} : in.rows[q] = 0
                /\ x.partitions = 1 => in.single

VARIABLES
    queue,             \* [Partitions -> Seq([vec, bytes])]
    pendingProducers,  \* [Partitions -> Int]
    noMoreProducers,   \* BOOLEAN: set on all the queues by the task
    closed,            \* partitions whose queue is closed
    consumerPromises,  \* partitions whose queue holds a promise of next()
    bufferedBytes,     \* of the memory manager
    promises,          \* of the memory manager: <<producer, partition>>
    pool, totalSize,   \* of the vector pool
    content,           \* [vectors -> what they hold]
    ppc, part, input, numInputs, futures, vec, upstream, pNotify,
    cpc, held, cNotify,
    sent, received     \* history: what was enqueued and what was consumed

queueVars == <<queue, pendingProducers, noMoreProducers, closed, consumerPromises>>
memoryVars == <<bufferedBytes, promises>>
poolVars == <<pool, totalSize>>
producerVars == <<ppc, part, input, numInputs, vec, upstream, pNotify>>
consumerVars == <<held, cNotify>>
historyVars == <<sent, received>>
vars == <<exchange, queueVars, memoryVars, poolVars, content, producerVars,
          futures, cpc, consumerVars, historyVars>>

(* The rows of one partition of one input.  A vector is named by the rows  *)
(* it was allocated for; what it holds changes when it is reused.          *)
Items == Producers \X (1..MaxInputs) \X Partitions
NoVector == <<0, 0, 0>>
NoInput == [total |-> 0, single |-> FALSE, rows |-> <<>>]
NoEntry == [vec |-> NoVector, bytes |-> 0]

Entries(q) == {q[k].vec : k \in DOMAIN q}

(* Mutant: a vector is reused although a consumer still holds it.          *)
MutUnreferenced(v, rest) ==
    /\ v \notin Entries(rest)
    /\ \A p \in Partitions : v \notin Entries(queue[p])
    /\ \A i \in Producers : vec[i] # v /\ upstream[i] # v

(* use_count() of a vector out of the pool is one: no queue, operator,     *)
(* producer or other entry of the pool refers to it.                       *)
Unreferenced(v, rest) ==
    /\ v \notin Entries(rest)
    /\ \A p \in Partitions : v \notin Entries(queue[p]) /\ held[p].vec # v
    /\ \A i \in Producers : vec[i] # v /\ upstream[i] # v

(* The queues of all the exchanges, for the history.                       *)
Destinations == UNION {1..x.partitions : x \in Exchanges}

Bytes(q) == SumSeq([k \in DOMAIN q |-> q[k].bytes])

-----------------------------------------------------------------------------
(* LocalExchangeMemoryManager                                              *)

(* Mutant: the buffer counts as full only above its limit.                 *)
MutIncreaseMemoryUsage(i, p, added) ==
    /\ bufferedBytes' = bufferedBytes + added
    /\ IF bufferedBytes' > MaxBufferSize
       THEN /\ promises' = promises \cup {<<i, p>>}
            /\ futures' = [futures EXCEPT ![i] = @ \cup {p}]
       ELSE UNCHANGED <<promises, futures>>

increaseMemoryUsage(i, p, added) ==
    /\ bufferedBytes' = bufferedBytes + added
    /\ IF bufferedBytes' >= MaxBufferSize
       THEN /\ promises' = promises \cup {<<i, p>>}
            /\ futures' = [futures EXCEPT ![i] = @ \cup {p}]
       ELSE UNCHANGED <<promises, futures>>

(* The promises decreaseMemoryUsage(removed) hands to its caller.          *)
Released(removed) ==
    IF bufferedBytes - removed < MaxBufferSize THEN promises ELSE {}

decreaseMemoryUsage(removed) ==
    /\ bufferedBytes' = bufferedBytes - removed
    /\ promises' = promises \ Released(removed)

(* Fulfils promises: consumers and producers that waited may run again.    *)
notify(S) ==
    /\ cpc' = [p \in Partitions |->
                  IF <<0, p>> \in S /\ cpc[p] = "waiting" THEN "run" ELSE cpc[p]]
    /\ futures' = [i \in Producers |->
                      {p \in futures[i] : <<i, p>> \notin S}]

(* Mutant: the promise of a waiting consumer is dropped.                   *)
MutConsumer(p) == {}

(* The promise of the consumer of partition p, if next() left one.         *)
Consumer(p) == IF p \in consumerPromises THEN {<<0, p>>} ELSE {}

-----------------------------------------------------------------------------
(* The task creates the operators and announces the end of the producers   *)
(* before any driver runs.                                                 *)

(* LocalPartition's constructor: addProducer() on every queue.             *)
AddProducer(i) ==
    /\ ppc[i] = "create"
    /\ ~noMoreProducers
    /\ ppc' = [ppc EXCEPT ![i] = "run"]
    /\ pendingProducers' = [p \in Partitions |-> pendingProducers[p] + 1]
    /\ UNCHANGED <<exchange, queue, noMoreProducers, closed, consumerPromises, memoryVars,
                   poolVars, content, part, input, numInputs, vec, upstream,
                   pNotify, futures, cpc, consumerVars, historyVars>>

NoMoreProducers ==
    /\ \A i \in Producers : ppc[i] # "create"
    /\ ~noMoreProducers
    /\ noMoreProducers' = TRUE
    /\ cpc' = [p \in Partitions |-> "run"]
    /\ UNCHANGED <<exchange, queue, pendingProducers, closed, consumerPromises, memoryVars,
                   poolVars, content, producerVars, futures, consumerVars,
                   historyVars>>

-----------------------------------------------------------------------------
(* LocalPartition                                                          *)

(* The first partition from p on that gets rows of an input.               *)
NextPart(in, p) ==
    LET next == {q \in p..NumPartitions :
                    in.rows[q] > 0 /\ \A r \in p..(q - 1) : in.rows[r] = 0}
    IN  IF next = {} THEN 0 ELSE CHOOSE q \in next : TRUE

(* addInput() goes on with partition p, or is done when there is none.     *)
(* Only partition data is wrapped in a vector of the pool.                 *)
AddTo(i, in, p) ==
    /\ part' = [part EXCEPT ![i] = p]
    /\ input' = [input EXCEPT ![i] = IF p = 0 THEN NoInput ELSE in]
    /\ ppc' = [ppc EXCEPT ![i] = IF p = 0 THEN "run"
                                 ELSE IF in.single THEN "enqueue" ELSE "getVector"]

(* addInput(): called when isBlocked() has no future to wait for.  In the  *)
(* single partition case the input itself is enqueued, and the operator    *)
(* upstream may keep a reference to it until it makes the next one.        *)
AddInput(i) ==
    /\ ppc[i] = "run" /\ noMoreProducers
    /\ futures[i] = {}
    /\ numInputs[i] < MaxInputs
    /\ numInputs' = [numInputs EXCEPT ![i] = @ + 1]
    /\ \E in \in Inputs :
          /\ AddTo(i, in, NextPart(in, 1))
          /\ IF in.single
             THEN /\ vec' = [vec EXCEPT ![i] = <<i, numInputs'[i], NextPart(in, 1)>>]
                  /\ upstream' = [upstream EXCEPT ![i] = vec'[i]]
             ELSE /\ upstream' = [upstream EXCEPT ![i] = NoVector]
                  /\ UNCHANGED vec
    /\ UNCHANGED <<exchange, queueVars, memoryVars, poolVars, content, pNotify, futures,
                   cpc, consumerVars, historyVars>>

(* The entry of the pool that pop() returns: the first nobody else uses.   *)
Reusable ==
    {k \in DOMAIN pool :
        /\ Unreferenced(pool[k].vec, SubSeq(pool, k + 1, Len(pool)))
        /\ \A j \in 1..(k - 1) :
              ~Unreferenced(pool[j].vec, SubSeq(pool, j + 1, Len(pool)))}
Popped == CHOOSE k \in Reusable : TRUE

(* LocalExchangeVectorPool::pop() drops the entries it passes over.        *)
pop ==
    LET k == IF Reusable = {} THEN Len(pool) ELSE Popped
    IN  /\ pool' = SubSeq(pool, k + 1, Len(pool))
        /\ totalSize' = totalSize - Bytes(SubSeq(pool, 1, k))

(* getVector() and wrapChildren(): the partition's rows are wrapped in a   *)
(* vector of the pool or in a new one.                                     *)
GetVector(i) ==
    /\ ppc[i] = "getVector"
    /\ pop
    /\ LET item == <<i, numInputs[i], part[i]>>
           v == IF Reusable = {} THEN item ELSE pool[Popped].vec
       IN  /\ vec' = [vec EXCEPT ![i] = v]
           /\ content' = [content EXCEPT ![v] = item]
    /\ ppc' = [ppc EXCEPT ![i] = "enqueue"]
    /\ UNCHANGED <<exchange, queueVars, memoryVars, part, input, numInputs, upstream,
                   pNotify, futures, cpc, consumerVars, historyVars>>

(* The bytes enqueue() is charged for a partition.                         *)
InputBytes(in, p) ==
    IF in.single THEN in.total ELSE (in.total * in.rows[p]) \div NumRows(in)

(* LocalExchangeQueue::enqueue(): drops the data when the queue is closed. *)
Enqueue(i) ==
    LET p == part[i]
        bytes == InputBytes(input[i], p)
    IN  /\ ppc[i] = "enqueue"
        /\ vec' = [vec EXCEPT ![i] = NoVector]
        /\ IF p \in closed
           THEN /\ AddTo(i, input[i], NextPart(input[i], p + 1))
                /\ UNCHANGED <<queue, consumerPromises, memoryVars, futures,
                               pNotify, sent>>
           ELSE /\ queue' = [queue EXCEPT ![p] =
                                Append(@, [vec |-> vec[i], bytes |-> bytes])]
                /\ sent' = [sent EXCEPT ![p] = Append(@, content[vec[i]])]
                /\ pNotify' = [pNotify EXCEPT ![i] = Consumer(p)]
                /\ consumerPromises' = consumerPromises \ {p}
                /\ increaseMemoryUsage(i, p, bytes)
                /\ IF Consumer(p) = {}
                   THEN AddTo(i, input[i], NextPart(input[i], p + 1))
                   ELSE /\ ppc' = [ppc EXCEPT ![i] = "notify"]
                        /\ UNCHANGED <<part, input>>
        /\ UNCHANGED <<exchange, pendingProducers, noMoreProducers, closed, poolVars,
                       content, numInputs, upstream, cpc, consumerVars,
                       received>>

(* The end of enqueue(), and on to the next partition.                     *)
EnqueueNotify(i) ==
    /\ ppc[i] = "notify"
    /\ notify(pNotify[i])
    /\ pNotify' = [pNotify EXCEPT ![i] = {}]
    /\ AddTo(i, input[i], NextPart(input[i], part[i] + 1))
    /\ UNCHANGED <<exchange, queueVars, memoryVars, poolVars, content, numInputs, vec,
                   upstream, consumerVars, historyVars>>

NoMoreInput(i) ==
    /\ ppc[i] = "run" /\ noMoreProducers
    /\ futures[i] = {}
    /\ ppc' = [ppc EXCEPT ![i] = "noMoreData"]
    /\ part' = [part EXCEPT ![i] = 1]
    /\ upstream' = [upstream EXCEPT ![i] = NoVector]
    /\ UNCHANGED <<exchange, queueVars, memoryVars, poolVars, content, input, numInputs,
                   vec, pNotify, futures, cpc, consumerVars, historyVars>>

(* Mutant: noMoreInput() misses the last queue.                            *)
MutNextQueue(i) ==
    IF part[i] + 1 < NumPartitions
    THEN /\ part' = [part EXCEPT ![i] = @ + 1]
         /\ ppc' = [ppc EXCEPT ![i] = "noMoreData"]
    ELSE /\ part' = [part EXCEPT ![i] = 0]
         /\ ppc' = [ppc EXCEPT ![i] = "done"]

(* noMoreInput() goes on with the next queue.                              *)
NextQueue(i) ==
    IF part[i] < NumPartitions
    THEN /\ part' = [part EXCEPT ![i] = @ + 1]
         /\ ppc' = [ppc EXCEPT ![i] = "noMoreData"]
    ELSE /\ part' = [part EXCEPT ![i] = 0]
         /\ ppc' = [ppc EXCEPT ![i] = "done"]

(* LocalExchangeQueue::noMoreData(), called on one queue after the other.  *)
NoMoreData(i) ==
    LET p == part[i]
        left == pendingProducers[p] - 1
    IN  /\ ppc[i] = "noMoreData"
        /\ pendingProducers' = [pendingProducers EXCEPT ![p] = left]
        /\ IF noMoreProducers /\ left = 0 /\ p \in consumerPromises
           THEN /\ pNotify' = [pNotify EXCEPT ![i] = Consumer(p)]
                /\ consumerPromises' = consumerPromises \ {p}
                /\ ppc' = [ppc EXCEPT ![i] = "noMoreDataNotify"]
                /\ UNCHANGED part
           ELSE NextQueue(i) /\ UNCHANGED <<pNotify, consumerPromises>>
        /\ UNCHANGED <<exchange, queue, noMoreProducers, closed, memoryVars, poolVars,
                       content, input, numInputs, vec, upstream, futures,
                       cpc, consumerVars, historyVars>>

NoMoreDataNotify(i) ==
    /\ ppc[i] = "noMoreDataNotify"
    /\ notify(pNotify[i])
    /\ pNotify' = [pNotify EXCEPT ![i] = {}]
    /\ NextQueue(i)
    /\ UNCHANGED <<exchange, queueVars, memoryVars, poolVars, content, input, numInputs,
                   vec, upstream, consumerVars, historyVars>>

-----------------------------------------------------------------------------
(* LocalExchange                                                           *)

isFinishedLocked(p) ==
    \/ p \in closed
    \/ noMoreProducers /\ pendingProducers[p] = 0 /\ queue[p] = <<>>

(* LocalExchangeQueue::next() on the queue of partition p.                 *)
NextFinished(p) ==
    /\ cpc[p] = "run"
    /\ queue[p] = <<>> /\ isFinishedLocked(p)
    /\ cpc' = [cpc EXCEPT ![p] = "finished"]
    /\ UNCHANGED <<exchange, queueVars, memoryVars, poolVars, content, producerVars,
                   futures, consumerVars, historyVars>>

NextBlocks(p) ==
    /\ cpc[p] = "run"
    /\ queue[p] = <<>> /\ ~isFinishedLocked(p)
    /\ consumerPromises' = consumerPromises \cup {p}
    /\ cpc' = [cpc EXCEPT ![p] = "waiting"]
    /\ UNCHANGED <<exchange, queue, pendingProducers, noMoreProducers, closed, memoryVars,
                   poolVars, content, producerVars, futures, consumerVars,
                   historyVars>>

NextData(p) ==
    /\ cpc[p] = "run"
    /\ queue[p] # <<>>
    /\ held' = [held EXCEPT ![p] = Head(queue[p])]
    /\ queue' = [queue EXCEPT ![p] = Tail(@)]
    /\ decreaseMemoryUsage(Head(queue[p]).bytes)
    /\ cNotify' = [cNotify EXCEPT ![p] = Released(Head(queue[p]).bytes)]
    /\ cpc' = [cpc EXCEPT ![p] =
                  IF Released(Head(queue[p]).bytes) = {} THEN "push" ELSE "notify"]
    /\ UNCHANGED <<exchange, pendingProducers, noMoreProducers, closed, consumerPromises,
                   poolVars, content, producerVars, futures, historyVars>>

(* The rest of next(): notify the producers and push the vector.           *)
NextNotify(p) ==
    /\ cpc[p] = "notify"
    /\ futures' = [i \in Producers |-> {q \in futures[i] : <<i, q>> \notin cNotify[p]}]
    /\ cNotify' = [cNotify EXCEPT ![p] = {}]
    /\ cpc' = [cpc EXCEPT ![p] = "push"]
    /\ UNCHANGED <<exchange, queueVars, memoryVars, poolVars, content, producerVars, held,
                   historyVars>>

Push(p) ==
    /\ cpc[p] = "push"
    /\ IF totalSize + held[p].bytes <= MaxBufferSize
       THEN /\ pool' = Append(pool, held[p])
            /\ totalSize' = totalSize + held[p].bytes
       ELSE UNCHANGED poolVars
    /\ cpc' = [cpc EXCEPT ![p] = "hold"]
    /\ UNCHANGED <<exchange, queueVars, memoryVars, content, producerVars, futures,
                   consumerVars, historyVars>>

(* The operators downstream are done with the vector.                      *)
Consume(p) ==
    /\ cpc[p] = "hold"
    /\ received' = [received EXCEPT ![p] = Append(@, content[held[p].vec])]
    /\ held' = [held EXCEPT ![p] = NoEntry]
    /\ cpc' = [cpc EXCEPT ![p] = "run"]
    /\ UNCHANGED <<exchange, queueVars, memoryVars, poolVars, content, producerVars,
                   futures, cNotify, sent>>

(* What close() takes out of the queue.                                    *)
freedBytes(p) == Bytes(queue[p])

(* LocalExchange::close(): at the end, or early because the consumer needs *)
(* no more data or its driver is terminated off thread.                    *)
Close(p) ==
    /\ \/ cpc[p] = "finished"
       \/ cpc[p] \in {"run", "waiting", "hold"} /\ p \in exchange.early
    /\ queue' = [queue EXCEPT ![p] = <<>>]
    /\ LET freed == freedBytes(p)
       IN  IF freed > 0
           THEN /\ decreaseMemoryUsage(freed)
                /\ cNotify' = [cNotify EXCEPT ![p] = Consumer(p) \cup Released(freed)]
           ELSE /\ cNotify' = [cNotify EXCEPT ![p] = Consumer(p)]
                /\ UNCHANGED memoryVars
    /\ consumerPromises' = consumerPromises \ {p}
    /\ closed' = closed \cup {p}
    /\ held' = [held EXCEPT ![p] = NoEntry]
    /\ cpc' = [cpc EXCEPT ![p] = IF cNotify'[p] = {} THEN "closed" ELSE "closing"]
    /\ UNCHANGED <<exchange, pendingProducers, noMoreProducers, poolVars, content,
                   producerVars, futures, historyVars>>

CloseNotify(p) ==
    /\ cpc[p] = "closing"
    /\ futures' = [i \in Producers |-> {q \in futures[i] : <<i, q>> \notin cNotify[p]}]
    /\ cNotify' = [cNotify EXCEPT ![p] = {}]
    /\ cpc' = [cpc EXCEPT ![p] = "closed"]
    /\ UNCHANGED <<exchange, queueVars, memoryVars, poolVars, content, producerVars, held,
                   historyVars>>

-----------------------------------------------------------------------------
Init ==
    /\ exchange \in Exchanges
    /\ queue = [p \in Partitions |-> <<>>]
    /\ pendingProducers = [p \in Partitions |-> 0]
    /\ noMoreProducers = FALSE
    /\ closed = {} /\ consumerPromises = {}
    /\ bufferedBytes = 0 /\ promises = {}
    /\ pool = <<>> /\ totalSize = 0
    /\ content = [v \in Items |-> v]
    /\ ppc = [i \in Producers |-> "create"]
    /\ part = [i \in Producers |-> 0]
    /\ input = [i \in Producers |-> NoInput]
    /\ numInputs = [i \in Producers |-> 0]
    /\ futures = [i \in Producers |-> {}]
    /\ vec = [i \in Producers |-> NoVector]
    /\ upstream = [i \in Producers |-> NoVector]
    /\ pNotify = [i \in Producers |-> {}]
    /\ cpc = [p \in Partitions |-> "create"]
    /\ held = [p \in Partitions |-> NoEntry]
    /\ cNotify = [p \in Partitions |-> {}]
    /\ sent = [p \in Destinations |-> <<>>]
    /\ received = [p \in Destinations |-> <<>>]

Produce(i) ==
    \/ AddInput(i) \/ GetVector(i) \/ Enqueue(i) \/ EnqueueNotify(i)
    \/ NoMoreInput(i) \/ NoMoreData(i) \/ NoMoreDataNotify(i)

Fetch(p) ==
    \/ NextFinished(p) \/ NextBlocks(p) \/ NextData(p) \/ NextNotify(p)
    \/ Push(p) \/ Consume(p) \/ CloseNotify(p)

Create == NoMoreProducers \/ \E i \in Producers : AddProducer(i)

Next ==
    \/ Create
    \/ \E i \in Producers : Produce(i)
    \/ \E p \in Partitions : Fetch(p) \/ Close(p)

Spec == Init /\ [][Next]_vars

(* The executor runs every driver that is not blocked, a consumer closes   *)
(* when it is finished, and the task creates its drivers.                  *)
Fairness ==
    /\ WF_vars(Create)
    /\ \A i \in UNION {1..x.producers : x \in Exchanges} :
          WF_vars(i \in Producers /\ Produce(i))
    /\ \A p \in Destinations :
          WF_vars(p \in Partitions /\ (Fetch(p) \/ (cpc[p] = "finished" /\ Close(p))))

FairSpec == Spec /\ Fairness

-----------------------------------------------------------------------------
(* Properties                                                              *)

(* The promises some thread has taken out under a lock and will fulfil.    *)
InFlight ==
    UNION ({pNotify[i] : i \in Producers} \cup {cNotify[p] : p \in Partitions})

(* A consumer waits with its promise in its queue only while the queue is  *)
(* empty and not finished, a producer with its promise in the memory       *)
(* manager only while the buffer is full; the promise of any other that    *)
(* waits has been taken out by an enqueue, a fetch, noMoreData or close    *)
(* that will fulfil it.                                                    *)
NoLostWakeup ==
    /\ \A p \in Partitions : cpc[p] = "waiting" =>
          \/ p \in consumerPromises /\ queue[p] = <<>> /\ ~isFinishedLocked(p)
          \/ <<0, p>> \in InFlight
    /\ \A i \in Producers : \A p \in futures[i] :
          \/ <<i, p>> \in promises /\ bufferedBytes >= MaxBufferSize
          \/ <<i, p>> \in InFlight

(* What the queues hold is what bufferedBytes_ says, through enqueues,     *)
(* fetches and early closes, and exceeds the limit by at most one input of *)
(* each producer: who found the buffer full waits until there is room.     *)
BufferBound ==
    LET queued == SumSeq([p \in Partitions |-> Bytes(queue[p])])
    IN  /\ bufferedBytes = queued
        /\ queued < MaxBufferSize
                   + exchange.producers * Max({in.total : in \in Inputs})

Stream == INSTANCE PageStream
    WITH Items <- UNION {(1..x.producers) \X (1..x.maxInputs) \X Destinations : x \in Exchanges},
         state <- [p \in Destinations |->
                      IF p \in closed THEN "closed"
                      ELSE IF p \in Partitions /\ cpc[p] = "finished" THEN "ended"
                      ELSE "open"]

(* What the consumers get is what was enqueued, in order, once, and not    *)
(* overwritten by the reuse of a vector that somebody still refers to; a   *)
(* consumer that is told of the end has got all, and nothing is enqueued   *)
(* for it afterwards.                                                      *)
Delivery == Stream!Spec

(* Every producer and consumer comes to its end, however small the buffer. *)
Drained ==
    <>(/\ \A i \in Producers : ppc[i] = "done"
       /\ \A p \in Partitions : cpc[p] = "closed")
=============================================================================
