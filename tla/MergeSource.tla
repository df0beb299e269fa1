---------------------------- MODULE MergeSource ----------------------------
(* Queues between the drivers that produce sorted batches and the one that  *)
(* merges them: LocalMergeSource for the Merge operator, MergeJoinSource    *)
(* for the right side of MergeJoin.  A step is one critical section of a    *)
(* source, with what its driver does until the next one.                    *)
EXTENDS Integers, Sequences

CONSTANTS MaxSources,
          Cases,                \* what is merged, and what may happen
          QueueSize             \* kDefaultQueueSize

ASSUME MergeSourceAssumption ==
    /\ MaxSources \in Nat \ {0}
    /\ QueueSize \in Nat \ {0}
    /\ \A c \in Cases :
          /\ c.kind \in {"merge", "join"}
          /\ c.fails \in BOOLEAN /\ c.limit \in BOOLEAN
          /\ c.batches \in Seq(Seq(Seq(Nat) \ {<<>>}))    \* of each source
          /\ Len(c.batches) \in 1..(IF c.kind = "join" THEN 1 ELSE MaxSources)

(* The rows of a batch, and of a sequence of batches.                      *)
Values(seq) == {seq[i] : i \in DOMAIN seq}
Rows(batches) == UNION {Values(batches[i]) : i \in DOMAIN batches}

Below(A, B) == \A a \in A, b \in B : a < b
Ascending(seq) == \A i, j \in DOMAIN seq : i < j => seq[i] < seq[j]
Sorted(batches) ==
    \A i \in DOMAIN batches :
        /\ Ascending(batches[i])
        /\ \A j \in DOMAIN batches : i < j => Below(Values(batches[i]), Values(batches[j]))

(* The plan sorts every source.  A row stands for its place among all of   *)
(* the rows, so no two are the same.                                       *)
ASSUME SortedAssumption ==
    \A c \in Cases : \A s, t \in DOMAIN c.batches :
        /\ Sorted(c.batches[s])
        /\ s # t => Rows(c.batches[s]) \cap Rows(c.batches[t]) = {}

VARIABLES
    case,                       \* chosen once
    queue, atEnd,               \* data_ and atEnd_ of each source
    consumerWaits, producerWaits,   \* has it promises of these?
    toProduce, producer,        \* what is left to enqueue, the driver's state
    consumer, cursor, futures,  \* the merging driver, sourceBlockingFutures_
    stream,                     \* SourceStream: rows, at end, needs data?
    output, failed              \* the rows so far; has the task failed?

sourceVars == <<queue, atEnd, consumerWaits, producerWaits>>
producerVars == <<toProduce, producer>>
consumerVars == <<consumer, cursor, futures, stream>>
vars == <<case, sourceVars, producerVars, consumerVars, output, failed>>

Sources == DOMAIN case.batches

Capacity == IF case.kind = "join" THEN 1 ELSE QueueSize

-----------------------------------------------------------------------------
(* Producers: a CallbackSink at the end of their pipeline                  *)

(* The driver of s is off its thread until the promise is fulfilled        *)
ProducerRuns(s) ==
    \/ producer[s] = "running"
    \/ producer[s] = "blocked" /\ ~producerWaits[s]

MutBlocks(s) == case.kind = "merge" /\ Len(queue[s]) = Capacity

(* enqueue of a batch.  The producer of a join waits for each batch to be  *)
(* taken, that of a merge when the queue is full.                          *)
Blocks(s) == Len(queue[s]) + 1 = Capacity

Enqueue(s) ==
    /\ ProducerRuns(s) /\ toProduce[s] # <<>>
    /\ toProduce' = [toProduce EXCEPT ![s] = Tail(@)]
    /\ consumerWaits' = [consumerWaits EXCEPT ![s] = FALSE]
    /\ \/ /\ case.kind = "join" /\ atEnd[s]
          /\ producer' = [producer EXCEPT ![s] = "running"]
          /\ UNCHANGED <<queue, producerWaits>>
       \/ /\ case.kind # "join" \/ ~atEnd[s]
          /\ queue' = [queue EXCEPT ![s] = Append(@, Head(toProduce[s]))]
          /\ producerWaits' = [producerWaits EXCEPT ![s] = Blocks(s)]
          /\ producer' = [producer EXCEPT ![s] =
                            IF Blocks(s) THEN "blocked" ELSE "running"]
    /\ UNCHANGED <<case, atEnd, consumerVars, output, failed>>

(* CallbackSink::close, after the last batch or when the driver is closed: *)
(* enqueue(nullptr)                                                        *)
CloseProducer(s) ==
    /\ producer[s] # "closed"
    /\ \/ ProducerRuns(s) /\ toProduce[s] = <<>>
       \/ failed
    /\ producer' = [producer EXCEPT ![s] = "closed"]
    /\ atEnd' = [atEnd EXCEPT ![s] = TRUE]
    /\ consumerWaits' = [consumerWaits EXCEPT ![s] = FALSE]
    /\ UNCHANGED <<case, queue, producerWaits, toProduce, consumerVars, output, failed>>

-----------------------------------------------------------------------------
(* The consumer                                                            *)

Take(s) ==
    /\ queue' = [queue EXCEPT ![s] = Tail(@)]
    /\ producerWaits' = [producerWaits EXCEPT ![s] = FALSE]

(* next() of a source for SourceStream::fetchMoreData                      *)
Fetch(s) ==
    \/ /\ queue[s] # <<>>
       /\ Take(s)
       /\ stream' = [stream EXCEPT ![s] =
                        [rows |-> Head(queue[s]), atEnd |-> FALSE, needData |-> FALSE]]
       /\ UNCHANGED <<futures, consumerWaits>>
    \/ /\ queue[s] = <<>> /\ atEnd[s]
       /\ stream' = [stream EXCEPT ![s] =
                        [rows |-> <<>>, atEnd |-> TRUE, needData |-> FALSE]]
       /\ UNCHANGED <<queue, producerWaits, futures, consumerWaits>>
    \/ /\ queue[s] = <<>> /\ ~atEnd[s]
       /\ stream' = [stream EXCEPT ![s] =
                        [rows |-> <<>>, atEnd |-> FALSE, needData |-> TRUE]]
       /\ futures' = Append(futures, s)
       /\ consumerWaits' = [consumerWaits EXCEPT ![s] = TRUE]
       /\ UNCHANGED <<queue, producerWaits>>

(* Merge::isBlocked asks each stream that needs data ..                    *)
FetchStreams ==
    /\ \/ consumer = "isBlocked" /\ futures = <<>>
       \/ consumer = "fetch"
    /\ cursor \in Sources
    /\ consumer' = "fetch"
    /\ cursor' = cursor + 1
    /\ IF stream[cursor].needData
       THEN Fetch(cursor)
       ELSE UNCHANGED <<stream, futures, queue, consumerWaits, producerWaits>>
    /\ UNCHANGED <<case, atEnd, producerVars, output, failed>>

(* .. and waits for the futures one after the other, the last one first    *)
Wait ==
    /\ \/ consumer = "isBlocked"
       \/ consumer = "fetch" /\ cursor \notin Sources
       \/ consumer = "blocked" /\ ~consumerWaits[cursor]
    /\ \/ /\ futures # <<>>
          /\ consumer' = "blocked"
          /\ cursor' = futures[Len(futures)]
          /\ futures' = SubSeq(futures, 1, Len(futures) - 1)
       \/ /\ futures = <<>>
          /\ consumer # "isBlocked"
          /\ consumer' = IF consumer = "fetch" THEN "getOutput" ELSE "isBlocked"
          /\ cursor' = 1
          /\ UNCHANGED futures
    /\ UNCHANGED <<case, sourceVars, producerVars, stream, output, failed>>

Live == {s \in Sources : ~stream[s].atEnd}

MutLeast(s) == stream[s].rows # <<>>

(* TreeOfLosers: a stream with a least current row                         *)
Least(s) == \A t \in Live : stream[s].rows[1] <= stream[t].rows[1]

(* A row of Merge::getOutput, with the fetch of SourceStream::pop          *)
MergeRow(s) ==
    /\ case.kind = "merge" /\ consumer = "getOutput"
    /\ s \in Live /\ Least(s)
    /\ output' = Append(output, stream[s].rows[1])
    /\ \/ /\ Len(stream[s].rows) > 1
          /\ stream' = [stream EXCEPT ![s].rows = Tail(@)]
          /\ UNCHANGED <<consumer, futures, sourceVars>>
       \/ /\ Len(stream[s].rows) = 1
          /\ Fetch(s)
          /\ consumer' = IF futures' = <<>> THEN "getOutput" ELSE "isBlocked"
          /\ UNCHANGED atEnd
    /\ UNCHANGED <<case, cursor, producerVars, failed>>

MergeEnd ==
    /\ case.kind = "merge" /\ consumer = "getOutput" /\ Live = {}
    /\ consumer' = "finished"
    /\ UNCHANGED <<case, sourceVars, producerVars, cursor, futures, stream, output, failed>>

(* MergeJoin takes whole batches of the one source                         *)
JoinBatch ==
    /\ case.kind = "join" /\ consumer = "getOutput"
    /\ \/ /\ ~stream[1].atEnd
          /\ output' = output \o stream[1].rows
          /\ stream' = [stream EXCEPT ![1] =
                          [rows |-> <<>>, atEnd |-> FALSE, needData |-> TRUE]]
          /\ consumer' = "isBlocked"
       \/ /\ stream[1].atEnd
          /\ consumer' = "finished"
          /\ UNCHANGED <<output, stream>>
    /\ UNCHANGED <<case, sourceVars, producerVars, cursor, futures, failed>>

MutCloseSource(s) == UNCHANGED <<queue, producerWaits>>

(* MergeJoinSource::close wakes the producer                               *)
CloseSource(s) ==
    /\ queue' = [queue EXCEPT ![s] = <<>>]
    /\ producerWaits' = [producerWaits EXCEPT ![s] = FALSE]

(* The consumer's driver is closed: it has all it needs, a limit is        *)
(* reached, or the task failed.  LocalMergeSource::close does nothing.     *)
CloseConsumer ==
    /\ consumer # "closed"
    /\ \/ consumer = "finished" \/ failed
       \/ case.limit /\ consumer \in {"isBlocked", "getOutput"}
    /\ consumer' = "closed"
    /\ \/ /\ case.kind = "join"
          /\ CloseSource(1)
          /\ atEnd' = [atEnd EXCEPT ![1] = TRUE]
          /\ consumerWaits' = [consumerWaits EXCEPT ![1] = FALSE]
       \/ /\ case.kind # "join"
          /\ UNCHANGED sourceVars
    /\ UNCHANGED <<case, producerVars, cursor, futures, stream, output, failed>>

Fail ==
    /\ case.fails /\ ~failed
    /\ failed' = TRUE
    /\ UNCHANGED <<case, sourceVars, producerVars, consumerVars, output>>

-----------------------------------------------------------------------------
Init ==
    /\ case \in Cases
    /\ queue = [s \in Sources |-> <<>>]
    /\ atEnd = [s \in Sources |-> FALSE]
    /\ consumerWaits = [s \in Sources |-> FALSE]
    /\ producerWaits = [s \in Sources |-> FALSE]
    /\ toProduce = case.batches
    /\ producer = [s \in Sources |-> "running"]
    /\ consumer = "isBlocked" /\ cursor = 1 /\ futures = <<>>
    /\ stream = [s \in Sources |-> [rows |-> <<>>, atEnd |-> FALSE, needData |-> TRUE]]
    /\ output = <<>> /\ failed = FALSE

Produce(s) == Enqueue(s) \/ CloseProducer(s)

Consume ==
    \/ FetchStreams \/ Wait
    \/ \E s \in Sources : MergeRow(s)
    \/ MergeEnd \/ JoinBatch \/ CloseConsumer

Next == Fail \/ Consume \/ \E s \in Sources : Produce(s)

(* The executor runs every driver that is not blocked                      *)
Spec ==
    /\ Init /\ [][Next]_vars
    /\ WF_vars(Consume)
    /\ \A s \in 1..MaxSources : WF_vars(s \in Sources /\ Produce(s))

-----------------------------------------------------------------------------
(* A driver that has a batch for a source finds room in it.  A full queue  *)
(* of a merge fails the driver (VELOX_CHECK(!data_.full())); that of a     *)
(* join would silently not take the batch.                                 *)
NoBatchLost ==
    \A s \in Sources :
        ProducerRuns(s) /\ toProduce[s] # <<>> => Len(queue[s]) < Capacity

Total == UNION {Rows(case.batches[s]) : s \in Sources}

(* The rows come out in order, none of them twice, and when the operator   *)
(* finishes in a task that has not failed none of them is missing.         *)
MergedOutput ==
    /\ Ascending(output)
    /\ consumer = "finished" /\ ~failed => Values(output) = Total

(* All drivers come to their end, the producers of a join also when the    *)
(* consumer needs no more of their data.  A LocalMergeSource has no close: *)
(* with a limit after the merge its producers wait for the task to end.    *)
MergeFinishes ==
    <>(\/ \A s \in Sources : producer[s] = "closed" /\ consumer = "closed"
       \/ case.kind = "merge" /\ case.limit /\ consumer = "closed")
============================================================================
