------------------------- MODULE MergeSourceProofs -------------------------
(* No driver finds a merge source full, and the rows come out in order and *)
(* complete, for any number of sources, batches and any size of the queues. *)
EXTENDS MergeSource, SequenceTheorems, TLAPS

Batches == Seq(Nat) \ {<<>>}

SourceTypes ==
    /\ case \in Cases
    /\ queue \in [Sources -> Seq(Batches)]
    /\ toProduce \in [Sources -> Seq(Batches)]
    /\ producerWaits \in [Sources -> BOOLEAN]
    /\ producer \in [Sources -> {"running", "blocked", "closed"}]

(* A queue is full only while its producer waits, or is closed.            *)
RoomForRunning ==
    \A s \in Sources :
        /\ Len(queue[s]) <= Capacity
        /\ ProducerRuns(s) => Len(queue[s]) < Capacity

RoomInv == SourceTypes /\ RoomForRunning

-----------------------------------------------------------------------------
(* Both kinds of sources hold at least one batch.                          *)
LEMMA CapacityType == Capacity \in Nat \ {0}
  BY MergeSourceAssumption DEF Capacity

(* The empty queues of createLocalMergeSource and createMergeJoinSource.   *)
LEMMA RoomInit == Init => RoomInv
<1> SUFFICES ASSUME Init PROVE RoomInv
  BY Zenon
<1>1. case \in Cases /\ case.batches \in Seq(Seq(Batches))
  BY Zenon, MergeSourceAssumption DEF Init, Batches
<1>2. case.batches \in [Sources -> Seq(Batches)]
  BY <1>1 DEF Sources
<1>3. SourceTypes
  BY <1>1, <1>2 DEF Init, SourceTypes
<1>4. RoomForRunning
  BY CapacityType DEF Init, RoomForRunning
<1> QED
  BY Zenon, <1>3, <1>4 DEF RoomInv

(* A step that takes batches from one queue, or empties it, and resumes    *)
(* its producer makes room in it (next and close).                         *)
LEMMA TakingKeepsRoom ==
    ASSUME RoomInv, NEW s \in Sources, NEW q \in Seq(Batches),
           Len(q) < Capacity,
           case' = case, UNCHANGED producerVars,
           queue' = [queue EXCEPT ![s] = q],
           producerWaits' = [producerWaits EXCEPT ![s] = FALSE]
    PROVE  RoomInv'
<1>1. Sources' = Sources /\ Capacity' = Capacity
  BY Zenon DEF Sources, Capacity
<1>2. SourceTypes'
  BY Zenon, <1>1 DEF RoomInv, SourceTypes, producerVars
<1>3. RoomForRunning'
  <2> SUFFICES ASSUME NEW t \in Sources
               PROVE  /\ Len(queue'[t]) <= Capacity
                      /\ ProducerRuns(t)' => Len(queue'[t]) < Capacity
    BY Zenon, <1>1 DEF RoomForRunning
  <2>1. CASE t = s
    <3>1. queue'[t] = q
      BY Zenon, <2>1 DEF RoomInv, SourceTypes
    <3>2. Len(q) \in Nat
      OBVIOUS
    <3> QED
      BY <3>1, <3>2, CapacityType
  <2>2. CASE t # s
    BY Zenon, <2>2 DEF RoomInv, SourceTypes, RoomForRunning, ProducerRuns, producerVars
  <2> QED
    BY Zenon, <2>1, <2>2
<1> QED
  BY Zenon, <1>2, <1>3 DEF RoomInv

(* Steps that leave the queues and their producers alone.                  *)
LEMMA OtherStepsKeepRoom ==
    ASSUME RoomInv, case' = case, queue' = queue,
           UNCHANGED <<producerWaits, producerVars>>
    PROVE  RoomInv'
  BY Zenon DEF RoomInv, SourceTypes, RoomForRunning, ProducerRuns, producerVars,
         Sources, Capacity

(* A batch taken by the consumer leaves room for another one.              *)
LEMMA FetchKeepsRoom ==
    ASSUME RoomInv, NEW s \in Sources, Fetch(s),
           case' = case, UNCHANGED producerVars
    PROVE  RoomInv'
<1>1. CASE queue[s] # <<>> /\ Take(s)
  <2>1. queue[s] \in Seq(Batches) /\ Len(queue[s]) <= Capacity
    BY Zenon DEF RoomInv, SourceTypes, RoomForRunning
  <2>2. Tail(queue[s]) \in Seq(Batches) /\ Len(Tail(queue[s])) < Capacity
    BY <1>1, <2>1, CapacityType
  <2>3. queue' = [queue EXCEPT ![s] = Tail(queue[s])]
    BY Zenon, <1>1 DEF Take, RoomInv, SourceTypes
  <2> QED
    BY Zenon, <1>1, <2>2, <2>3, TakingKeepsRoom DEF Take
<1>2. CASE UNCHANGED <<queue, producerWaits>>
  BY Zenon, <1>2, OtherStepsKeepRoom
<1> QED
  BY Zenon, <1>1, <1>2 DEF Fetch

(* A producer that fills the queue blocks in the same critical section.    *)
LEMMA EnqueueKeepsRoom ==
    ASSUME RoomInv, NEW s \in Sources, Enqueue(s)
    PROVE  RoomInv'
<1>1. Sources' = Sources /\ Capacity' = Capacity
  BY Zenon DEF Enqueue, Sources, Capacity
<1>2. /\ toProduce[s] \in Seq(Batches) /\ toProduce[s] # <<>>
      /\ queue[s] \in Seq(Batches) /\ Len(queue[s]) < Capacity
  BY Zenon DEF Enqueue, RoomInv, SourceTypes, RoomForRunning
<1>3. Tail(toProduce[s]) \in Seq(Batches) /\ Head(toProduce[s]) \in Batches
  BY <1>2
<1>4. toProduce' \in [Sources -> Seq(Batches)]
  BY Zenon, <1>3 DEF Enqueue, RoomInv, SourceTypes
<1>5. CASE /\ producer' = [producer EXCEPT ![s] = "running"]
           /\ UNCHANGED <<queue, producerWaits>>
  BY Zenon, <1>1, <1>2, <1>4, <1>5
     DEF Enqueue, RoomInv, SourceTypes, RoomForRunning, ProducerRuns
<1>6. CASE /\ queue' = [queue EXCEPT ![s] = Append(@, Head(toProduce[s]))]
           /\ producerWaits' = [producerWaits EXCEPT ![s] = Blocks(s)]
           /\ producer' = [producer EXCEPT ![s] =
                             IF Blocks(s) THEN "blocked" ELSE "running"]
  <2>1. /\ Append(queue[s], Head(toProduce[s])) \in Seq(Batches)
        /\ Len(Append(queue[s], Head(toProduce[s]))) = Len(queue[s]) + 1
        /\ Len(queue[s]) \in Nat
    BY <1>2, <1>3
  <2>2. Blocks(s) \in BOOLEAN
    BY Zenon DEF Blocks
  <2>3. SourceTypes'
    BY Zenon, <1>1, <1>4, <1>6, <2>1, <2>2 DEF Enqueue, RoomInv, SourceTypes
  <2>4. RoomForRunning'
    <3> SUFFICES ASSUME NEW t \in Sources
                 PROVE  /\ Len(queue'[t]) <= Capacity
                        /\ ProducerRuns(t)' => Len(queue'[t]) < Capacity
      BY Zenon, <1>1 DEF RoomForRunning
    <3>1. CASE t = s
      <4>1. Len(queue'[s]) = Len(queue[s]) + 1
        BY Zenon, <1>6, <2>1 DEF RoomInv, SourceTypes
      <4>2. CASE Blocks(s)
        <5>1. producer'[s] = "blocked" /\ producerWaits'[s]
          BY Zenon, <1>6, <4>2 DEF RoomInv, SourceTypes
        <5>2. ~ProducerRuns(s)'
          BY Zenon, <5>1 DEF ProducerRuns
        <5> QED
          BY <3>1, <4>1, <4>2, <5>2, CapacityType DEF Blocks
      <4>3. CASE ~Blocks(s)
        BY <1>2, <2>1, <3>1, <4>1, <4>3, CapacityType DEF Blocks
      <4> QED
        BY Zenon, <4>2, <4>3
    <3>2. CASE t # s
      BY Zenon, <1>6, <3>2 DEF RoomInv, SourceTypes, RoomForRunning, ProducerRuns
    <3> QED
      BY Zenon, <3>1, <3>2
  <2> QED
    BY Zenon, <2>3, <2>4 DEF RoomInv
<1> QED
  BY Zenon, <1>5, <1>6 DEF Enqueue

(* One case for each operation of the two kinds of sources and of their    *)
(* drivers: enqueue, close of the sink, next, close of the source.         *)
LEMMA RoomNext == RoomInv /\ [Next]_vars => RoomInv'
<1> SUFFICES ASSUME RoomInv, [Next]_vars PROVE RoomInv'
  BY Zenon
<1>1. CASE UNCHANGED vars
  BY Zenon, <1>1, OtherStepsKeepRoom DEF vars, sourceVars
<1>2. CASE Fail
  BY Zenon, <1>2, OtherStepsKeepRoom DEF Fail, sourceVars
<1>3. ASSUME NEW s \in Sources, Enqueue(s) PROVE RoomInv'
  BY Zenon, <1>3, EnqueueKeepsRoom
<1>4. ASSUME NEW s \in Sources, CloseProducer(s) PROVE RoomInv'
  BY Zenon, <1>4 DEF CloseProducer, RoomInv, SourceTypes, RoomForRunning,
     ProducerRuns, Sources, Capacity
<1>5. CASE FetchStreams
  <2>1. CASE stream[cursor].needData
    BY Zenon, <1>5, <2>1, FetchKeepsRoom DEF FetchStreams
  <2>2. CASE ~stream[cursor].needData
    BY Zenon, <1>5, <2>2, OtherStepsKeepRoom DEF FetchStreams
  <2> QED
    BY Zenon, <2>1, <2>2
<1>6. CASE Wait
  BY Zenon, <1>6, OtherStepsKeepRoom DEF Wait, sourceVars
<1>7. ASSUME NEW s \in Sources, MergeRow(s) PROVE RoomInv'
  <2>1. CASE UNCHANGED sourceVars
    BY Zenon, <1>7, <2>1, OtherStepsKeepRoom DEF MergeRow, sourceVars
  <2>2. CASE Fetch(s)
    BY Zenon, <1>7, <2>2, FetchKeepsRoom DEF MergeRow
  <2> QED
    BY Zenon, <1>7, <2>1, <2>2 DEF MergeRow
<1>8. CASE MergeEnd \/ JoinBatch
  BY Zenon, <1>8, OtherStepsKeepRoom DEF MergeEnd, JoinBatch, sourceVars
<1>9. CASE CloseConsumer
  <2>1. CASE UNCHANGED sourceVars
    BY Zenon, <1>9, <2>1, OtherStepsKeepRoom DEF CloseConsumer, sourceVars
  <2>2. CASE case.kind = "join" /\ CloseSource(1)
    <3>1. 1 \in Sources
      BY MergeSourceAssumption DEF RoomInv, SourceTypes, Sources
    <3>2. <<>> \in Seq(Batches) /\ Len(<<>>) < Capacity
      BY CapacityType
    <3> QED
      BY Zenon, <1>9, <2>2, <3>1, <3>2, TakingKeepsRoom DEF CloseConsumer, CloseSource
  <2> QED
    BY Zenon, <1>9, <2>1, <2>2 DEF CloseConsumer
<1> QED
  BY Zenon, <1>1, <1>2, <1>3, <1>4, <1>5, <1>6, <1>7, <1>8, <1>9
     DEF Next, Consume, Produce

(* A driver that has a batch finds room for it in its source, so that      *)
(* VELOX_CHECK(!data_.full()) holds and no batch of a join is dropped.     *)
THEOREM NoBatchIsLost == Spec => []NoBatchLost
<1>1. RoomInv => NoBatchLost
  BY Zenon DEF RoomInv, RoomForRunning, NoBatchLost
<1> QED
  BY RoomInit, RoomNext, <1>1, PTL DEF Spec

-----------------------------------------------------------------------------
(* Operations on sorted batches                                            *)

(* No batches have no rows, in order.                                      *)
LEMMA NoRows == Values(<<>>) = {} /\ Rows(<<>>) = {} /\ Ascending(<<>>) /\ Sorted(<<>>)
  BY DEF Values, Rows, Ascending, Sorted

(* The first row of a batch, and the ones after it.                        *)
LEMMA PopRow ==
    ASSUME NEW r \in Seq(Nat), r # <<>>
    PROVE  /\ r[1] \in Nat /\ r[1] \in Values(r) /\ Tail(r) \in Seq(Nat)
           /\ Values(r) = {r[1]} \cup Values(Tail(r))
           /\ Ascending(r) => Ascending(Tail(r)) /\ Below({r[1]}, Values(Tail(r)))
<1>1. /\ Tail(r) \in Seq(Nat) /\ DOMAIN r = 1..Len(r) /\ Len(r) \in Nat \ {0}
      /\ DOMAIN Tail(r) = 1..(Len(r) - 1)
      /\ \A i \in 1..(Len(r) - 1) : Tail(r)[i] = r[i + 1]
  OBVIOUS
<1>2. r[1] \in Nat /\ r[1] \in Values(r)
  BY <1>1 DEF Values
<1>3. \A i \in DOMAIN r : i = 1 \/ (i - 1 \in DOMAIN Tail(r) /\ Tail(r)[i - 1] = r[i])
  BY <1>1
<1>4. Values(r) = {r[1]} \cup Values(Tail(r))
  <2>1. Values(r) \subseteq {r[1]} \cup Values(Tail(r))
    BY <1>1, <1>3 DEF Values
  <2>2. Values(Tail(r)) \subseteq Values(r)
    BY <1>1 DEF Values
  <2> QED
    BY Zenon, <1>2, <2>1, <2>2
<1>5. ASSUME Ascending(r) PROVE Ascending(Tail(r))
  <2>1. ASSUME NEW i \in DOMAIN Tail(r), NEW j \in DOMAIN Tail(r), i < j
        PROVE  Tail(r)[i] < Tail(r)[j]
    <3>1. PICK n : n = Len(r)
      BY Zenon
    <3>2. n \in Nat /\ i \in 1..(n - 1) /\ j \in 1..(n - 1)
      BY Zenon, <1>1, <3>1
    <3>3. i + 1 \in 1..n /\ j + 1 \in 1..n /\ i + 1 < j + 1
      BY <2>1, <3>2
    <3>4. r[i + 1] < r[j + 1]
      BY Zenon, <1>1, <1>5, <3>1, <3>3 DEF Ascending
    <3> QED
      BY Zenon, <1>1, <3>1, <3>2, <3>4
  <2> QED
    BY Zenon, <2>1 DEF Ascending
<1>6. ASSUME Ascending(r) PROVE Below({r[1]}, Values(Tail(r)))
  <2>1. ASSUME NEW i \in DOMAIN Tail(r) PROVE r[1] < Tail(r)[i]
    <3>1. PICK n : n = Len(r)
      BY Zenon
    <3>2. n \in Nat /\ i \in 1..(n - 1)
      BY Zenon, <1>1, <3>1
    <3>3. 1 \in 1..n /\ i + 1 \in 1..n /\ 1 < i + 1
      BY <3>2
    <3>4. r[1] < r[i + 1]
      BY Zenon, <1>1, <1>6, <3>1, <3>3 DEF Ascending
    <3> QED
      BY Zenon, <1>1, <3>1, <3>2, <3>4
  <2> QED
    BY Zenon, <2>1 DEF Below, Values
<1> QED
  BY Zenon, <1>1, <1>2, <1>4, <1>5, <1>6

(* A batch without rows is the empty sequence.                             *)
LEMMA RowsLeft ==
    ASSUME NEW q \in Seq(Nat)
    PROVE  q = <<>> <=> Len(q) = 0
<1>1. q = <<>> => Len(q) = 0
  OBVIOUS
<1>2. ASSUME Len(q) = 0 PROVE q = <<>>
  <2>1. DOMAIN q = 1..0
    BY <1>2
  <2> QED
    BY <2>1
<1> QED
  BY Zenon, <1>1, <1>2

(* A batch has rows after its first one when it has more than one.         *)
LEMMA LongerRows ==
    ASSUME NEW r \in Seq(Nat), r # <<>>
    PROVE  (Len(r) > 1 => Tail(r) # <<>>) /\ (Len(r) = 1 => Tail(r) = <<>>)
<1> DEFINE q == Tail(r)
           k == Len(r)
<1>1. q \in Seq(Nat) /\ Len(q) = k - 1 /\ k \in Nat
  OBVIOUS
<1> HIDE DEF q, k
<1>2. q = <<>> <=> Len(q) = 0
  BY Zenon, <1>1, RowsLeft
<1>3. (k > 1 => q # <<>>) /\ (k = 1 => q = <<>>)
  BY <1>1, <1>2
<1> QED
  BY Zenon, <1>3 DEF q, k

(* A row at the end of the output.                                         *)
LEMMA AppendRow ==
    ASSUME NEW r \in Seq(Nat), NEW x \in Nat
    PROVE  /\ Append(r, x) \in Seq(Nat)
           /\ Values(Append(r, x)) = Values(r) \cup {x}
           /\ Ascending(r) /\ Below(Values(r), {x}) => Ascending(Append(r, x))
<1>1. /\ Append(r, x) \in Seq(Nat) /\ DOMAIN r = 1..Len(r) /\ Len(r) \in Nat
      /\ DOMAIN Append(r, x) = 1..(Len(r) + 1)
      /\ Append(r, x)[Len(r) + 1] = x
      /\ \A i \in 1..Len(r) : Append(r, x)[i] = r[i]
  OBVIOUS
<1>2. Values(Append(r, x)) = Values(r) \cup {x}
  BY <1>1 DEF Values
<1>3. Ascending(r) /\ Below(Values(r), {x}) => Ascending(Append(r, x))
  BY <1>1 DEF Values, Below, Ascending
<1> QED
  BY Zenon, <1>1, <1>2, <1>3

(* A batch at the end of the output.                                       *)
LEMMA AppendRows ==
    ASSUME NEW r \in Seq(Nat), NEW u \in Seq(Nat)
    PROVE  /\ r \o u \in Seq(Nat)
           /\ Values(r \o u) = Values(r) \cup Values(u)
           /\ Ascending(r) /\ Ascending(u) /\ Below(Values(r), Values(u)) => Ascending(r \o u)
<1>1. /\ r \o u \in Seq(Nat) /\ Len(r) \in Nat /\ Len(u) \in Nat
      /\ DOMAIN r = 1..Len(r) /\ DOMAIN u = 1..Len(u)
      /\ DOMAIN (r \o u) = 1..(Len(r) + Len(u))
      /\ \A i \in 1..Len(r) : (r \o u)[i] = r[i]
      /\ \A i \in 1..Len(u) : (r \o u)[Len(r) + i] = u[i]
  OBVIOUS
<1>2. \A i \in 1..(Len(r) + Len(u)) :
         \/ i \in 1..Len(r) /\ (r \o u)[i] = r[i]
         \/ i - Len(r) \in 1..Len(u) /\ (r \o u)[i] = u[i - Len(r)]
  <2> SUFFICES ASSUME NEW i \in 1..(Len(r) + Len(u)), i \notin 1..Len(r)
               PROVE  i - Len(r) \in 1..Len(u) /\ (r \o u)[i] = u[i - Len(r)]
    BY Zenon, <1>1
  <2>1. i - Len(r) \in 1..Len(u) /\ Len(r) + (i - Len(r)) = i
    BY <1>1
  <2> QED
    BY Zenon, <1>1, <2>1
<1>3. Values(r \o u) = Values(r) \cup Values(u)
  <2>1. Values(r \o u) \subseteq Values(r) \cup Values(u)
    BY <1>1, <1>2 DEF Values
  <2>2. Values(r) \subseteq Values(r \o u)
    BY <1>1 DEF Values
  <2>3. Values(u) \subseteq Values(r \o u)
    <3> SUFFICES ASSUME NEW i \in 1..Len(u) PROVE u[i] \in Values(r \o u)
      BY Zenon, <1>1 DEF Values
    <3>1. Len(r) + i \in DOMAIN (r \o u) /\ (r \o u)[Len(r) + i] = u[i]
      BY <1>1
    <3> QED
      BY Zenon, <3>1 DEF Values
  <2> QED
    BY Zenon, <2>1, <2>2, <2>3
<1>4. ASSUME Ascending(r), Ascending(u), Below(Values(r), Values(u)) PROVE Ascending(r \o u)
  <2> SUFFICES ASSUME NEW i \in DOMAIN (r \o u), NEW j \in DOMAIN (r \o u), i < j
               PROVE  (r \o u)[i] < (r \o u)[j]
    BY Zenon DEF Ascending
  <2>1. CASE j \in 1..Len(r)
    BY <1>1, <1>4, <2>1 DEF Ascending
  <2>2. CASE i \in 1..Len(r) /\ j \notin 1..Len(r)
    <3>1. r[i] \in Values(r) /\ u[j - Len(r)] \in Values(u)
      BY Zenon, <1>1, <1>2, <2>2 DEF Values
    <3> QED
      BY Zenon, <1>1, <1>2, <1>4, <2>2, <3>1 DEF Below
  <2>3. CASE i \notin 1..Len(r) /\ j \notin 1..Len(r)
    BY <1>1, <1>2, <1>4, <2>3 DEF Ascending
  <2> QED
    BY Zenon, <1>1, <2>1, <2>2, <2>3
<1> QED
  BY Zenon, <1>1, <1>3, <1>4

(* The first batch of a queue, and the ones after it.                      *)
LEMMA PopBatch ==
    ASSUME NEW q \in Seq(Batches), q # <<>>
    PROVE  /\ Head(q) \in Batches /\ Tail(q) \in Seq(Batches)
           /\ Rows(q) = Values(Head(q)) \cup Rows(Tail(q))
           /\ Sorted(q) => /\ Ascending(Head(q)) /\ Sorted(Tail(q))
                           /\ Below(Values(Head(q)), Rows(Tail(q)))
<1>1. /\ Head(q) \in Batches /\ Head(q) = q[1]
      /\ Tail(q) \in Seq(Batches) /\ DOMAIN q = 1..Len(q) /\ Len(q) \in Nat \ {0}
      /\ DOMAIN Tail(q) = 1..(Len(q) - 1)
      /\ \A i \in 1..(Len(q) - 1) : Tail(q)[i] = q[i + 1]
  OBVIOUS
<1>2. \A i \in DOMAIN q : i = 1 \/ (i - 1 \in DOMAIN Tail(q) /\ Tail(q)[i - 1] = q[i])
  BY <1>1
<1>3. Rows(q) = Values(Head(q)) \cup Rows(Tail(q))
  <2>1. Rows(q) \subseteq Values(Head(q)) \cup Rows(Tail(q))
    <3>1. ASSUME NEW x \in Rows(q)
          PROVE  x \in Values(Head(q)) \cup Rows(Tail(q))
      <4>1. PICK i \in DOMAIN q : x \in Values(q[i])
        BY Zenon, <3>1 DEF Rows
      <4>2. CASE i = 1
        BY Zenon, <1>1, <4>1, <4>2
      <4>3. CASE i - 1 \in DOMAIN Tail(q) /\ Tail(q)[i - 1] = q[i]
        <5>1. Values(Tail(q)[i - 1]) \subseteq Rows(Tail(q))
          BY Zenon, <4>3 DEF Rows
        <5> QED
          BY Zenon, <4>1, <4>3, <5>1
      <4> QED
        BY Zenon, <1>2, <4>1, <4>2, <4>3
    <3> QED
      BY Zenon, <3>1
  <2>2. Values(Head(q)) \subseteq Rows(q)
    BY <1>1 DEF Rows
  <2>3. Rows(Tail(q)) \subseteq Rows(q)
    BY <1>1 DEF Rows
  <2> QED
    BY Zenon, <2>1, <2>2, <2>3
<1>4. ASSUME Sorted(q) PROVE Ascending(Head(q)) /\ Sorted(Tail(q))
  BY <1>1, <1>4 DEF Sorted
<1>5. ASSUME Sorted(q) PROVE Below(Values(Head(q)), Rows(Tail(q)))
  <2> SUFFICES ASSUME NEW a \in Values(Head(q)), NEW i \in DOMAIN Tail(q),
                      NEW b \in Values(Tail(q)[i])
               PROVE  a < b
    BY Zenon DEF Below, Rows
  <2>1. i + 1 \in DOMAIN q /\ 1 \in DOMAIN q /\ 1 < i + 1 /\ Tail(q)[i] = q[i + 1]
    BY <1>1
  <2> QED
    BY Zenon, <1>1, <1>5, <2>1 DEF Sorted, Below
<1> QED
  BY Zenon, <1>1, <1>3, <1>4, <1>5

(* A batch at the end of a queue.                                          *)
LEMMA AppendBatch ==
    ASSUME NEW q \in Seq(Batches), NEW b \in Batches
    PROVE  /\ Append(q, b) \in Seq(Batches)
           /\ Rows(Append(q, b)) = Rows(q) \cup Values(b)
           /\ Sorted(q) /\ Ascending(b) /\ Below(Rows(q), Values(b)) => Sorted(Append(q, b))
<1>1. /\ Append(q, b) \in Seq(Batches) /\ DOMAIN q = 1..Len(q) /\ Len(q) \in Nat
      /\ DOMAIN Append(q, b) = 1..(Len(q) + 1)
      /\ Append(q, b)[Len(q) + 1] = b
      /\ \A i \in 1..Len(q) : Append(q, b)[i] = q[i]
  OBVIOUS
<1>2. \A i \in 1..(Len(q) + 1) : i = Len(q) + 1 \/ i \in 1..Len(q)
  BY <1>1
<1>3. Rows(Append(q, b)) = Rows(q) \cup Values(b)
  <2>1. Rows(Append(q, b)) \subseteq Rows(q) \cup Values(b)
    BY Zenon, <1>1, <1>2 DEF Rows
  <2>2. Rows(q) \subseteq Rows(Append(q, b))
    BY <1>1 DEF Rows
  <2>3. Values(b) \subseteq Rows(Append(q, b))
    <3>1. Len(q) + 1 \in DOMAIN Append(q, b)
      BY <1>1
    <3> QED
      BY Zenon, <1>1, <3>1 DEF Rows
  <2> QED
    BY Zenon, <2>1, <2>2, <2>3
<1>4. ASSUME Sorted(q), Ascending(b), Below(Rows(q), Values(b)) PROVE Sorted(Append(q, b))
  <2>1. \A i \in 1..Len(q) : Below(Values(q[i]), Values(b))
    BY Zenon, <1>1, <1>4 DEF Below, Rows
  <2> QED
    BY <1>1, <1>2, <1>4, <2>1 DEF Sorted
<1> QED
  BY Zenon, <1>1, <1>3, <1>4

(* Rows are numbers.                                                       *)
LEMMA RowsNat ==
    ASSUME NEW q \in Seq(Batches)
    PROVE  Rows(q) \subseteq Nat
<1> SUFFICES ASSUME NEW i \in DOMAIN q, NEW x \in Values(q[i]) PROVE x \in Nat
  BY Zenon DEF Rows
<1>1. q[i] \in Seq(Nat)
  BY DEF Batches
<1> QED
  BY <1>1 DEF Values

(* The rows of a stream, then those of its source's queue, then those that *)
(* the producer still has.                                                 *)
Chain(r, q, p) ==
    /\ Ascending(r) /\ Sorted(q) /\ Sorted(p)
    /\ Below(Values(r), Rows(q)) /\ Below(Values(r), Rows(p)) /\ Below(Rows(q), Rows(p))

(* SourceStream::pop takes a row that precedes the others.                 *)
LEMMA ChainPop ==
    ASSUME NEW r \in Seq(Nat), r # <<>>, NEW q, NEW p, Chain(r, q, p)
    PROVE  /\ Chain(Tail(r), q, p)
           /\ Below({r[1]}, Values(Tail(r)) \cup Rows(q) \cup Rows(p))
<1>1. /\ r[1] \in Values(r) /\ Values(Tail(r)) \subseteq Values(r)
      /\ Ascending(Tail(r)) /\ Below({r[1]}, Values(Tail(r)))
  BY Zenon, PopRow DEF Chain
<1>2. Chain(Tail(r), q, p)
  BY Zenon, <1>1 DEF Chain, Below
<1>3. Below({r[1]}, Rows(q)) /\ Below({r[1]}, Rows(p))
  BY Zenon, <1>1 DEF Chain, Below
<1> QED
  BY Zenon, <1>1, <1>2, <1>3 DEF Below

(* A stream or a queue without its rows is still in order.                 *)
LEMMA ChainClear ==
    ASSUME NEW r, NEW q, NEW p, Chain(r, q, p)
    PROVE  Chain(<<>>, q, p) /\ Chain(r, <<>>, p)
<1>1. Values(<<>>) = {} /\ Rows(<<>>) = {} /\ Ascending(<<>>) /\ Sorted(<<>>)
  BY Zenon, NoRows
<1>2. Chain(<<>>, q, p)
  BY Zenon, <1>1 DEF Chain, Below
<1>3. Chain(r, <<>>, p)
  BY Zenon, <1>1 DEF Chain, Below
<1> QED
  BY Zenon, <1>2, <1>3

(* The first batch of the queue becomes the stream's.                      *)
LEMMA ChainFetch ==
    ASSUME NEW q \in Seq(Batches), q # <<>>, NEW p, Chain(<<>>, q, p)
    PROVE  Chain(Head(q), Tail(q), p)
<1>1. /\ Rows(q) = Values(Head(q)) \cup Rows(Tail(q))
      /\ Ascending(Head(q)) /\ Sorted(Tail(q)) /\ Below(Values(Head(q)), Rows(Tail(q)))
  BY Zenon, PopBatch DEF Chain
<1> QED
  BY Zenon, <1>1 DEF Chain, Below

(* A batch that is not taken by a closed source.                           *)
LEMMA ChainDrop ==
    ASSUME NEW r, NEW q, NEW p \in Seq(Batches), p # <<>>, Chain(r, q, p)
    PROVE  Chain(r, q, Tail(p)) /\ Rows(Tail(p)) \subseteq Rows(p)
<1>1. Rows(Tail(p)) \subseteq Rows(p) /\ Sorted(Tail(p))
  BY Zenon, PopBatch DEF Chain
<1> QED
  BY Zenon, <1>1 DEF Chain, Below

(* The producer's next batch goes to the end of the queue.                 *)
LEMMA ChainEnqueue ==
    ASSUME NEW r, NEW q \in Seq(Batches), NEW p \in Seq(Batches), p # <<>>, Chain(r, q, p)
    PROVE  /\ Chain(r, Append(q, Head(p)), Tail(p))
           /\ Rows(Append(q, Head(p))) \cup Rows(Tail(p)) = Rows(q) \cup Rows(p)
<1>1. /\ Head(p) \in Batches
      /\ Rows(p) = Values(Head(p)) \cup Rows(Tail(p))
      /\ Ascending(Head(p)) /\ Sorted(Tail(p)) /\ Below(Values(Head(p)), Rows(Tail(p)))
  BY Zenon, PopBatch DEF Chain
<1>2. Below(Rows(q), Values(Head(p)))
  BY Zenon, <1>1 DEF Chain, Below
<1>3. /\ Rows(Append(q, Head(p))) = Rows(q) \cup Values(Head(p))
      /\ Sorted(Append(q, Head(p)))
  BY Zenon, <1>1, <1>2, AppendBatch DEF Chain
<1>4. Chain(r, Append(q, Head(p)), Tail(p))
  BY Zenon, <1>1, <1>2, <1>3 DEF Chain, Below
<1> QED
  BY Zenon, <1>1, <1>3, <1>4

-----------------------------------------------------------------------------
(* The merged output                                                       *)

StreamState == [rows : Seq(Nat), atEnd : BOOLEAN, needData : BOOLEAN]

MergeTypes ==
    /\ atEnd \in [Sources -> BOOLEAN]
    /\ stream \in [Sources -> StreamState]
    /\ output \in Seq(Nat)
    /\ cursor \in Nat \ {0}
    /\ futures \in Seq(Sources)

(* A stream is at its end when its producer is closed and its queue empty; *)
(* it has rows to merge unless it needs data.                              *)
StreamInv ==
    \A s \in Sources :
        /\ stream[s].atEnd =>
              queue[s] = <<>> /\ producer[s] = "closed" /\ stream[s].rows = <<>>
        /\ atEnd[s] => producer[s] = "closed" \/ consumer = "closed"
        /\ stream[s].needData => stream[s].rows = <<>> /\ ~stream[s].atEnd
        /\ ~stream[s].needData /\ ~stream[s].atEnd => stream[s].rows # <<>>
        /\ producer[s] = "closed" /\ ~failed => toProduce[s] = <<>>

(* Merge::getOutput runs when isBlocked has filled every stream.           *)
ConsumerInv ==
    /\ consumer \in {"isBlocked", "getOutput"} => cursor = 1
    /\ consumer = "getOutput" => \A s \in Sources : ~stream[s].needData
    /\ consumer = "fetch" =>
          \A s \in Sources : s < cursor /\ stream[s].needData => futures # <<>>
    /\ consumer = "finished" => \A s \in Sources : stream[s].atEnd

Left(s) == Values(stream[s].rows) \cup Rows(queue[s]) \cup Rows(toProduce[s])

(* Without what a closed producer has not enqueued.                        *)
Coming(s) ==
    Values(stream[s].rows) \cup Rows(queue[s])
        \cup (IF producer[s] = "closed" THEN {} ELSE Rows(toProduce[s]))

(* What is merged precedes all that can come, and nothing is in neither.   *)
OrderInv ==
    /\ Ascending(output) /\ Values(output) \subseteq Total
    /\ \A s \in Sources :
          /\ Chain(stream[s].rows, queue[s], toProduce[s])
          /\ Below(Values(output), Coming(s))
          /\ Left(s) \subseteq Rows(case.batches[s])
          /\ consumer # "closed" => Rows(case.batches[s]) \subseteq Values(output) \cup Left(s)

MergeInv == MergeTypes /\ StreamInv /\ ConsumerInv /\ OrderInv

-----------------------------------------------------------------------------
(* The sources of the plan; a join has one.                                *)
LEMMA CaseTypes ==
    ASSUME RoomInv
    PROVE  /\ case \in Cases
           /\ case.batches \in Seq(Seq(Batches)) /\ Len(case.batches) \in Nat \ {0}
           /\ Sources = 1..Len(case.batches) /\ 1 \in Sources
           /\ case.kind = "join" => Sources = {1}
<1>1. case \in Cases
  BY Zenon DEF RoomInv, SourceTypes
<1>2. /\ case.batches \in Seq(Seq(Batches))
      /\ Len(case.batches) \in 1..(IF case.kind = "join" THEN 1 ELSE MaxSources)
  BY Zenon, <1>1, MergeSourceAssumption DEF Batches
<1> QED
  BY <1>1, <1>2, MergeSourceAssumption DEF Sources

(* Each source is sorted, and no row is in two.                            *)
LEMMA CaseSorted ==
    ASSUME RoomInv, NEW s \in Sources
    PROVE  /\ Sorted(case.batches[s])
           /\ Rows(case.batches[s]) \subseteq Nat /\ Rows(case.batches[s]) \subseteq Total
           /\ \A t \in Sources \ {s} : Rows(case.batches[s]) \cap Rows(case.batches[t]) = {}
<1>1. case \in Cases /\ case.batches[s] \in Seq(Batches)
  BY CaseTypes DEF Sources
<1>2. Rows(case.batches[s]) \subseteq Nat
  BY Zenon, <1>1, RowsNat
<1> QED
  BY Zenon, <1>1, <1>2, SortedAssumption DEF Sources, Total

(* Nothing is merged yet, all rows are still to be produced.               *)
LEMMA MergeInit == Init => MergeInv
<1> SUFFICES ASSUME Init PROVE MergeInv
  BY Zenon
<1>1. RoomInv
  BY Zenon, RoomInit
<1>2. Values(<<>>) = {} /\ Rows(<<>>) = {} /\ Ascending(<<>>) /\ Sorted(<<>>)
  BY Zenon, NoRows
<1>3. MergeTypes
  BY DEF Init, MergeTypes, StreamState
<1>4. StreamInv
  BY Zenon DEF Init, StreamInv
<1>5. ConsumerInv
  BY Zenon, CaseTypes, <1>1 DEF Init, ConsumerInv
<1>6. OrderInv
  <2> SUFFICES ASSUME NEW s \in Sources
               PROVE  /\ Chain(<<>>, <<>>, case.batches[s])
                      /\ Below({}, Coming(s))
                      /\ Left(s) = Rows(case.batches[s])
    BY Zenon, <1>2 DEF Init, OrderInv
  <2>1. Left(s) = Rows(case.batches[s])
    BY Zenon, <1>2 DEF Init, Left
  <2>2. Chain(<<>>, <<>>, case.batches[s])
    BY Zenon, <1>1, <1>2, CaseSorted DEF Chain, Below
  <2> QED
    BY Zenon, <2>1, <2>2 DEF Below
<1> QED
  BY Zenon, <1>3, <1>4, <1>5, <1>6 DEF MergeInv

(* A step that adds X to the output, taken from what comes.                *)
LEMMA OrderKeeps ==
    ASSUME OrderInv, case' = case, NEW X, X \subseteq Total,
           Ascending(output'), Values(output') = Values(output) \cup X,
           \A t \in Sources :
              /\ Chain(stream'[t].rows, queue'[t], toProduce'[t])
              /\ Left(t)' \subseteq Left(t) /\ Coming(t)' \subseteq Coming(t)
              /\ Below(X, Coming(t)')
              /\ consumer' # "closed" => consumer # "closed" /\ Left(t) \subseteq Left(t)' \cup X
    PROVE  OrderInv'
<1>1. Sources' = Sources /\ Total' = Total
  BY Zenon DEF Sources, Total
<1>2. ASSUME NEW t \in Sources
      PROVE  /\ Below(Values(output)', Coming(t)')
             /\ Left(t)' \subseteq Rows(case.batches[t])
             /\ consumer' # "closed" => Rows(case.batches[t]) \subseteq Values(output)' \cup Left(t)'
  <2>1. Below(Values(output'), Coming(t)')
    BY Zenon, <1>2 DEF OrderInv, Below
  <2>2. Left(t)' \subseteq Rows(case.batches[t])
    BY Zenon, <1>2 DEF OrderInv
  <2>3. consumer' # "closed" => Rows(case.batches[t]) \subseteq Values(output') \cup Left(t)'
    BY Zenon, <1>2 DEF OrderInv
  <2> QED
    BY Zenon, <2>1, <2>2, <2>3 DEF Values
<1>3. Ascending(output)' /\ Values(output)' \subseteq Total
  BY Zenon DEF OrderInv, Ascending, Values
<1>4. \A t \in Sources : Chain(stream[t].rows, queue[t], toProduce[t])'
  BY Zenon DEF Chain, Ascending, Sorted, Below, Values, Rows
<1> QED
  BY Zenon, <1>1, <1>2, <1>3, <1>4 DEF OrderInv


(* A step that adds nothing to the output.                                 *)
LEMMA OrderQuiet ==
    ASSUME OrderInv, UNCHANGED <<case, output>>,
           \A t \in Sources :
              /\ Chain(stream'[t].rows, queue'[t], toProduce'[t])
              /\ Left(t)' \subseteq Left(t) /\ Coming(t)' \subseteq Coming(t)
              /\ consumer' # "closed" => consumer # "closed" /\ Left(t) \subseteq Left(t)'
    PROVE  OrderInv'
<1> DEFINE X == {}
<1>1. X \subseteq Total /\ Values(output') = Values(output) \cup X /\ Ascending(output')
  BY Zenon DEF OrderInv
<1>2. \A t \in Sources : Below(X, Coming(t)') /\ Left(t)' = Left(t)' \cup X
  BY Zenon DEF Below
<1> HIDE DEF X
<1> QED
  BY Zenon, <1>1, <1>2, OrderKeeps

(* A step that adds nothing to the output and leaves the streams, queues   *)
(* and producers alone.                                                    *)
LEMMA OrderFrame ==
    ASSUME OrderInv, UNCHANGED <<case, queue, producerVars, stream, output>>,
           consumer' = "closed" \/ consumer # "closed"
    PROVE  OrderInv'
<1>1. \A t \in Sources : Left(t)' = Left(t) /\ Coming(t)' = Coming(t)
  BY Zenon DEF Left, Coming, producerVars
<1> QED
  BY Zenon, <1>1, OrderQuiet DEF OrderInv, producerVars

(* next() takes the first batch, reports the end, or gives a future.       *)
LEMMA FetchEffect ==
    ASSUME RoomInv, MergeTypes, NEW s \in Sources, Fetch(s), UNCHANGED <<case, producerVars>>,
           Chain(<<>>, queue[s], toProduce[s])
    PROVE  \E n \in StreamState :
              /\ stream' = [stream EXCEPT ![s] = n]
              /\ futures' \in Seq(Sources)
              /\ futures' = futures \/ futures' # <<>>
              /\ n.needData => n.rows = <<>> /\ ~n.atEnd /\ futures' # <<>>
              /\ n.atEnd => queue'[s] = <<>> /\ atEnd[s] /\ n.rows = <<>>
              /\ ~n.needData /\ ~n.atEnd => n.rows # <<>>
              /\ \A t \in Sources \ {s} : queue'[t] = queue[t]
              /\ Chain(n.rows, queue'[s], toProduce[s])
              /\ Values(n.rows) \cup Rows(queue'[s]) = Rows(queue[s])
<1>1. queue[s] \in Seq(Batches) /\ queue \in [Sources -> Seq(Batches)]
  BY Zenon DEF RoomInv, SourceTypes
<1>2. CASE queue[s] # <<>> /\ Take(s) /\ futures' = futures
           /\ stream' = [stream EXCEPT ![s] =
                [rows |-> Head(queue[s]), atEnd |-> FALSE, needData |-> FALSE]]
  <2>1. /\ Head(queue[s]) \in Batches
        /\ Rows(queue[s]) = Values(Head(queue[s])) \cup Rows(Tail(queue[s]))
    BY Zenon, <1>1, <1>2, PopBatch
  <2>2. Chain(Head(queue[s]), Tail(queue[s]), toProduce[s])
    BY Zenon, <1>1, <1>2, ChainFetch
  <2>3. queue'[s] = Tail(queue[s]) /\ \A t \in Sources \ {s} : queue'[t] = queue[t]
    BY Zenon, <1>1, <1>2 DEF Take
  <2>4. [rows |-> Head(queue[s]), atEnd |-> FALSE, needData |-> FALSE] \in StreamState
    BY Zenon, <2>1 DEF StreamState, Batches
  <2>5. Head(queue[s]) # <<>> /\ futures' \in Seq(Sources)
    BY Zenon, <1>2, <2>1 DEF Batches, MergeTypes
  <2> DEFINE n == [rows |-> Head(queue[s]), atEnd |-> FALSE, needData |-> FALSE]
  <2>6. n.rows = Head(queue[s]) /\ ~n.atEnd /\ ~n.needData
    BY Zenon
  <2> HIDE DEF n
  <2> QED
    BY Zenon, <1>2, <2>1, <2>2, <2>3, <2>4, <2>5, <2>6 DEF n
<1>3. CASE queue[s] = <<>> /\ atEnd[s] /\ UNCHANGED <<queue, futures>>
           /\ stream' = [stream EXCEPT ![s] =
                [rows |-> <<>>, atEnd |-> TRUE, needData |-> FALSE]]
  <2> DEFINE n == [rows |-> <<>>, atEnd |-> TRUE, needData |-> FALSE]
  <2>1. n.rows = <<>> /\ n.atEnd /\ ~n.needData /\ n \in StreamState
    BY DEF StreamState
  <2>2. futures' \in Seq(Sources) /\ Values(<<>>) = {}
    BY Zenon, <1>3, NoRows DEF MergeTypes
  <2> HIDE DEF n
  <2> QED
    BY Zenon, <1>3, <2>1, <2>2 DEF n
<1>4. CASE queue[s] = <<>> /\ UNCHANGED queue /\ futures' = Append(futures, s)
           /\ stream' = [stream EXCEPT ![s] =
                [rows |-> <<>>, atEnd |-> FALSE, needData |-> TRUE]]
  <2> DEFINE n == [rows |-> <<>>, atEnd |-> FALSE, needData |-> TRUE]
  <2>1. n.rows = <<>> /\ ~n.atEnd /\ n.needData /\ n \in StreamState
    BY DEF StreamState
  <2>2. Append(futures, s) \in Seq(Sources) /\ Append(futures, s) # <<>>
    <3>1. futures \in Seq(Sources)
      BY Zenon DEF MergeTypes
    <3> QED
      BY <3>1
  <2>3. Values(<<>>) = {}
    BY Zenon, NoRows
  <2> HIDE DEF n
  <2> QED
    BY Zenon, <1>4, <2>1, <2>2, <2>3 DEF n
<1> QED
  BY Zenon, <1>2, <1>3, <1>4 DEF Fetch

(* Merge::isBlocked goes over the streams that need data.                  *)
LEMMA FetchStreamsKeeps ==
    ASSUME RoomInv, MergeInv, FetchStreams
    PROVE  MergeInv'
<1>1. /\ Sources' = Sources /\ UNCHANGED <<case, atEnd, producerVars, output, failed>>
      /\ consumer \in {"isBlocked", "fetch"} /\ consumer' = "fetch"
      /\ cursor \in Sources /\ cursor' = cursor + 1 /\ cursor \in Nat \ {0}
      /\ consumer = "isBlocked" => futures = <<>> /\ cursor = 1
  BY Zenon DEF FetchStreams, Sources, MergeInv, MergeTypes, ConsumerInv
<1>2. \A s \in Sources : s \in Nat \ {0}
  BY CaseTypes
<1>3. \A s \in Sources : s < cursor /\ stream[s].needData => futures # <<>>
  <2>1. CASE consumer = "isBlocked"
    BY <1>1, <1>2, <2>1
  <2>2. CASE consumer = "fetch"
    BY Zenon, <2>2 DEF MergeInv, ConsumerInv
  <2> QED
    BY Zenon, <1>1, <2>1, <2>2
<1>4. CASE ~stream[cursor].needData
  <2>1. UNCHANGED <<stream, futures, queue>>
    BY Zenon, <1>4 DEF FetchStreams
  <2>2. MergeTypes' /\ StreamInv'
    BY <1>1, <2>1 DEF MergeInv, MergeTypes, StreamInv, producerVars
  <2>3. \A s \in Sources : s < cursor + 1 /\ stream[s].needData => futures # <<>>
    <3> SUFFICES ASSUME NEW s \in Sources, s < cursor + 1, stream[s].needData
                 PROVE  futures # <<>>
      BY Zenon
    <3>1. s # cursor
      BY Zenon, <1>4
    <3>2. s < cursor
      BY <1>1, <1>2, <3>1
    <3> QED
      BY Zenon, <1>3, <3>2
  <2>4. ConsumerInv'
    BY Zenon, <1>1, <2>1, <2>3 DEF ConsumerInv
  <2>5. OrderInv'
    BY Zenon, <1>1, <2>1, OrderFrame DEF MergeInv
  <2> QED
    BY Zenon, <2>2, <2>4, <2>5 DEF MergeInv
<1>5. CASE stream[cursor].needData
  <2>1. Fetch(cursor)
    BY Zenon, <1>5 DEF FetchStreams
  <2>2. stream[cursor].rows = <<>> /\ ~stream[cursor].atEnd
    BY Zenon, <1>1, <1>5 DEF MergeInv, StreamInv
  <2>3. Chain(<<>>, queue[cursor], toProduce[cursor])
    BY Zenon, <1>1, <2>2 DEF MergeInv, OrderInv
  <2>4. PICK n \in StreamState :
              /\ stream' = [stream EXCEPT ![cursor] = n]
              /\ futures' \in Seq(Sources)
              /\ futures' = futures \/ futures' # <<>>
              /\ n.needData => n.rows = <<>> /\ ~n.atEnd /\ futures' # <<>>
              /\ n.atEnd => queue'[cursor] = <<>> /\ atEnd[cursor] /\ n.rows = <<>>
              /\ ~n.needData /\ ~n.atEnd => n.rows # <<>>
              /\ \A t \in Sources \ {cursor} : queue'[t] = queue[t]
              /\ Chain(n.rows, queue'[cursor], toProduce[cursor])
              /\ Values(n.rows) \cup Rows(queue'[cursor]) = Rows(queue[cursor])
    BY Zenon, <1>1, <2>1, <2>3, FetchEffect DEF MergeInv
  <2>5. /\ stream' \in [Sources -> StreamState] /\ stream'[cursor] = n
        /\ \A t \in Sources \ {cursor} : stream'[t] = stream[t]
    BY Zenon, <1>1, <2>4 DEF MergeInv, MergeTypes
  <2>6. MergeTypes'
    BY <1>1, <2>4, <2>5 DEF MergeInv, MergeTypes
  <2>7. StreamInv'
    <3> SUFFICES ASSUME NEW s \in Sources
                 PROVE  /\ stream'[s].atEnd =>
                              queue'[s] = <<>> /\ producer[s] = "closed" /\ stream'[s].rows = <<>>
                        /\ atEnd[s] => producer[s] = "closed"
                        /\ stream'[s].needData => stream'[s].rows = <<>> /\ ~stream'[s].atEnd
                        /\ ~stream'[s].needData /\ ~stream'[s].atEnd => stream'[s].rows # <<>>
                        /\ producer[s] = "closed" /\ ~failed => toProduce[s] = <<>>
      BY Zenon, <1>1 DEF StreamInv, producerVars
    <3>1. /\ atEnd[s] => producer[s] = "closed"
          /\ producer[s] = "closed" /\ ~failed => toProduce[s] = <<>>
      BY Zenon, <1>1 DEF MergeInv, StreamInv
    <3>2. CASE s = cursor
      BY Zenon, <2>4, <2>5, <3>1, <3>2
    <3>3. CASE s # cursor
      BY Zenon, <2>4, <2>5, <3>1, <3>3 DEF MergeInv, StreamInv
    <3> QED
      BY Zenon, <3>2, <3>3
  <2>8. ConsumerInv'
    <3> SUFFICES ASSUME NEW s \in Sources, s < cursor + 1, stream'[s].needData
                 PROVE  futures' # <<>>
      BY Zenon, <1>1 DEF ConsumerInv
    <3>1. CASE s = cursor
      BY Zenon, <2>4, <2>5, <3>1
    <3>2. CASE s # cursor
      <4>1. s < cursor /\ stream[s].needData
        BY <1>1, <1>2, <2>5, <3>2
      <4> QED
        BY Zenon, <1>3, <2>4, <4>1
    <3> QED
      BY Zenon, <3>1, <3>2
  <2>9. OrderInv'
    <3>1. ASSUME NEW t \in Sources
          PROVE  /\ Chain(stream'[t].rows, queue'[t], toProduce'[t])
                 /\ Left(t)' = Left(t) /\ Coming(t)' = Coming(t)
      <4>1. CASE t = cursor
        <5>1. Chain(stream'[t].rows, queue'[t], toProduce'[t])
          BY Zenon, <1>1, <2>4, <2>5, <4>1 DEF producerVars
        <5>2. Values(stream[t].rows) = {}
          BY Zenon, <2>2, <4>1, NoRows
        <5>3. Values(stream'[t].rows) \cup Rows(queue'[t]) = Values(stream[t].rows) \cup Rows(queue[t])
          BY Zenon, <2>4, <2>5, <4>1, <5>2
        <5>4. Values(stream[t].rows)' = Values(stream'[t].rows) /\ Rows(queue[t])' = Rows(queue'[t])
          BY Zenon DEF Values, Rows
        <5> QED
          BY Zenon, <1>1, <5>1, <5>3, <5>4 DEF Left, Coming, producerVars
      <4>2. CASE t # cursor
        <5>1. stream'[t] = stream[t] /\ queue'[t] = queue[t] /\ UNCHANGED producerVars
          BY Zenon, <1>1, <2>4, <2>5, <3>1, <4>2
        <5>2. Values(stream[t].rows)' = Values(stream[t].rows) /\ Rows(queue[t])' = Rows(queue[t])
          BY <5>1 DEF Values, Rows
        <5>3. Left(t)' = Left(t) /\ Coming(t)' = Coming(t)
          BY Zenon, <5>1, <5>2 DEF Left, Coming, producerVars
        <5> QED
          BY Zenon, <3>1, <5>1, <5>3 DEF MergeInv, OrderInv, producerVars
      <4> QED
        BY Zenon, <4>1, <4>2
    <3> QED
      BY Zenon, <1>1, <3>1, OrderQuiet DEF MergeInv
  <2> QED
    BY Zenon, <2>6, <2>7, <2>8, <2>9 DEF MergeInv
<1> QED
  BY Zenon, <1>4, <1>5


(* Taking the last element off a sequence that is not empty.               *)
LEMMA AllButLast ==
    ASSUME NEW S, NEW q \in Seq(S), q # <<>>
    PROVE  SubSeq(q, 1, Len(q) - 1) \in Seq(S) /\ q[Len(q)] \in S
<1>1. Len(q) \in Nat \ {0} /\ \A i \in 1..Len(q) : q[i] \in S
  OBVIOUS
<1>2. 1 \in Int /\ Len(q) - 1 \in Int /\ Len(q) \in 1..Len(q)
      /\ \A i \in 1..(Len(q) - 1) : i \in 1..Len(q)
  BY <1>1
<1>3. \A i \in 1..(Len(q) - 1) : q[i] \in S
  BY Zenon, <1>1, <1>2
<1> QED
  BY Zenon, <1>1, <1>2, <1>3, SubSeqProperties

(* Merge::isBlocked returns a future, or every stream has data.            *)
LEMMA WaitKeeps ==
    ASSUME RoomInv, MergeInv, Wait
    PROVE  MergeInv'
<1>1. Sources' = Sources /\ UNCHANGED <<case, sourceVars, producerVars, stream, output, failed>>
  BY Zenon DEF Wait, Sources
<1>2. /\ Sources = 1..Len(case.batches) /\ Len(case.batches) \in Nat
      /\ futures \in Seq(Sources) /\ cursor \in Nat \ {0}
  BY Zenon, CaseTypes DEF MergeInv, MergeTypes
<1>3. consumer # "closed" /\ consumer' # "closed"
  BY Zenon DEF Wait
<1>4. OrderInv'
  BY Zenon, <1>1, <1>3, OrderFrame DEF MergeInv, sourceVars
<1>5. StreamInv'
  BY Zenon, <1>1, <1>3 DEF MergeInv, StreamInv, sourceVars, producerVars
<1>6. CASE /\ futures # <<>> /\ consumer' = "blocked" /\ cursor' = futures[Len(futures)]
           /\ futures' = SubSeq(futures, 1, Len(futures) - 1)
  <2>1. futures' \in Seq(Sources) /\ cursor' \in Sources
    BY Zenon, <1>2, <1>6, AllButLast
  <2>2. cursor' \in Nat \ {0}
    <3>1. 1..Len(case.batches) \subseteq Nat \ {0}
      BY <1>2
    <3> QED
      BY Zenon, <1>2, <2>1, <3>1
  <2>3. MergeTypes'
    BY Zenon, <1>1, <2>1, <2>2 DEF MergeInv, MergeTypes, sourceVars
  <2>4. ConsumerInv'
    BY Zenon, <1>6 DEF ConsumerInv
  <2> QED
    BY Zenon, <1>4, <1>5, <2>3, <2>4 DEF MergeInv
<1>7. CASE /\ futures = <<>> /\ consumer # "isBlocked" /\ cursor' = 1 /\ futures' = futures
           /\ consumer' = IF consumer = "fetch" THEN "getOutput" ELSE "isBlocked"
  <2>1. MergeTypes'
    BY <1>1, <1>2, <1>7 DEF MergeInv, MergeTypes, sourceVars
  <2>2. consumer' = "getOutput" => \A s \in Sources : ~stream[s].needData
    <3> SUFFICES ASSUME consumer = "fetch", NEW s \in Sources
                 PROVE  ~stream[s].needData
      BY Zenon, <1>7
    <3>1. cursor \notin Sources
      BY Zenon DEF Wait
    <3>2. s < cursor
      BY <1>2, <3>1
    <3> QED
      BY Zenon, <1>7, <3>2 DEF MergeInv, ConsumerInv
  <2>3. ConsumerInv'
    BY Zenon, <1>1, <1>7, <2>2 DEF ConsumerInv
  <2> QED
    BY Zenon, <1>4, <1>5, <2>1, <2>3 DEF MergeInv
<1> QED
  BY Zenon, <1>6, <1>7 DEF Wait

(* enqueue moves a batch; only a source closed by its consumer drops one.  *)
LEMMA EnqueueKeeps ==
    ASSUME RoomInv, MergeInv, NEW s \in Sources, Enqueue(s)
    PROVE  MergeInv'
<1>1. /\ Sources' = Sources /\ UNCHANGED <<case, atEnd, consumerVars, output, failed>>
      /\ toProduce[s] # <<>> /\ toProduce' = [toProduce EXCEPT ![s] = Tail(@)]
      /\ producer[s] # "closed"
  BY Zenon DEF Enqueue, Sources, ProducerRuns
<1>2. /\ queue \in [Sources -> Seq(Batches)] /\ toProduce \in [Sources -> Seq(Batches)]
      /\ producer \in [Sources -> {"running", "blocked", "closed"}]
      /\ queue[s] \in Seq(Batches) /\ toProduce[s] \in Seq(Batches)
  BY Zenon DEF RoomInv, SourceTypes
<1>3. /\ toProduce'[s] = Tail(toProduce[s])
      /\ \A t \in Sources \ {s} : toProduce'[t] = toProduce[t]
  BY Zenon, <1>1, <1>2
<1>4. producer'[s] # "closed" /\ \A t \in Sources \ {s} : producer'[t] = producer[t]
  BY Zenon, <1>2 DEF Enqueue
<1>5. \A t \in Sources \ {s} : queue'[t] = queue[t]
  BY Zenon, <1>2 DEF Enqueue
<1>6. ~stream[s].atEnd
  BY Zenon, <1>1 DEF MergeInv, StreamInv
<1>7. MergeTypes' /\ ConsumerInv'
  BY Zenon, <1>1 DEF MergeInv, MergeTypes, ConsumerInv, consumerVars
<1>8. StreamInv'
  <2> SUFFICES ASSUME NEW t \in Sources
               PROVE  /\ stream[t].atEnd =>
                            queue'[t] = <<>> /\ producer'[t] = "closed" /\ stream[t].rows = <<>>
                      /\ atEnd[t] => producer'[t] = "closed" \/ consumer = "closed"
                      /\ stream[t].needData => stream[t].rows = <<>> /\ ~stream[t].atEnd
                      /\ ~stream[t].needData /\ ~stream[t].atEnd => stream[t].rows # <<>>
                      /\ producer'[t] = "closed" /\ ~failed => toProduce'[t] = <<>>
    BY Zenon, <1>1 DEF StreamInv, consumerVars
  <2>1. CASE t = s
    BY Zenon, <1>1, <1>4, <1>6, <2>1 DEF MergeInv, StreamInv
  <2>2. CASE t # s
    BY <1>3, <1>4, <1>5, <2>2 DEF MergeInv, StreamInv
  <2> QED
    BY Zenon, <2>1, <2>2
<1>9. Chain(stream[s].rows, queue[s], toProduce[s])
  BY Zenon DEF MergeInv, OrderInv
<1>10. /\ Chain(stream'[s].rows, queue'[s], toProduce'[s])
       /\ Rows(queue'[s]) \cup Rows(toProduce'[s]) \subseteq Rows(queue[s]) \cup Rows(toProduce[s])
       /\ \/ consumer = "closed"
          \/ Rows(queue[s]) \cup Rows(toProduce[s]) \subseteq Rows(queue'[s]) \cup Rows(toProduce'[s])
  <2>1. CASE queue' = queue /\ atEnd[s]
    <3>1. consumer = "closed"
      BY Zenon, <1>1, <2>1 DEF MergeInv, StreamInv
    <3>2. Chain(stream[s].rows, queue[s], Tail(toProduce[s])) /\ Rows(Tail(toProduce[s])) \subseteq Rows(toProduce[s])
      BY Zenon, <1>1, <1>2, <1>9, ChainDrop
    <3> QED
      BY Zenon, <1>1, <1>3, <2>1, <3>1, <3>2 DEF consumerVars
  <2>2. CASE queue' = [queue EXCEPT ![s] = Append(@, Head(toProduce[s]))]
    <3>1. queue'[s] = Append(queue[s], Head(toProduce[s]))
      BY Zenon, <1>2, <2>2
    <3>2. /\ Chain(stream[s].rows, Append(queue[s], Head(toProduce[s])), Tail(toProduce[s]))
          /\ Rows(Append(queue[s], Head(toProduce[s]))) \cup Rows(Tail(toProduce[s]))
                = Rows(queue[s]) \cup Rows(toProduce[s])
      BY <1>1, <1>2, <1>9, ChainEnqueue
    <3> QED
      BY Zenon, <1>1, <1>3, <3>1, <3>2 DEF consumerVars
  <2> QED
    BY Zenon, <2>1, <2>2 DEF Enqueue
<1>11. ASSUME NEW t \in Sources
       PROVE  /\ Chain(stream'[t].rows, queue'[t], toProduce'[t])
              /\ Left(t)' \subseteq Left(t) /\ Coming(t)' \subseteq Coming(t)
              /\ consumer # "closed" => Left(t) \subseteq Left(t)'
  <2>1. /\ Values(stream[t].rows)' = Values(stream[t].rows)
        /\ Rows(queue[t])' = Rows(queue'[t]) /\ Rows(toProduce[t])' = Rows(toProduce'[t])
    BY Zenon, <1>1 DEF Values, Rows, consumerVars
  <2>2. CASE t = s
    <3>1. Left(t)' \subseteq Left(t) /\ (consumer # "closed" => Left(t) \subseteq Left(t)')
      BY Zenon, <1>10, <2>1, <2>2 DEF Left
    <3>2. Coming(t)' = Left(t)' /\ Coming(t) = Left(t)
      BY Zenon, <1>1, <1>4, <2>2 DEF Coming, Left
    <3> QED
      BY Zenon, <1>10, <2>2, <3>1, <3>2
  <2>3. CASE t # s
    <3>1. Left(t)' = Left(t) /\ Coming(t)' = Coming(t)
      BY Zenon, <1>3, <1>4, <1>5, <2>1, <2>3 DEF Left, Coming
    <3> QED
      BY Zenon, <1>1, <1>3, <1>5, <2>3, <3>1 DEF MergeInv, OrderInv, consumerVars
  <2> QED
    BY Zenon, <2>2, <2>3
<1>12. OrderInv'
  BY Zenon, <1>1, <1>11, OrderQuiet DEF MergeInv, consumerVars
<1> QED
  BY Zenon, <1>7, <1>8, <1>12 DEF MergeInv

(* enqueue(nullptr) ends a source that has all its batches, unless the     *)
(* task failed.                                                            *)
LEMMA CloseProducerKeeps ==
    ASSUME RoomInv, MergeInv, NEW s \in Sources, CloseProducer(s)
    PROVE  MergeInv'
<1>1. /\ Sources' = Sources /\ UNCHANGED <<case, queue, toProduce, consumerVars, output, failed>>
      /\ producer' = [producer EXCEPT ![s] = "closed"]
      /\ atEnd' = [atEnd EXCEPT ![s] = TRUE]
      /\ toProduce[s] = <<>> \/ failed
  BY Zenon DEF CloseProducer, Sources
<1>2. /\ producer'[s] = "closed" /\ \A t \in Sources \ {s} : producer'[t] = producer[t]
      /\ atEnd' \in [Sources -> BOOLEAN] /\ \A t \in Sources \ {s} : atEnd'[t] = atEnd[t]
  BY Zenon, <1>1 DEF RoomInv, SourceTypes, MergeInv, MergeTypes
<1>3. MergeTypes' /\ ConsumerInv'
  BY Zenon, <1>1, <1>2 DEF MergeInv, MergeTypes, ConsumerInv, consumerVars
<1>4. StreamInv'
  <2> SUFFICES ASSUME NEW t \in Sources
               PROVE  /\ stream[t].atEnd =>
                            queue[t] = <<>> /\ producer'[t] = "closed" /\ stream[t].rows = <<>>
                      /\ atEnd'[t] => producer'[t] = "closed" \/ consumer = "closed"
                      /\ stream[t].needData => stream[t].rows = <<>> /\ ~stream[t].atEnd
                      /\ ~stream[t].needData /\ ~stream[t].atEnd => stream[t].rows # <<>>
                      /\ producer'[t] = "closed" /\ ~failed => toProduce[t] = <<>>
    BY Zenon, <1>1 DEF StreamInv, consumerVars
  <2>1. CASE t = s
    BY Zenon, <1>1, <1>2, <2>1 DEF MergeInv, StreamInv
  <2>2. CASE t # s
    BY Zenon, <1>2, <2>2 DEF MergeInv, StreamInv
  <2> QED
    BY Zenon, <2>1, <2>2
<1>5. ASSUME NEW t \in Sources
      PROVE  Left(t)' = Left(t) /\ Coming(t)' \subseteq Coming(t)
  <2>1. Left(t)' = Left(t)
    BY Zenon, <1>1 DEF Left, consumerVars
  <2>2. Coming(t)' \subseteq Coming(t)
    BY Zenon, <1>1, <1>2 DEF Coming, consumerVars
  <2> QED
    BY Zenon, <2>1, <2>2
<1>6. OrderInv'
  BY Zenon, <1>1, <1>5, OrderQuiet DEF MergeInv, OrderInv, consumerVars
<1> QED
  BY Zenon, <1>3, <1>4, <1>6 DEF MergeInv

(* The steps that merge nothing.                                           *)
LEMMA EndsKeep ==
    ASSUME RoomInv, MergeInv,
           Fail \/ MergeEnd \/ CloseConsumer \/ UNCHANGED vars
    PROVE  MergeInv'
<1>1. /\ Sources' = Sources
      /\ UNCHANGED <<case, producerVars, cursor, futures, stream, output>>
      /\ failed' = failed \/ failed'
  BY Zenon DEF Fail, MergeEnd, CloseConsumer, vars, Sources, consumerVars
<1>2. CASE CloseConsumer
  <2>1. consumer' = "closed" /\ failed' = failed
    BY Zenon, <1>2 DEF CloseConsumer
  <2>2. /\ atEnd' \in [Sources -> BOOLEAN]
        /\ \A t \in Sources : queue'[t] = queue[t] \/ queue'[t] = <<>>
    <3>1. CASE CloseSource(1) /\ atEnd' = [atEnd EXCEPT ![1] = TRUE]
      BY Zenon, <3>1 DEF CloseSource, MergeInv, MergeTypes, RoomInv, SourceTypes
    <3>2. CASE UNCHANGED sourceVars
      BY Zenon, <3>2 DEF sourceVars, MergeInv, MergeTypes
    <3> QED
      BY Zenon, <1>2, <3>1, <3>2 DEF CloseConsumer
  <2>3. MergeTypes' /\ ConsumerInv'
    BY Zenon, <1>1, <2>1, <2>2 DEF MergeInv, MergeTypes, ConsumerInv
  <2>4. StreamInv'
    BY Zenon, <1>1, <2>1, <2>2 DEF MergeInv, StreamInv, producerVars
  <2>5. ASSUME NEW t \in Sources
        PROVE  /\ Chain(stream'[t].rows, queue'[t], toProduce'[t])
               /\ Left(t)' \subseteq Left(t) /\ Coming(t)' \subseteq Coming(t)
    <3>1. Chain(stream[t].rows, queue[t], toProduce[t])
      BY Zenon DEF MergeInv, OrderInv
    <3>2. Chain(stream[t].rows, queue'[t], toProduce[t])
      BY Zenon, <2>2, <3>1, ChainClear
    <3>3. Rows(queue'[t]) \subseteq Rows(queue[t])
      BY Zenon, <2>2, NoRows
    <3>4. /\ Values(stream[t].rows)' = Values(stream[t].rows)
          /\ Rows(queue[t])' = Rows(queue'[t]) /\ Rows(toProduce[t])' = Rows(toProduce[t])
      BY <1>1 DEF Values, Rows, producerVars
    <3> QED
      BY Zenon, <1>1, <3>2, <3>3, <3>4 DEF Left, Coming, producerVars
  <2>6. OrderInv'
    BY Zenon, <1>1, <2>1, <2>5, OrderQuiet DEF MergeInv
  <2> QED
    BY Zenon, <2>3, <2>4, <2>6 DEF MergeInv
<1>3. CASE Fail \/ MergeEnd \/ UNCHANGED vars
  <2>1. UNCHANGED <<queue, atEnd>>
    BY Zenon, <1>3 DEF Fail, MergeEnd, vars, sourceVars
  <2>2. \/ consumer' = consumer
        \/ consumer # "closed" /\ consumer' = "finished" /\ \A s \in Sources : stream[s].atEnd
    BY Zenon, <1>3 DEF Fail, MergeEnd, vars, consumerVars, Live
  <2>3. MergeTypes' /\ StreamInv'
    BY <1>1, <2>1, <2>2 DEF MergeInv, MergeTypes, StreamInv, producerVars
  <2>4. ConsumerInv'
    BY Zenon, <1>1, <2>2 DEF MergeInv, ConsumerInv
  <2>5. OrderInv'
    BY Zenon, <1>1, <2>1, <2>2, OrderFrame DEF MergeInv
  <2> QED
    BY Zenon, <2>3, <2>4, <2>5 DEF MergeInv
<1> QED
  BY Zenon, <1>2, <1>3


(* The least of the current rows precedes all that the other streams bring. *)
LEMMA LeastIsBelow ==
    ASSUME RoomInv, MergeInv, consumer = "getOutput",
           NEW s \in Live, Least(s), NEW t \in Sources \ {s}
    PROVE  Below({stream[s].rows[1]}, Coming(t))
<1> DEFINE x == stream[s].rows[1]
           r == stream[t].rows
<1>1. CASE t \in Live
  <2>1. /\ s \in Sources /\ stream[s].rows \in Seq(Nat) /\ r \in Seq(Nat)
        /\ stream[s].rows # <<>> /\ r # <<>>
    <3>1. \A u \in Sources : stream[u].rows \in Seq(Nat)
      BY Zenon DEF MergeInv, MergeTypes, StreamState
    <3>2. \A u \in Live : stream[u].rows # <<>>
      BY Zenon DEF MergeInv, ConsumerInv, StreamInv, Live
    <3> QED
      BY Zenon, <1>1, <3>1, <3>2 DEF Live
  <2>2. x \in Nat /\ x \in Left(s)
    BY Zenon, <2>1, PopRow DEF Left
  <2>3. r[1] \in Nat /\ r[1] \in Left(t) /\ Values(r) = {r[1]} \cup Values(Tail(r))
    BY Zenon, <2>1, PopRow DEF Left
  <2>4. x # r[1]
    <3>1. x \in Rows(case.batches[s]) /\ r[1] \in Rows(case.batches[t])
      BY Zenon, <2>1, <2>2, <2>3 DEF MergeInv, OrderInv
    <3> QED
      BY Zenon, <2>1, <3>1, CaseSorted
  <2>5. x < r[1]
    BY <1>1, <2>2, <2>3, <2>4 DEF Least
  <2>6. Below({r[1]}, Values(Tail(r)) \cup Rows(queue[t]) \cup Rows(toProduce[t]))
    BY Zenon, <2>1, ChainPop DEF MergeInv, OrderInv
  <2> SUFFICES ASSUME NEW z \in Coming(t) PROVE x < z
    BY Zenon DEF Below
  <2>7. z \in Left(t)
    BY Zenon DEF Coming, Left
  <2>8. z \in Nat
    BY Zenon, <2>7, CaseSorted DEF MergeInv, OrderInv
  <2>9. z = r[1] \/ r[1] < z
    BY Zenon, <2>3, <2>6, <2>7 DEF Left, Below
  <2> QED
    BY <2>2, <2>3, <2>5, <2>8, <2>9
<1>2. CASE t \notin Live
  <2>1. queue[t] = <<>> /\ producer[t] = "closed" /\ stream[t].rows = <<>>
    BY Zenon, <1>2 DEF Live, MergeInv, StreamInv
  <2>2. Coming(t) = {}
    BY Zenon, <2>1, NoRows DEF Coming
  <2> QED
    BY Zenon, <2>2 DEF Below
<1> QED
  BY Zenon, <1>1, <1>2

(* A row of the merge: the stream goes on to its next row, or fetches.     *)
LEMMA MergeRowKeeps ==
    ASSUME RoomInv, MergeInv, NEW s \in Sources, MergeRow(s)
    PROVE  MergeInv'
<1> DEFINE x == stream[s].rows[1]
           r == stream[s].rows
<1>1. /\ Sources' = Sources /\ UNCHANGED <<case, cursor, producerVars, failed, atEnd>>
      /\ consumer = "getOutput" /\ s \in Live /\ Least(s) /\ output' = Append(output, x)
      /\ consumer' \in {"getOutput", "isBlocked"}
  BY Zenon DEF MergeRow, Sources, sourceVars
<1>2. /\ r \in Seq(Nat) /\ r # <<>> /\ cursor = 1 /\ ~stream[s].needData /\ ~stream[s].atEnd
      /\ stream \in [Sources -> StreamState] /\ stream[s] \in StreamState
      /\ output \in Seq(Nat) /\ futures \in Seq(Sources)
      /\ \A t \in Sources : ~stream[t].needData
  <2>1. stream \in [Sources -> StreamState] /\ stream[s] \in StreamState
    BY Zenon DEF MergeInv, MergeTypes
  <2>2. ~stream[s].needData /\ ~stream[s].atEnd /\ cursor = 1
    BY Zenon, <1>1 DEF MergeInv, ConsumerInv, Live
  <2> QED
    BY Zenon, <1>1, <2>1, <2>2 DEF MergeInv, MergeTypes, ConsumerInv, StreamInv, StreamState
<1>3. /\ x \in Nat /\ x \in Values(r) /\ Tail(r) \in Seq(Nat)
      /\ Values(r) = {x} \cup Values(Tail(r))
  BY Zenon, <1>2, PopRow
<1>4. Chain(r, queue[s], toProduce[s])
  BY Zenon DEF MergeInv, OrderInv
<1>5. /\ Chain(Tail(r), queue[s], toProduce[s])
      /\ Below({x}, Values(Tail(r)) \cup Rows(queue[s]) \cup Rows(toProduce[s]))
  BY Zenon, <1>2, <1>4, ChainPop
<1>6. \E n \in StreamState :
        /\ stream' = [stream EXCEPT ![s] = n]
        /\ futures' \in Seq(Sources)
        /\ n.needData => n.rows = <<>> /\ ~n.atEnd /\ consumer' # "getOutput"
        /\ n.atEnd => queue'[s] = <<>> /\ atEnd[s] /\ n.rows = <<>>
        /\ ~n.needData /\ ~n.atEnd => n.rows # <<>>
        /\ \A t \in Sources \ {s} : queue'[t] = queue[t]
        /\ Chain(n.rows, queue'[s], toProduce[s])
        /\ Values(n.rows) \cup Rows(queue'[s]) = Values(Tail(r)) \cup Rows(queue[s])
  <2>1. CASE /\ Len(r) > 1 /\ stream' = [stream EXCEPT ![s].rows = Tail(@)]
             /\ UNCHANGED <<consumer, futures, sourceVars>>
    <3> DEFINE n == [stream[s] EXCEPT !.rows = Tail(r)]
    <3>1. n.rows = Tail(r) /\ ~n.atEnd /\ ~n.needData /\ n \in StreamState
      BY Zenon, <1>2, <1>3 DEF StreamState
    <3>2. stream' = [stream EXCEPT ![s] = n]
      BY Zenon, <1>2, <2>1
    <3>3. Tail(r) # <<>>
      BY Zenon, <1>2, <2>1, LongerRows
    <3> HIDE DEF n
    <3> QED
      BY Zenon, <1>2, <1>5, <2>1, <3>1, <3>2, <3>3 DEF sourceVars
  <2>2. CASE /\ Len(r) = 1 /\ Fetch(s)
             /\ consumer' = IF futures' = <<>> THEN "getOutput" ELSE "isBlocked"
    <3>1. Tail(r) = <<>>
      BY Zenon, <1>2, <2>2, LongerRows
    <3>2. Chain(<<>>, queue[s], toProduce[s]) /\ Values(Tail(r)) = {}
      BY Zenon, <1>5, <3>1, NoRows
    <3> QED
      BY Zenon, <1>1, <2>2, <3>2, FetchEffect DEF MergeInv
  <2> QED
    BY Zenon, <2>1, <2>2 DEF MergeRow
<1>7. PICK n \in StreamState :
        /\ stream' = [stream EXCEPT ![s] = n]
        /\ futures' \in Seq(Sources)
        /\ n.needData => n.rows = <<>> /\ ~n.atEnd /\ consumer' # "getOutput"
        /\ n.atEnd => queue'[s] = <<>> /\ atEnd[s] /\ n.rows = <<>>
        /\ ~n.needData /\ ~n.atEnd => n.rows # <<>>
        /\ \A t \in Sources \ {s} : queue'[t] = queue[t]
        /\ Chain(n.rows, queue'[s], toProduce[s])
        /\ Values(n.rows) \cup Rows(queue'[s]) = Values(Tail(r)) \cup Rows(queue[s])
  BY Zenon, <1>6
<1>8. /\ stream' \in [Sources -> StreamState] /\ stream'[s] = n
      /\ \A t \in Sources \ {s} : stream'[t] = stream[t]
  BY Zenon, <1>2, <1>7
<1>9. /\ Append(output, x) \in Seq(Nat)
      /\ Values(Append(output, x)) = Values(output) \cup {x}
      /\ Ascending(output) /\ Below(Values(output), {x}) => Ascending(Append(output, x))
  BY Zenon, <1>2, <1>3, AppendRow
<1>10. MergeTypes'
  BY Zenon, <1>1, <1>7, <1>8, <1>9 DEF MergeInv, MergeTypes
<1>11. StreamInv'
  <2> SUFFICES ASSUME NEW t \in Sources
               PROVE  /\ stream'[t].atEnd =>
                            queue'[t] = <<>> /\ producer[t] = "closed" /\ stream'[t].rows = <<>>
                      /\ atEnd[t] => producer[t] = "closed"
                      /\ stream'[t].needData => stream'[t].rows = <<>> /\ ~stream'[t].atEnd
                      /\ ~stream'[t].needData /\ ~stream'[t].atEnd => stream'[t].rows # <<>>
                      /\ producer[t] = "closed" /\ ~failed => toProduce[t] = <<>>
    BY Zenon, <1>1 DEF StreamInv, producerVars
  <2>1. /\ atEnd[t] => producer[t] = "closed"
        /\ producer[t] = "closed" /\ ~failed => toProduce[t] = <<>>
    BY Zenon, <1>1 DEF MergeInv, StreamInv
  <2>2. CASE t = s
    BY Zenon, <1>7, <1>8, <2>1, <2>2
  <2>3. CASE t # s
    BY Zenon, <1>7, <1>8, <2>1, <2>3 DEF MergeInv, StreamInv
  <2> QED
    BY Zenon, <2>2, <2>3
<1>12. ConsumerInv'
  <2>1. consumer' = "getOutput" => \A t \in Sources : ~stream'[t].needData
    BY Zenon, <1>2, <1>7, <1>8
  <2> QED
    BY Zenon, <1>1, <1>2, <2>1 DEF ConsumerInv
<1>13. x \in Total /\ Ascending(output')
  <2>1. x \in Left(s) /\ x \in Coming(s)
    BY Zenon, <1>3 DEF Left, Coming
  <2>2. x \in Total
    BY <2>1, CaseSorted DEF MergeInv, OrderInv
  <2>3. Below(Values(output), {x}) /\ Ascending(output)
    BY Zenon, <2>1 DEF MergeInv, OrderInv, Below
  <2> QED
    BY Zenon, <1>1, <1>9, <2>2, <2>3
<1>14. ASSUME NEW t \in Sources
       PROVE  /\ Chain(stream'[t].rows, queue'[t], toProduce'[t])
              /\ Left(t)' \subseteq Left(t) /\ Coming(t)' \subseteq Coming(t)
              /\ Below({x}, Coming(t)') /\ Left(t) \subseteq Left(t)' \cup {x}
  <2>1. /\ Values(stream[t].rows)' = Values(stream'[t].rows)
        /\ Rows(queue[t])' = Rows(queue'[t]) /\ Rows(toProduce[t])' = Rows(toProduce[t])
    BY <1>1 DEF Values, Rows, producerVars
  <2>2. CASE t = s
    <3>1. Chain(stream'[t].rows, queue'[t], toProduce'[t])
      BY Zenon, <1>1, <1>7, <1>8, <2>2 DEF producerVars
    <3>2. /\ Left(t) = {x} \cup Left(t)' /\ Coming(t) = {x} \cup Coming(t)'
          /\ Coming(t)' \subseteq Values(Tail(r)) \cup Rows(queue[s]) \cup Rows(toProduce[s])
      BY Zenon, <1>1, <1>3, <1>7, <1>8, <2>1, <2>2 DEF Left, Coming, producerVars
    <3>3. Below({x}, Coming(t)')
      BY Zenon, <1>5, <3>2 DEF Below
    <3> QED
      BY Zenon, <3>1, <3>2, <3>3
  <2>3. CASE t # s
    <3>1. stream'[t] = stream[t] /\ queue'[t] = queue[t] /\ UNCHANGED producerVars
      BY Zenon, <1>1, <1>7, <1>8, <2>3
    <3>2. Left(t)' = Left(t) /\ Coming(t)' = Coming(t)
      BY Zenon, <2>1, <3>1 DEF Left, Coming, producerVars
    <3>3. Below({x}, Coming(t))
      BY Zenon, <1>1, <2>3, LeastIsBelow
    <3> QED
      BY Zenon, <3>1, <3>2, <3>3 DEF MergeInv, OrderInv, producerVars
  <2> QED
    BY Zenon, <2>2, <2>3
<1>15. OrderInv'
  <2> DEFINE X == {x}
  <2>1. X \subseteq Total /\ Values(output') = Values(output) \cup X
    BY Zenon, <1>1, <1>9, <1>13
  <2>2. \A t \in Sources : /\ Chain(stream'[t].rows, queue'[t], toProduce'[t])
              /\ Left(t)' \subseteq Left(t) /\ Coming(t)' \subseteq Coming(t)
              /\ Below(X, Coming(t)') /\ Left(t) \subseteq Left(t)' \cup X
    BY Zenon, <1>14
  <2> HIDE DEF X
  <2> QED
    BY Zenon, <1>1, <1>13, <2>1, <2>2, OrderKeeps DEF MergeInv
<1> QED
  BY Zenon, <1>10, <1>11, <1>12, <1>15 DEF MergeInv

(* A batch of the join's right side, taken whole.                          *)
LEMMA JoinBatchKeeps ==
    ASSUME RoomInv, MergeInv, JoinBatch
    PROVE  MergeInv'
<1>1. /\ Sources' = Sources /\ Sources = {1} /\ consumer = "getOutput"
      /\ UNCHANGED <<case, queue, atEnd, producerVars, cursor, futures, failed>>
  BY Zenon, CaseTypes DEF JoinBatch, Sources, sourceVars
<1>2. CASE stream[1].atEnd /\ consumer' = "finished" /\ UNCHANGED <<output, stream>>
  <2>1. MergeTypes' /\ StreamInv'
    BY Zenon, <1>1, <1>2 DEF MergeInv, MergeTypes, StreamInv, producerVars
  <2>2. ConsumerInv'
    BY Zenon, <1>1, <1>2 DEF ConsumerInv
  <2>3. OrderInv'
    BY Zenon, <1>1, <1>2, OrderFrame DEF MergeInv
  <2> QED
    BY Zenon, <2>1, <2>2, <2>3 DEF MergeInv
<1>3. CASE /\ ~stream[1].atEnd /\ consumer' = "isBlocked"
           /\ output' = output \o stream[1].rows
           /\ stream' = [stream EXCEPT ![1] =
                           [rows |-> <<>>, atEnd |-> FALSE, needData |-> TRUE]]
  <2> DEFINE n == [rows |-> <<>>, atEnd |-> FALSE, needData |-> TRUE]
             r == stream[1].rows
             X == Values(r)
  <2>1. n.rows = <<>> /\ ~n.atEnd /\ n.needData /\ n \in StreamState
    BY DEF StreamState
  <2>2. stream' \in [Sources -> StreamState] /\ stream'[1] = n
    BY Zenon, <1>1, <1>3, <2>1 DEF MergeInv, MergeTypes
  <2> HIDE DEF n
  <2>3. r \in Seq(Nat) /\ output \in Seq(Nat)
    BY Zenon, <1>1 DEF MergeInv, MergeTypes, StreamState
  <2>4. /\ output' \in Seq(Nat) /\ Values(output') = Values(output) \cup X
        /\ Ascending(output) /\ Ascending(r) /\ Below(Values(output), X) => Ascending(output')
    BY Zenon, <1>3, <2>3, AppendRows
  <2>5. MergeTypes'
    BY Zenon, <1>1, <2>2, <2>4 DEF MergeInv, MergeTypes
  <2>6. StreamInv'
    BY Zenon, <1>1, <1>3, <2>1, <2>2 DEF MergeInv, StreamInv, producerVars
  <2>7. ConsumerInv'
    BY Zenon, <1>1, <1>3 DEF MergeInv, ConsumerInv
  <2>8. /\ Chain(r, queue[1], toProduce[1]) /\ Below(Values(output), Coming(1))
        /\ Left(1) \subseteq Total /\ Ascending(output)
    BY Zenon, <1>1, CaseSorted DEF MergeInv, OrderInv
  <2>9. X \subseteq Total /\ Ascending(output')
    <3>1. X \subseteq Left(1) /\ X \subseteq Coming(1)
      BY Zenon DEF Left, Coming
    <3>2. Below(Values(output), X) /\ Ascending(r)
      BY Zenon, <2>8, <3>1 DEF Below, Chain
    <3> QED
      BY Zenon, <2>4, <2>8, <3>1, <3>2
  <2>10. /\ Values(stream[1].rows)' = {}
         /\ Rows(queue[1])' = Rows(queue[1]) /\ Rows(toProduce[1])' = Rows(toProduce[1])
    BY <1>1, <2>1, <2>2, NoRows DEF Values, Rows, producerVars
  <2>11. /\ Left(1)' \subseteq Left(1) /\ Left(1) \subseteq Left(1)' \cup X
         /\ Coming(1)' \subseteq Coming(1)
         /\ Coming(1)' \subseteq Rows(queue[1]) \cup Rows(toProduce[1])
    BY Zenon, <1>1, <2>10 DEF Left, Coming, producerVars
  <2>12. Below(X, Coming(1)')
    BY Zenon, <2>8, <2>11 DEF Chain, Below
  <2>13. Chain(stream'[1].rows, queue'[1], toProduce'[1])
    BY <1>1, <2>1, <2>2, <2>8, ChainClear DEF producerVars
  <2> HIDE DEF X
  <2>14. OrderInv'
    BY Zenon, <1>1, <1>3, <2>4, <2>9, <2>11, <2>12, <2>13, OrderKeeps DEF MergeInv
  <2> QED
    BY Zenon, <2>5, <2>6, <2>7, <2>14 DEF MergeInv
<1> QED
  BY Zenon, <1>2, <1>3 DEF JoinBatch

(* Every step keeps the order of the rows and loses none.                  *)
LEMMA MergeNext == RoomInv /\ MergeInv /\ [Next]_vars => MergeInv'
<1> SUFFICES ASSUME RoomInv, MergeInv, [Next]_vars PROVE MergeInv'
  BY Zenon
<1>1. CASE Fail \/ MergeEnd \/ CloseConsumer \/ UNCHANGED vars
  BY Zenon, <1>1, EndsKeep
<1>2. CASE FetchStreams
  BY Zenon, <1>2, FetchStreamsKeeps
<1>3. CASE Wait
  BY Zenon, <1>3, WaitKeeps
<1>4. CASE \E s \in Sources : MergeRow(s)
  BY Zenon, <1>4, MergeRowKeeps
<1>5. CASE JoinBatch
  BY Zenon, <1>5, JoinBatchKeeps
<1>6. CASE \E s \in Sources : Produce(s)
  BY Zenon, <1>6, EnqueueKeeps, CloseProducerKeeps DEF Produce
<1> QED
  BY Zenon, <1>1, <1>2, <1>3, <1>4, <1>5, <1>6 DEF Next, Consume

(* The rows come out in order, each once, and all of them when the         *)
(* operator finishes in a task that has not failed, for any sorted inputs  *)
(* and any interleaving of the producers, the consumer and the closes      *)
(* (Merge::getOutput, MergeJoin, LocalMergeSource, MergeJoinSource).       *)
THEOREM MergeIsComplete == Spec => []MergedOutput
<1>1. Init => RoomInv /\ MergeInv
  BY Zenon, RoomInit, MergeInit
<1>2. RoomInv /\ MergeInv /\ [Next]_vars => (RoomInv /\ MergeInv)'
  BY Zenon, RoomNext, MergeNext
<1>3. RoomInv /\ MergeInv => MergedOutput
  <2> SUFFICES ASSUME RoomInv, MergeInv PROVE MergedOutput
    BY Zenon
  <2>1. Ascending(output) /\ Values(output) \subseteq Total
    BY Zenon DEF MergeInv, OrderInv
  <2>2. ASSUME consumer = "finished", ~failed PROVE Values(output) = Total
    <3> SUFFICES ASSUME NEW s \in Sources PROVE Rows(case.batches[s]) \subseteq Values(output)
      BY Zenon, <2>1 DEF Total
    <3>1. stream[s].atEnd
      BY Zenon, <2>2 DEF MergeInv, ConsumerInv
    <3>2. queue[s] = <<>> /\ stream[s].rows = <<>> /\ toProduce[s] = <<>>
      BY Zenon, <2>2, <3>1 DEF MergeInv, StreamInv
    <3>3. Left(s) = {}
      BY Zenon, <3>2, NoRows DEF Left
    <3> QED
      BY Zenon, <2>2, <3>3 DEF MergeInv, OrderInv
  <2> QED
    BY Zenon, <2>1, <2>2 DEF MergedOutput
<1> QED
  BY <1>1, <1>2, <1>3, PTL DEF Spec
============================================================================
