------------------------- MODULE LocalExchangeBytes ------------------------
(* Local exchanges of any number of producers, consumers and inputs: the   *)
(* buffer is bounded, and no wakeup is lost.                               *)
EXTENDS LocalExchangeProofs

-----------------------------------------------------------------------------
(* The bytes of the buffer, and the promises of producers                  *)

(* What partition p gets of an input, and the partitions before p          *)
Share(in, p) == IF in.rows[p] > 0 THEN InputBytes(in, p) ELSE 0
Before(in, p) == SumSeq([q \in Partitions |-> IF q < p THEN Share(in, q) ELSE 0])

Largest == Max({in.total : in \in Inputs})

(* What producer i may have enqueued since the buffer was last below its   *)
(* limit: nothing if it has no promise; else the partitions so far of the  *)
(* input that it adds, or that it was adding when it had to wait.          *)
Added(i) ==
    IF \A p \in Partitions : <<i, p>> \notin promises THEN 0
    ELSE IF ppc[i] \in {"getVector", "enqueue"} THEN Before(input[i], part[i])
    ELSE IF ppc[i] = "notify" THEN Before(input[i], part[i] + 1)
    ELSE Largest

BytesInv ==
    /\ bufferedBytes = SumSeq([p \in Partitions |-> Bytes(queue[p])])
    /\ bufferedBytes < MaxBufferSize + SumSeq([i \in Producers |-> Added(i)])

(* A promise is in one place, until its future is taken from the producer. *)
PromiseAt(i) ==
    /\ \A p \in Partitions :
          /\ <<i, p>> \in promises => p \in futures[i]
          /\ \A q \in Partitions : <<i, p>> \in cNotify[q] =>
                /\ p \in futures[i] /\ <<i, p>> \notin promises
                /\ \A r \in Partitions \ {q} : <<i, p>> \notin cNotify[r]
    /\ \A p \in futures[i] :
          /\ ppc[i] \in {"getVector", "enqueue"} => p < part[i]
          /\ ppc[i] = "notify" => p <= part[i]

PromiseInv == \A i \in Producers : PromiseAt(i)

-----------------------------------------------------------------------------

(* An input has rows.                                                      *)
LEMMA InputHasRows ==
    ASSUME exchange \in Exchanges, NEW in \in Inputs
    PROVE  NumRows(in) \in Nat \ {0}
<1>1. NumPartitions \in Nat /\ Partitions = 1..NumPartitions
  BY Zenon, Constants
<1>2. PICK p \in Partitions : in.rows[p] > 0
  BY Zenon, InputType
<1>3. in.rows \in [1..NumPartitions -> Nat] /\ p \in 1..NumPartitions
  BY Zenon, <1>1, InputType
<1>4. SumSeq(in.rows) \in Nat /\ in.rows[p] <= SumSeq(in.rows)
  BY Zenon, <1>1, <1>3, SumAtLeast
<1>5. in.rows[p] \in Nat
  BY Zenon, <1>3
<1> QED
  BY <1>2, <1>4, <1>5 DEF NumRows

(* The bytes of an input.                                                  *)
LEMMA InputBytesType ==
    ASSUME exchange \in Exchanges, NEW in \in Inputs, NEW p \in Partitions
    PROVE  InputBytes(in, p) \in Nat
<1>1. in.total \in Nat /\ in.rows[p] \in Nat
  BY Zenon, InputType
<1>2. NumRows(in) \in Nat \ {0}
  BY Zenon, InputHasRows
<1>3. in.total * in.rows[p] \in Nat
  BY <1>1
<1>4. (in.total * in.rows[p]) \div NumRows(in) \in Nat
  BY <1>2, <1>3
<1> QED
  BY Zenon, <1>1, <1>4 DEF InputBytes

(* The sizes of entries are numbers.                                       *)
LEMMA SizesAreNat ==
    ASSUME exchange \in Exchanges
    PROVE  Sizes \subseteq Nat
  BY InputBytesType DEF Sizes

(* The bytes of a queue that changes at its ends                           *)
LEMMA EntryBytes ==
    ASSUME exchange \in Exchanges, NEW q \in Seq(Entry)
    PROVE  /\ Len(q) \in Nat /\ DOMAIN q = 1..Len(q)
           /\ [k \in DOMAIN q |-> q[k].bytes] \in [1..Len(q) -> Nat]
<1>1. Len(q) \in Nat /\ DOMAIN q = 1..Len(q)
  OBVIOUS
<1>2. \A k \in 1..Len(q) : q[k] \in Entry
  OBVIOUS
<1>3. \A k \in 1..Len(q) : q[k].bytes \in Nat
  BY Zenon, <1>2, SizesAreNat DEF Entry
<1> QED
  BY Zenon, <1>1, <1>3

(* The bytes of a queue.                                                   *)
LEMMA BytesType ==
    ASSUME exchange \in Exchanges, NEW q \in Seq(Entry)
    PROVE  Bytes(q) \in Nat
<1> DEFINE b == [k \in DOMAIN q |-> q[k].bytes]
<1>1. Len(q) \in Nat /\ b \in [1..Len(q) -> Nat]
  BY Zenon, EntryBytes
<1>2. Bytes(q) = SumSeq(b)
  BY Zenon DEF Bytes
<1> HIDE DEF b
<1>3. CASE Len(q) = 0
  <2>1. b \in [1..0 -> Nat]
    BY Zenon, <1>1, <1>3
  <2>2. SumSeq(b) = 0
    BY <2>1, SumEmpty
  <2> QED
    BY <1>2, <2>2
<1>4. CASE Len(q) # 0
  <2>1. 1 \in 1..Len(q)
    BY <1>1, <1>4
  <2> QED
    BY Zenon, <1>1, <1>2, <2>1, SumAtLeast
<1> QED
  BY Zenon, <1>3, <1>4

-----------------------------------------------------------------------------
(* Bytes                                                                   *)

(* The bytes of a queue with one more entry.                               *)
LEMMA BytesAppend ==
    ASSUME exchange \in Exchanges, NEW q \in Seq(Entry), NEW e \in Entry
    PROVE  Bytes(Append(q, e)) = Bytes(q) + e.bytes
<1> DEFINE b == [k \in DOMAIN q |-> q[k].bytes]
           c == [k \in DOMAIN Append(q, e) |-> Append(q, e)[k].bytes]
<1>1. Len(q) \in Nat /\ DOMAIN q = 1..Len(q) /\ b \in [1..Len(q) -> Nat]
  BY Zenon, EntryBytes
<1>2. e.bytes \in Nat
  BY Zenon, SizesAreNat DEF Entry
<1>3. b \in Seq(Int) /\ Len(b) = Len(q)
  BY <1>1
<1>4. c = Append(b, e.bytes)
  <2>1. DOMAIN Append(q, e) = 1..(Len(q) + 1)
    BY <1>1
  <2>2. Append(b, e.bytes) = [k \in 1..(Len(q) + 1) |->
                                 IF k = Len(q) + 1 THEN e.bytes ELSE b[k]]
    BY <1>1, <1>2, <1>3
  <2>3. \A k \in 1..(Len(q) + 1) :
           Append(q, e)[k].bytes = IF k = Len(q) + 1 THEN e.bytes ELSE b[k]
    BY <1>1
  <2> QED
    BY Zenon, <2>1, <2>2, <2>3
<1> HIDE DEF b, c
<1>5. SumSeq(c) = SumSeq(b) + e.bytes
  BY <1>2, <1>3, <1>4, SumAppend
<1> QED
  BY Zenon, <1>5 DEF b, c, Bytes

(* The bytes of a queue without its first entry.                           *)
LEMMA BytesTail ==
    ASSUME exchange \in Exchanges, NEW q \in Seq(Entry), q # <<>>
    PROVE  Bytes(Tail(q)) = Bytes(q) - Head(q).bytes
<1> DEFINE b == [k \in DOMAIN q |-> q[k].bytes]
           c == [k \in DOMAIN Tail(q) |-> Tail(q)[k].bytes]
<1>1. Len(q) \in Nat /\ DOMAIN q = 1..Len(q) /\ b \in [1..Len(q) -> Nat] /\ Len(q) > 0
  BY EntryBytes
<1>2. b \in Seq(Int) /\ Len(b) = Len(q) /\ b # <<>> /\ Head(b) = Head(q).bytes
  BY <1>1
<1>3. c = Tail(b)
  <2>1. DOMAIN Tail(q) = 1..(Len(q) - 1)
    BY <1>1
  <2>2. Tail(b) = [k \in 1..(Len(q) - 1) |-> b[k + 1]]
    BY <1>1, <1>2
  <2>3. \A k \in 1..(Len(q) - 1) : Tail(q)[k].bytes = b[k + 1]
    BY <1>1
  <2> QED
    BY Zenon, <2>1, <2>2, <2>3
<1> HIDE DEF b, c
<1>4. SumSeq(c) = SumSeq(b) - Head(b)
  BY Zenon, <1>2, <1>3, SumTail
<1> QED
  BY Zenon, <1>2, <1>4 DEF b, c, Bytes

(* An empty queue has no bytes.                                            *)
LEMMA BytesEmpty == Bytes(<<>>) = 0
<1>1. [k \in DOMAIN <<>> |-> <<>>[k].bytes] = <<>>
  OBVIOUS
<1> QED
  BY Zenon, <1>1, SumEmpty DEF Bytes

(* The memory manager counts in integers.                                  *)
LEMMA BufferedType ==
    ASSUME TypeInv, BytesInv
    PROVE  bufferedBytes \in Int
<1> DEFINE b == [p \in Partitions |-> Bytes(queue[p])]
<1>1. queue \in [Partitions -> Seq(Entry)] /\ exchange \in Exchanges
  BY Zenon DEF TypeInv, QueueTypes
<1>2. NumPartitions \in Nat /\ Partitions = 1..NumPartitions
  BY Zenon, <1>1, Constants
<1>3. \A p \in Partitions : Bytes(queue[p]) \in Nat
  BY Zenon, <1>1, BytesType
<1>4. b \in [1..NumPartitions -> Int]
  BY <1>2, <1>3
<1>5. bufferedBytes = SumSeq(b)
  BY Zenon DEF BytesInv
<1> HIDE DEF b
<1> QED
  BY Zenon, <1>2, <1>4, <1>5, SumType

(* What all the queues hold, when one of them changes                      *)
TotalBytes(f) == SumSeq([q \in Partitions |-> Bytes(f[q])])

(* The bytes of all queues when one has changed (increaseMemoryUsage).     *)
LEMMA QueuedBytes ==
    ASSUME exchange \in Exchanges, NEW f \in [Partitions -> Seq(Entry)],
           NEW p \in Partitions, NEW x \in Seq(Entry), NEW g, g = [f EXCEPT ![p] = x]
    PROVE  TotalBytes(g) = TotalBytes(f) - Bytes(f[p]) + Bytes(x)
<1> DEFINE b == [q \in Partitions |-> Bytes(f[q])]
           c == [q \in Partitions |-> Bytes(g[q])]
<1>1. NumPartitions \in Nat /\ Partitions = 1..NumPartitions
  BY Zenon, Constants
<1>2. \A q \in Partitions : Bytes(f[q]) \in Nat
  BY Zenon, BytesType
<1>3. b \in [1..NumPartitions -> Int] /\ b[p] = Bytes(f[p]) /\ p \in 1..NumPartitions
  BY <1>1, <1>2
<1>4. c = [b EXCEPT ![p] = Bytes(x)]
  BY Zenon
<1>5. Bytes(x) \in Int
  BY BytesType
<1> HIDE DEF b, c
<1>6. SumSeq(c) = SumSeq(b) - b[p] + Bytes(x)
  BY Zenon, <1>1, <1>3, <1>4, <1>5, SumExcept
<1> QED
  BY Zenon, <1>3, <1>6 DEF b, c, TotalBytes

-----------------------------------------------------------------------------
(* The parts of an input                                                   *)

(* A partition's share of an input's bytes.                                *)
LEMMA ShareType ==
    ASSUME exchange \in Exchanges, NEW in \in Inputs, NEW p \in Partitions
    PROVE  Share(in, p) \in Nat /\ (in.rows[p] = 0 => Share(in, p) = 0)
  BY InputBytesType DEF Share

(* The shares of the partitions before p ..                                *)
LEMMA BeforeTerms ==
    ASSUME exchange \in Exchanges, NEW in \in Inputs, NEW p \in Int
    PROVE  [q \in Partitions |-> IF q < p THEN Share(in, q) ELSE 0]
              \in [1..NumPartitions -> Nat]
<1>1. Partitions = 1..NumPartitions
  BY Zenon, Constants
<1>2. \A q \in Partitions : Share(in, q) \in Nat
  BY Zenon, ShareType
<1> QED
  BY Zenon, <1>1, <1>2

(* .. are numbers ..                                                       *)
LEMMA BeforeType ==
    ASSUME exchange \in Exchanges, NEW in \in Inputs, NEW p \in Int
    PROVE  Before(in, p) \in Nat
<1> DEFINE f == [q \in Partitions |-> IF q < p THEN Share(in, q) ELSE 0]
<1>1. NumPartitions \in Nat /\ 1 \in 1..NumPartitions
  BY Constants
<1>2. f \in [1..NumPartitions -> Nat]
  BY Zenon, BeforeTerms
<1> HIDE DEF f
<1>3. SumSeq(f) \in Nat
  BY Zenon, <1>1, <1>2, SumAtLeast
<1> QED
  BY Zenon, <1>3 DEF f, Before

(* .. and grow by that of p.                                               *)
LEMMA BeforeNext ==
    ASSUME exchange \in Exchanges, NEW in \in Inputs, NEW p \in Partitions
    PROVE  Before(in, p + 1) = Before(in, p) + Share(in, p)
<1> DEFINE f == [q \in Partitions |-> IF q < p THEN Share(in, q) ELSE 0]
           g == [q \in Partitions |-> IF q < p + 1 THEN Share(in, q) ELSE 0]
<1>1. NumPartitions \in Nat /\ Partitions = 1..NumPartitions /\ p \in 1..NumPartitions
      /\ p \in Int
  BY Constants
<1>2. f \in [1..NumPartitions -> Nat]
  BY Zenon, <1>1, BeforeTerms
<1>3. Share(in, p) \in Nat /\ f[p] = 0
  <2>1. Share(in, p) \in Nat
    BY Zenon, ShareType
  <2>2. ~(p < p)
    BY <1>1
  <2> QED
    BY Zenon, <2>1, <2>2
<1>4. g = [f EXCEPT ![p] = Share(in, p)]
  <2>1. ASSUME NEW q \in Partitions
        PROVE  (IF q < p + 1 THEN Share(in, q) ELSE 0)
                  = IF q = p THEN Share(in, p) ELSE IF q < p THEN Share(in, q) ELSE 0
    <3>1. q < p + 1 <=> (q = p \/ q < p)
      BY <1>1
    <3>2. q = p => Share(in, q) = Share(in, p)
      BY Zenon
    <3> QED
      BY Zenon, <3>1, <3>2
  <2> QED
    BY Zenon, <2>1
<1> HIDE DEF f, g
<1>5. f \in [1..NumPartitions -> Int] /\ Share(in, p) \in Int
  BY <1>2, <1>3
<1>6. SumSeq(g) = SumSeq(f) - f[p] + Share(in, p)
  BY Zenon, <1>1, <1>4, <1>5, SumExcept
<1>7. SumSeq(f) \in Int
  BY Zenon, <1>1, <1>5, SumType
<1> QED
  BY <1>3, <1>6, <1>7 DEF f, g, Before

(* Partitions without rows get nothing.                                    *)
LEMMA BeforeSkip ==
    ASSUME exchange \in Exchanges, NEW in \in Inputs, NEW p \in Nat, NEW n \in Nat, p <= n,
           \A q \in Partitions : p <= q /\ q < n => in.rows[q] = 0
    PROVE  Before(in, n) = Before(in, p)
<1>1. Partitions = 1..NumPartitions
  BY Zenon, Constants
<1>2. \A q \in Partitions : in.rows[q] = 0 => Share(in, q) = 0
  BY Zenon, ShareType
<1>3. \A q \in Partitions : (IF q < n THEN Share(in, q) ELSE 0)
                              = IF q < p THEN Share(in, q) ELSE 0
  BY <1>1, <1>2
<1> QED
  BY Zenon, <1>3 DEF Before
(* n times the rounded down quotient by n                                  *)
LEMMA DivTimes ==
    ASSUME NEW n \in Nat \ {0}, NEW x \in Nat
    PROVE  n * (x \div n) <= x
  OBVIOUS

(* A positive factor cancels.                                              *)
LEMMA CancelFactor ==
    ASSUME NEW n \in Nat \ {0}, NEW b \in Int, NEW t \in Int, n * b <= t * n
    PROVE  b <= t
<1> SUFFICES ASSUME b > t PROVE FALSE
  OBVIOUS
<1>1. b - t >= 1 /\ n >= 1
  OBVIOUS
<1>2. n * (b - t) >= n
  BY <1>1
<1>3. n * (b - t) = n * b - t * n
  OBVIOUS
<1> QED
  BY <1>1, <1>2, <1>3

(* The partitions of an input are charged no more than its retained size.  *)
LEMMA BeforeTotal ==
    ASSUME exchange \in Exchanges, NEW in \in Inputs, NEW p \in Int
    PROVE  Before(in, p) <= in.total
<1> DEFINE f == [q \in Partitions |-> IF q < p THEN Share(in, q) ELSE 0]
<1>1. NumPartitions \in Nat /\ Partitions = 1..NumPartitions
  BY Zenon, Constants
<1>2. f \in [1..NumPartitions -> Nat]
  BY Zenon, BeforeTerms
<1>3. /\ in.total \in Nat /\ in.single \in BOOLEAN
      /\ in.rows \in [Partitions -> Nat]
  BY Zenon, InputType
<1>4. ASSUME NEW q \in Partitions
      PROVE  f[q] <= Share(in, q)
  <2>1. Share(in, q) \in Nat
    BY Zenon, ShareType
  <2> QED
    BY <2>1
<1>5. f \in [1..NumPartitions -> Int]
  BY <1>2
<1>6. CASE in.single
  <2>1. PICK r \in Partitions : in.rows[r] > 0
    BY Zenon, InputType
  <2>2. \A q \in Partitions \ {r} : in.rows[q] = 0
    BY Zenon, <1>6, <2>1, SingleOnce
  <2> DEFINE g == [q \in 1..NumPartitions |-> IF q = r THEN in.total ELSE 0]
  <2>3. SumSeq(g) = in.total
    <3>1. r \in 1..NumPartitions /\ in.total \in Int
      BY <1>1, <1>3
    <3> QED
      BY Zenon, <1>1, <3>1, SumOfOne
  <2>4. ASSUME NEW q \in 1..NumPartitions
        PROVE  f[q] <= g[q]
    <3>1. q \in Partitions /\ Share(in, q) \in Nat /\ f[q] \in Nat
      BY Zenon, <1>1, <1>2, ShareType
    <3>2. Share(in, q) <= g[q]
      <4>1. CASE q = r
        BY <1>3, <1>6, <3>1, <4>1 DEF Share, InputBytes
      <4>2. CASE q # r
        BY <2>2, <3>1, <4>2, ShareType
      <4> QED
        BY Zenon, <4>1, <4>2
    <3>3. g[q] \in Int
      BY <1>3
    <3> QED
      BY <1>4, <3>1, <3>2, <3>3
  <2>5. g \in [1..NumPartitions -> Int]
    BY <1>3
  <2> HIDE DEF f, g
  <2>6. SumSeq(f) <= SumSeq(g)
    BY Zenon, <1>1, <1>5, <2>4, <2>5, SumMonotone
  <2> QED
    BY Zenon, <2>3, <2>6 DEF f, Before
<1>7. CASE ~in.single
  <2> DEFINE n == NumRows(in)
  <2>1. n \in Nat \ {0}
    BY Zenon, InputHasRows
  <2>2. in.rows \in [1..NumPartitions -> Int]
    BY <1>1, <1>3
  <2>3. ASSUME NEW q \in 1..NumPartitions
        PROVE  n * f[q] <= in.total * in.rows[q]
    <3>1. q \in Partitions /\ in.rows[q] \in Nat /\ f[q] \in Nat /\ Share(in, q) \in Nat
      BY Zenon, <1>1, <1>2, <1>3, ShareType
    <3>2. in.total * in.rows[q] \in Nat
      BY <1>3, <3>1
    <3>3. Share(in, q) <= (in.total * in.rows[q]) \div n
          /\ (in.total * in.rows[q]) \div n \in Nat
      <4> HIDE DEF n
      <4>1. (in.total * in.rows[q]) \div n \in Nat
        BY <2>1, <3>2
      <4>2. Share(in, q) = IF in.rows[q] > 0 THEN (in.total * in.rows[q]) \div n ELSE 0
        BY Zenon, <1>7 DEF Share, InputBytes, n
      <4> QED
        BY <4>1, <4>2
    <3>4. n * ((in.total * in.rows[q]) \div n) <= in.total * in.rows[q]
      BY Zenon, <2>1, <3>2, DivTimes
    <3>5. f[q] <= (in.total * in.rows[q]) \div n
      <4>1. f[q] <= Share(in, q)
        BY Zenon, <1>4, <3>1
      <4> HIDE DEF f, n
      <4> QED
        BY <3>1, <3>3, <4>1
    <3> DEFINE d == (in.total * in.rows[q]) \div n
               t == in.total * in.rows[q]
               b == f[q]
    <3>6. b \in Nat /\ d \in Nat /\ t \in Nat /\ b <= d /\ n * d <= t
      BY Zenon, <3>1, <3>2, <3>3, <3>4, <3>5
    <3> HIDE DEF d, t, b, n, f
    <3>7. n * b <= n * d
      BY <2>1, <3>6
    <3>8. n * b \in Nat /\ n * d \in Nat
      BY <2>1, <3>6
    <3>9. n * b <= t
      BY <3>6, <3>7, <3>8
    <3> QED
      BY Zenon, <3>9 DEF b, t
  <2>4. n = SumSeq(in.rows)
    BY Zenon DEF NumRows
  <2> HIDE DEF f, n
  <2>5. n * SumSeq(f) <= in.total * SumSeq(in.rows)
    BY Zenon, <1>1, <1>3, <1>5, <2>1, <2>2, <2>3, SumScaled
  <2>6. SumSeq(f) \in Int
    BY Zenon, <1>1, <1>5, SumType
  <2>7. SumSeq(f) <= in.total
    BY <1>3, <2>1, <2>4, <2>5, <2>6, CancelFactor
  <2> QED
    BY Zenon, <2>7 DEF f, Before
<1> QED
  BY Zenon, <1>3, <1>6, <1>7

(* No input is larger than the largest.                                    *)
LEMMA LargestIs ==
    ASSUME exchange \in Exchanges
    PROVE  Largest \in Nat /\ \A in \in Inputs : in.total <= Largest
<1> DEFINE f == [in \in Inputs |-> in.total]
           S == {in.total : in \in Inputs}
<1>1. f \in [Inputs -> Int] /\ S \subseteq Nat
  <2>1. \A in \in Inputs : in.total \in Nat
    BY Zenon, InputType
  <2> QED
    BY <2>1
<1>2. IsFiniteSet(Inputs) /\ Inputs # {}
  BY Zenon, Constants
<1>3. \E x \in Inputs : \A y \in Inputs : f[y] <= f[x]
  <2> HIDE DEF f
  <2> QED
    BY Zenon, <1>1, <1>2, FiniteMax
<1>4. \E x \in S : \A y \in S : x >= y
  <2>1. PICK x \in Inputs : \A y \in Inputs : y.total <= x.total
    BY Zenon, <1>3
  <2>2. \A y \in Inputs : y.total \in Nat
    BY Zenon, InputType
  <2>3. x.total \in S /\ \A y \in S : x.total >= y
    BY Zenon, <2>1, <2>2
  <2> QED
    BY Zenon, <2>3
<1>5. Max(S) \in S /\ \A y \in S : Max(S) >= y
  BY Zenon, <1>4 DEF Max
<1>6. Largest = Max(S)
  BY Zenon DEF Largest
<1> HIDE DEF S
<1>7. \A in \in Inputs : in.total \in S
  BY Zenon DEF S
<1> QED
  BY Zenon, <1>1, <1>5, <1>6, <1>7
-----------------------------------------------------------------------------
(* Promises of producers                                                   *)

(* No promises are made yet.                                               *)
LEMMA InitPromises == Init => PromiseInv
  BY Zenon DEF Init, PromiseInv, PromiseAt

(* A producer that waits for nothing may be anywhere.                      *)
LEMMA PromiseFrame ==
    ASSUME NEW i \in Producers, PromiseAt(i), exchange' = exchange,
           promises' = promises, cNotify' = cNotify, futures'[i] = futures[i],
           \A p \in futures[i] :
              /\ ppc'[i] \in {"getVector", "enqueue"} => p < part'[i]
              /\ ppc'[i] = "notify" => p <= part'[i]
    PROVE  PromiseAt(i)'
  BY Zenon, Fixed DEF PromiseAt

(* A producer's state says for which partitions it may have promises.      *)
LEMMA GoOnPromises ==
    ASSUME TypeInv, NEW i \in Producers, ppc[i] \in Adding,
           AddTo(i, input[i], NextPart(input[i], part[i] + 1))
    PROVE  /\ ppc'[i] # "notify"
           /\ ppc'[i] \in {"getVector", "enqueue"} => part[i] < part'[i]
           /\ \A j \in Producers \ {i} : ppc'[j] = ppc[j] /\ part'[j] = part[j]
<1> DEFINE n == NextPart(input[i], part[i] + 1)
<1>1. /\ input[i] \in Inputs /\ part[i] \in Partitions /\ n \in 0..NumPartitions
      /\ n # 0 => n > part[i]
  BY Zenon, NextPartType
<1> HIDE DEF n
<1>2. AddTo(i, input[i], n)
  BY Zenon DEF n
<1>3. /\ part'[i] = n
      /\ n = 0 => ppc'[i] = "run"
      /\ n # 0 => ppc'[i] \in {"enqueue", "getVector"}
      /\ \A j \in Producers \ {i} : ppc'[j] = ppc[j] /\ part'[j] = part[j]
  BY <1>1, <1>2, AddToType
<1>4. part[i] \in Int
  BY <1>1, Constants DEF TypeInv
<1> QED
  BY Zenon, <1>1, <1>3, <1>4

(* The promise that increaseMemoryUsage makes has one place.               *)
LEMMA EnqueuePromises ==
    ASSUME TypeInv, PromiseInv, NEW i \in Producers, Enqueue(i)
    PROVE  PromiseInv'
<1> DEFINE p == part[i]
<1>1. exchange' = exchange /\ ppc[i] = "enqueue" /\ cNotify' = cNotify
  BY Zenon DEF Enqueue, consumerVars
<1>2. p \in Partitions /\ ppc[i] \in Adding /\ p \in Int
  <2>1. p \in Partitions
    BY Zenon, EnqueuedEntry
  <2>2. Partitions \subseteq Int
    BY Constants DEF TypeInv
  <2> QED
    BY Zenon, <1>1, <2>1, <2>2 DEF Adding
<1>3. \/ AddTo(i, input[i], NextPart(input[i], p + 1))
      \/ ppc' = [ppc EXCEPT ![i] = "notify"] /\ UNCHANGED part
  BY Zenon DEF Enqueue
<1>4. /\ ppc \in [Producers -> Adding \cup {"create", "run", "noMoreData",
                                            "noMoreDataNotify", "done"}]
      /\ futures \in [Producers -> SUBSET Partitions]
      /\ promises \subseteq Producers \X Partitions
  BY Zenon DEF TypeInv, ProducerTypes, QueueTypes
<1>5. /\ ppc'[i] = "notify" => part'[i] = p
      /\ ppc'[i] \in {"getVector", "enqueue"} => p < part'[i]
      /\ \A j \in Producers \ {i} : ppc'[j] = ppc[j] /\ part'[j] = part[j]
  BY Zenon, <1>2, <1>3, <1>4, GoOnPromises
<1>6. \/ promises' = promises /\ futures' = futures
      \/ /\ promises' = promises \cup {<<i, p>>}
         /\ futures' = [futures EXCEPT ![i] = futures[i] \cup {p}]
  BY Zenon DEF Enqueue, increaseMemoryUsage, memoryVars
<1> HIDE DEF p
<1>7. ASSUME NEW j \in Producers \ {i}
      PROVE  PromiseAt(j)'
  <2>1. futures'[j] = futures[j] /\ PromiseAt(j)
    BY Zenon, <1>4, <1>6 DEF PromiseInv
  <2>2. \A q \in Partitions : <<j, q>> \in promises' <=> <<j, q>> \in promises
    BY <1>6
  <2> QED
    BY Zenon, <1>1, <1>5, <2>1, <2>2, Fixed DEF PromiseAt
<1>8. PromiseAt(i)'
  <2>1. PromiseAt(i) /\ \A q \in futures[i] : q < p /\ q \in Partitions
    BY Zenon, <1>1, <1>4 DEF PromiseInv, PromiseAt, p
  <2>2. p \notin futures[i]
    BY <1>2, <2>1
  <2>3. \A q \in Partitions : <<i, p>> \notin cNotify[q]
    BY Zenon, <1>2, <2>1, <2>2 DEF PromiseAt
  <2>4. /\ futures[i] \subseteq futures'[i] /\ futures'[i] \subseteq futures[i] \cup {p}
        /\ \A q \in Partitions : <<i, q>> \in promises' =>
              <<i, q>> \in promises \/ (q = p /\ q \in futures'[i])
    BY Zenon, <1>4, <1>6
  <2>5. \A q \in Partitions : <<i, q>> \in promises' => q \in futures'[i]
    BY Zenon, <2>1, <2>4 DEF PromiseAt
  <2>6. \A q, r \in Partitions : <<i, q>> \in cNotify'[r] =>
           /\ q \in futures'[i] /\ <<i, q>> \notin promises'
           /\ \A s \in Partitions \ {r} : <<i, q>> \notin cNotify'[s]
    BY Zenon, <1>1, <2>1, <2>3, <2>4 DEF PromiseAt
  <2>7. \A q \in futures'[i] : q \in Int /\ q <= p
    BY <1>2, <2>1, <2>4, Constants DEF TypeInv
  <2>8. ppc'[i] = "notify" \/ ppc'[i] \in {"getVector", "enqueue"} => part'[i] \in Int
    <3>1. part' \in [Producers -> 0..NumPartitions]
      BY Zenon, EnqueueTypes, <1>1, Fixed DEF TypeInv, ProducerTypes
    <3> QED
      BY <3>1, Constants DEF TypeInv
  <2>9. \A q \in futures'[i] :
           /\ ppc'[i] \in {"getVector", "enqueue"} => q < part'[i]
           /\ ppc'[i] = "notify" => q <= part'[i]
    BY <1>2, <1>5, <2>7, <2>8
  <2> QED
    BY Zenon, <1>1, <2>5, <2>6, <2>9, Fixed DEF PromiseAt
<1> QED
  BY Zenon, <1>1, <1>7, <1>8, Fixed DEF PromiseInv

(* What the producers do keeps each promise in one place.                  *)
LEMMA ProducePromises ==
    ASSUME TypeInv, PromiseInv, NEW i \in Producers, Produce(i)
    PROVE  PromiseInv'
<1>1. CASE Enqueue(i)
  BY Zenon, <1>1, EnqueuePromises
<1>2. CASE ~Enqueue(i)
  <2>1. /\ exchange' = exchange /\ promises' = promises /\ cNotify' = cNotify
    BY Zenon, <1>2 DEF Produce, AddInput, GetVector, EnqueueNotify, NoMoreInput, NoMoreData,
                NoMoreDataNotify, memoryVars, consumerVars
  <2>2. /\ ppc \in [Producers -> Adding \cup {"create", "run", "noMoreData",
                                              "noMoreDataNotify", "done"}]
        /\ part \in [Producers -> 0..NumPartitions]
        /\ futures \in [Producers -> SUBSET Partitions]
        /\ pNotify \in [Producers -> SUBSET ({0} \X Partitions)]
    BY Zenon DEF TypeInv, ProducerTypes
  <2>3. \A j \in Producers : PromiseAt(j)
    BY Zenon DEF PromiseInv
  <2>4. \A j \in Producers : futures'[j] = futures[j]
    <3>1. CASE EnqueueNotify(i) \/ NoMoreDataNotify(i)
      <4>1. 0 \notin Producers
        BY Constants DEF TypeInv, Producers
      <4>2. \A j \in Producers, q \in Partitions : <<j, q>> \notin pNotify[i]
        BY <2>2, <4>1
      <4> QED
        <5>1. futures' = [j \in Producers |-> {q \in futures[j] : <<j, q>> \notin pNotify[i]}]
          BY Zenon, <3>1 DEF EnqueueNotify, NoMoreDataNotify, notify
        <5>2. \A j \in Producers : futures[j] \subseteq Partitions
          BY Zenon, <2>2
        <5> QED
          BY Zenon, <4>2, <5>1, <5>2
    <3>2. CASE ~(EnqueueNotify(i) \/ NoMoreDataNotify(i))
      BY Zenon, <1>2, <3>2 DEF Produce, AddInput, GetVector, NoMoreInput, NoMoreData
    <3> QED
      BY Zenon, <3>1, <3>2
  <2>5. \A j \in Producers \ {i} : ppc'[j] = ppc[j] /\ part'[j] = part[j]
    <3>1. CASE EnqueueNotify(i)
      BY Zenon, <3>1, GoOnPromises DEF EnqueueNotify, Adding
    <3>2. CASE AddInput(i)
      BY Zenon, <2>2, <3>2 DEF AddInput, AddTo
    <3>3. CASE GetVector(i) \/ NoMoreInput(i) \/ NoMoreData(i) \/ NoMoreDataNotify(i)
      BY Zenon, <2>2, <3>3 DEF GetVector, NoMoreInput, NoMoreData, NoMoreDataNotify, NextQueue
    <3> QED
      BY Zenon, <1>2, <3>1, <3>2, <3>3 DEF Produce
  <2>6. \A q \in futures[i] :
           /\ ppc'[i] \in {"getVector", "enqueue"} => q < part'[i]
           /\ ppc'[i] = "notify" => q <= part'[i]
    <3>1. CASE AddInput(i) \/ NoMoreInput(i)
      BY Zenon, <3>1 DEF AddInput, NoMoreInput
    <3>2. CASE GetVector(i)
      BY Zenon, <2>2, <2>3, <3>2 DEF GetVector, PromiseAt
    <3>3. CASE EnqueueNotify(i)
      <4>1. ppc[i] = "notify" /\ ppc[i] \in Adding
        BY Zenon, <3>3 DEF EnqueueNotify, Adding
      <4>2. /\ ppc'[i] # "notify"
            /\ ppc'[i] \in {"getVector", "enqueue"} => part[i] < part'[i]
        BY Zenon, <3>3, <4>1, GoOnPromises DEF EnqueueNotify
      <4>3. \A q \in futures[i] : q <= part[i] /\ q \in Partitions
        BY Zenon, <2>2, <2>3, <4>1 DEF PromiseAt
      <4>4. part[i] \in Int /\ part'[i] \in Int /\ Partitions \subseteq Int
        <5>1. part' \in [Producers -> 0..NumPartitions]
          BY Zenon, <2>1, <3>3, EnqueueNotifyTypes, Fixed DEF TypeInv, ProducerTypes
        <5> QED
          BY <2>2, <5>1, Constants DEF TypeInv
      <4>5. ASSUME NEW q \in futures[i], ppc'[i] \in {"getVector", "enqueue"}
            PROVE  q < part'[i]
        <5>1. q <= part[i] /\ q \in Int /\ part[i] < part'[i]
          BY Zenon, <4>2, <4>3, <4>4, <4>5
        <5> QED
          BY <4>4, <5>1
      <4> QED
        BY Zenon, <4>2, <4>5
    <3>4. CASE NoMoreData(i) \/ NoMoreDataNotify(i)
      BY Zenon, <2>2, <3>4 DEF NoMoreData, NoMoreDataNotify, NextQueue
    <3> QED
      BY <1>2, <3>1, <3>2, <3>3, <3>4 DEF Produce
  <2>7. ASSUME NEW j \in Producers
        PROVE  PromiseAt(j)'
    <3>1. CASE j = i
      BY <2>1, <2>3, <2>4, <2>6, <3>1, PromiseFrame
    <3>2. CASE j # i
      <4>1. PromiseAt(j) /\ ppc'[j] = ppc[j] /\ part'[j] = part[j]
        BY Zenon, <2>3, <2>5, <3>2
      <4> QED
        BY Zenon, <2>1, <2>4, <4>1, PromiseFrame DEF PromiseAt
    <3> QED
      BY Zenon, <3>1, <3>2
  <2> QED
    BY Zenon, <2>1, <2>7, Fixed DEF PromiseInv
<1> QED
  BY Zenon, <1>1, <1>2
(* Promises that are released go from the memory manager to one consumer.  *)
LEMMA ReleasePromises ==
    ASSUME TypeInv, PromiseInv, NEW p \in Partitions, exchange' = exchange,
           cNotify[p] = {}, futures' = futures, UNCHANGED producerVars,
           NEW R, R \subseteq promises, promises' = promises \ R,
           NEW S, S \subseteq {<<0, p>>}, cNotify' = [cNotify EXCEPT ![p] = S \cup R]
    PROVE  PromiseInv'
<1>1. /\ cNotify \in [Partitions -> SUBSET ((0..exchange.producers) \X Partitions)]
  BY Zenon DEF TypeInv, ConsumerTypes
<1>2. cNotify'[p] = S \cup R /\ \A q \in Partitions \ {p} : cNotify'[q] = cNotify[q]
  BY Zenon, <1>1
<1>3. 0 \notin Producers
  BY Constants DEF TypeInv, Producers
<1>4. ASSUME NEW i \in Producers
      PROVE  PromiseAt(i)'
  <2>1. PromiseAt(i)
    BY Zenon DEF PromiseInv
  <2>2. \A q \in Partitions : <<i, q>> \in cNotify'[p] <=> <<i, q>> \in R
    BY Zenon, <1>2, <1>3
  <2>3. \A q \in Partitions : <<i, q>> \in promises' => q \in futures'[i]
    BY Zenon, <2>1 DEF PromiseAt
  <2>4. ASSUME NEW q \in Partitions, NEW r \in Partitions, <<i, q>> \in cNotify'[r]
        PROVE  /\ q \in futures'[i] /\ <<i, q>> \notin promises'
               /\ \A s \in Partitions \ {r} : <<i, q>> \notin cNotify'[s]
    <3>1. CASE r = p
      <4>1. <<i, q>> \in R
        BY Zenon, <2>2, <2>4, <3>1
      <4>2. \A s \in Partitions : <<i, q>> \notin cNotify[s]
        BY Zenon, <2>1, <4>1 DEF PromiseAt
      <4> QED
        BY Zenon, <1>2, <2>1, <3>1, <4>1, <4>2 DEF PromiseAt
    <3>2. CASE r # p
      <4>1. <<i, q>> \in cNotify[r]
        BY Zenon, <1>2, <2>4, <3>2
      <4>2. /\ q \in futures[i] /\ <<i, q>> \notin promises
            /\ \A s \in Partitions \ {r} : <<i, q>> \notin cNotify[s]
        BY Zenon, <2>1, <4>1 DEF PromiseAt
      <4>3. <<i, q>> \notin cNotify'[p]
        BY Zenon, <2>2, <4>2
      <4> QED
        BY Zenon, <1>2, <4>2, <4>3
    <3> QED
      BY Zenon, <3>1, <3>2
  <2>5. \A q \in futures'[i] :
           /\ ppc'[i] \in {"getVector", "enqueue"} => q < part'[i]
           /\ ppc'[i] = "notify" => q <= part'[i]
    BY Zenon, <2>1 DEF PromiseAt, producerVars
  <2> QED
    BY Zenon, <2>3, <2>4, <2>5, Fixed DEF PromiseAt
<1> QED
  BY Zenon, <1>4, Fixed DEF PromiseInv

(* A consumer that fulfils promises.                                       *)
LEMMA FulfilPromises ==
    ASSUME TypeInv, PromiseInv, NEW p \in Partitions, exchange' = exchange,
           UNCHANGED memoryVars, UNCHANGED producerVars,
           cNotify' = [cNotify EXCEPT ![p] = {}],
           futures' = [i \in Producers |-> {q \in futures[i] : <<i, q>> \notin cNotify[p]}]
    PROVE  PromiseInv'
<1>1. /\ cNotify \in [Partitions -> SUBSET ((0..exchange.producers) \X Partitions)]
  BY Zenon DEF TypeInv, ConsumerTypes
<1>2. cNotify'[p] = {} /\ \A q \in Partitions \ {p} : cNotify'[q] = cNotify[q]
  BY Zenon, <1>1
<1>3. ASSUME NEW i \in Producers
      PROVE  PromiseAt(i)'
  <2>1. PromiseAt(i)
    BY Zenon DEF PromiseInv
  <2>2. \A q : q \in futures'[i] <=> q \in futures[i] /\ <<i, q>> \notin cNotify[p]
    BY Zenon
  <2>3. \A q \in Partitions : <<i, q>> \in promises' => q \in futures'[i]
    BY Zenon, <2>1, <2>2 DEF PromiseAt, memoryVars
  <2>4. ASSUME NEW q \in Partitions, NEW r \in Partitions, <<i, q>> \in cNotify'[r]
        PROVE  /\ q \in futures'[i] /\ <<i, q>> \notin promises'
               /\ \A s \in Partitions \ {r} : <<i, q>> \notin cNotify'[s]
    <3>1. r # p /\ <<i, q>> \in cNotify[r]
      BY Zenon, <1>2, <2>4
    <3>2. /\ q \in futures[i] /\ <<i, q>> \notin promises
          /\ \A s \in Partitions \ {r} : <<i, q>> \notin cNotify[s]
      BY Zenon, <2>1, <3>1 DEF PromiseAt
    <3> QED
      BY Zenon, <1>2, <2>2, <3>1, <3>2 DEF memoryVars
  <2>5. \A q \in futures'[i] :
           /\ ppc'[i] \in {"getVector", "enqueue"} => q < part'[i]
           /\ ppc'[i] = "notify" => q <= part'[i]
    BY Zenon, <2>1, <2>2 DEF PromiseAt, producerVars
  <2> QED
    BY <2>3, <2>4, <2>5, Fixed DEF PromiseAt
<1> QED
  BY Zenon, <1>3, Fixed DEF PromiseInv

(* next() and close() release promises, or leave the memory manager alone. *)
LEMMA Releases ==
    ASSUME TypeInv, StateInv, WaitInv, bufferedBytes \in Int, NEW p \in Partitions,
           NextData(p) \/ Close(p)
    PROVE  /\ cNotify[p] = {} /\ futures' = futures
           /\ \E n \in Nat :
                 /\ n = Bytes(queue[p]) - Bytes(queue'[p])
                 /\ bufferedBytes' = bufferedBytes - n
                 /\ \/ promises' = promises \ Released(n) /\ n > 0
                    \/ promises' = promises \ Released(n) /\ NextData(p)
                    \/ promises' = promises /\ n = 0
           /\ \E R, S : /\ R \subseteq promises /\ promises' = promises \ R
                        /\ S \subseteq {<<0, p>>}
                        /\ cNotify' = [cNotify EXCEPT ![p] = S \cup R]
<1>1. queue \in [Partitions -> Seq(Entry)] /\ exchange \in Exchanges
  BY Zenon DEF TypeInv, QueueTypes
<1>2. ToNotify(p)
  BY Zenon DEF WaitInv
<1>3. CASE NextData(p)
  <2> DEFINE n == Head(queue[p]).bytes
  <2>1. /\ cpc[p] = "run" /\ decreaseMemoryUsage(n) /\ futures' = futures
        /\ cNotify' = [cNotify EXCEPT ![p] = {} \cup Released(n)]
        /\ queue' = [queue EXCEPT ![p] = Tail(queue[p])] /\ queue[p] # <<>>
    BY Zenon, <1>3 DEF NextData
  <2>2. n \in Nat
    BY Zenon, <1>1, <2>1, HeadTypes, SizesAreNat DEF Entry
  <2>3. queue'[p] = Tail(queue[p]) /\ queue[p] \in Seq(Entry)
    BY Zenon, <1>1, <2>1
  <2>4. Bytes(queue'[p]) = Bytes(queue[p]) - n
    BY Zenon, <1>1, <2>1, <2>3, BytesTail
  <2>5. Bytes(queue[p]) \in Nat
    BY Zenon, <1>1, <2>3, BytesType
  <2> HIDE DEF n
  <2>6. n = Bytes(queue[p]) - Bytes(queue'[p])
    BY <2>2, <2>4, <2>5
  <2>7. cNotify[p] = {}
    BY Zenon, <1>2, <2>1 DEF ToNotify
  <2>8. Released(n) \subseteq promises /\ {} \subseteq {<<0, p>>}
    BY Zenon, TakenTypes
  <2>9. bufferedBytes' = bufferedBytes - n /\ promises' = promises \ Released(n)
    BY Zenon, <2>1 DEF decreaseMemoryUsage
  <2> QED
    BY Zenon, <1>3, <2>1, <2>2, <2>6, <2>7, <2>8, <2>9
<1>4. CASE Close(p)
  <2> DEFINE n == freedBytes(p)
  <2>1. /\ cpc[p] \in {"finished", "run", "waiting", "hold"} /\ futures' = futures
        /\ queue' = [queue EXCEPT ![p] = <<>>]
    BY Zenon, <1>4 DEF Close
  <2>2. \/ /\ n > 0 /\ decreaseMemoryUsage(n)
           /\ cNotify' = [cNotify EXCEPT ![p] = Consumer(p) \cup Released(n)]
        \/ /\ ~(n > 0) /\ cNotify' = [cNotify EXCEPT ![p] = Consumer(p)]
           /\ UNCHANGED memoryVars
    BY Zenon, <1>4 DEF Close
  <2>3. n \in Nat /\ n = Bytes(queue[p])
    BY Zenon, <1>1, BytesType DEF freedBytes
  <2>4. Bytes(queue'[p]) = 0
    BY Zenon, <1>1, <2>1, BytesEmpty
  <2> HIDE DEF n
  <2>5. n = Bytes(queue[p]) - Bytes(queue'[p])
    BY <2>3, <2>4
  <2>6. cNotify[p] = {}
    BY Zenon, <1>2, <2>1 DEF ToNotify
  <2>7. Released(n) \subseteq promises /\ Consumer(p) \subseteq {<<0, p>>}
    BY Zenon, TakenTypes DEF Consumer
  <2>8. CASE /\ n > 0 /\ decreaseMemoryUsage(n)
             /\ cNotify' = [cNotify EXCEPT ![p] = Consumer(p) \cup Released(n)]
    <3>1. bufferedBytes' = bufferedBytes - n /\ promises' = promises \ Released(n)
      BY Zenon, <2>8 DEF decreaseMemoryUsage
    <3> QED
      BY Zenon, <2>1, <2>3, <2>5, <2>6, <2>7, <2>8, <3>1
  <2>9. CASE /\ ~(n > 0) /\ cNotify' = [cNotify EXCEPT ![p] = Consumer(p)]
             /\ UNCHANGED memoryVars
    <3>1. /\ n = 0 /\ bufferedBytes' = bufferedBytes - n /\ promises' = promises
          /\ promises' = promises \ {} /\ {} \subseteq promises
      BY <1>1, <2>3, <2>9 DEF memoryVars
    <3>2. Consumer(p) = Consumer(p) \cup {}
      BY Zenon
    <3>3. cNotify' = [cNotify EXCEPT ![p] = Consumer(p) \cup {}]
      BY Zenon, <2>9, <3>2
    <3> QED
      BY Zenon, <2>1, <2>3, <2>5, <2>6, <2>7, <3>1, <3>3
  <2> QED
    BY Zenon, <2>2, <2>8, <2>9
<1> QED
  BY Zenon, <1>3, <1>4

(* Every step keeps each promise in one place.                             *)
LEMMA NextPromises ==
    ASSUME TypeInv, StateInv, WaitInv, bufferedBytes \in Int, PromiseInv, [Next]_vars
    PROVE  PromiseInv'
<1>1. ASSUME NEW p \in Partitions, Fetch(p) \/ Close(p)
      PROVE  PromiseInv'
  <2>1. exchange' = exchange /\ UNCHANGED producerVars
    BY Zenon, <1>1, ConsumeStates
  <2>2. CASE NextData(p) \/ Close(p)
    BY Zenon, <2>1, <2>2, Releases, ReleasePromises
  <2>3. CASE NextNotify(p) \/ CloseNotify(p)
    <3>1. /\ UNCHANGED memoryVars /\ cNotify' = [cNotify EXCEPT ![p] = {}]
          /\ futures' = [i \in Producers |-> {q \in futures[i] : <<i, q>> \notin cNotify[p]}]
      BY Zenon, <2>3 DEF NextNotify, CloseNotify
    <3> QED
      BY Zenon, <2>1, <3>1, FulfilPromises
  <2>4. CASE NextFinished(p) \/ NextBlocks(p) \/ Push(p) \/ Consume(p)
    <3>1. UNCHANGED <<memoryVars, futures>> /\ cNotify' = cNotify
      BY Zenon, <2>4 DEF NextFinished, NextBlocks, Push, Consume, consumerVars
    <3> QED
      BY Zenon, <2>1, <3>1, Fixed DEF PromiseInv, PromiseAt, memoryVars, producerVars
  <2> QED
    BY Zenon, <1>1, <2>2, <2>3, <2>4 DEF Fetch
<1>2. CASE Create
  <2>1. /\ exchange' = exchange /\ UNCHANGED <<memoryVars, futures, part>>
        /\ cNotify' = cNotify
    BY Zenon, <1>2 DEF Create, NoMoreProducers, AddProducer, producerVars, consumerVars
  <2>2. \A i \in Producers : ppc'[i] = ppc[i] \/ ppc'[i] = "run"
    <3>1. ppc' = ppc \/ \E i \in Producers : ppc' = [ppc EXCEPT ![i] = "run"]
      BY Zenon, <1>2 DEF Create, NoMoreProducers, AddProducer, producerVars
    <3> QED
      BY Zenon, <3>1 DEF TypeInv, ProducerTypes
  <2> QED
    BY Zenon, <2>1, <2>2, Fixed DEF PromiseInv, PromiseAt, memoryVars
<1>3. CASE UNCHANGED vars
  <2>1. /\ exchange' = exchange /\ UNCHANGED <<memoryVars, futures, producerVars>>
        /\ cNotify' = cNotify
    BY Zenon, <1>3 DEF vars, consumerVars
  <2> QED
    BY Zenon, <2>1, Fixed DEF PromiseInv, PromiseAt, memoryVars, producerVars
<1> QED
  BY <1>1, <1>2, <1>3, ProducePromises DEF Next
-----------------------------------------------------------------------------
(* The bound of the buffer                                                 *)

AddedBounded == \A i \in Producers : Added(i) \in Nat /\ Added(i) <= Largest

(* What a producer may have added is at most its largest input.            *)
LEMMA AddedType == TypeInv => AddedBounded
<1> SUFFICES ASSUME TypeInv, NEW i \in Producers
             PROVE  Added(i) \in Nat /\ Added(i) <= Largest
  BY Zenon DEF AddedBounded
<1>1. exchange \in Exchanges
  BY Zenon DEF TypeInv
<1>2. Largest \in Nat /\ \A in \in Inputs : in.total <= Largest
  BY Zenon, <1>1, LargestIs
<1>3. part[i] \in Int /\ part[i] + 1 \in Int
  BY <1>1, Constants DEF TypeInv, ProducerTypes
<1>4. ppc[i] \in Adding => input[i] \in Inputs
  BY Zenon DEF TypeInv, ProducerAt
<1>5. ASSUME NEW p \in Int, ppc[i] \in Adding
      PROVE  Before(input[i], p) \in Nat /\ Before(input[i], p) <= Largest
  <2>1. Before(input[i], p) \in Nat /\ Before(input[i], p) <= input[i].total
    BY Zenon, <1>1, <1>4, <1>5, BeforeType, BeforeTotal
  <2>2. input[i].total \in Nat /\ input[i].total <= Largest
    BY Zenon, <1>1, <1>2, <1>4, <1>5, InputType
  <2> QED
    BY <1>2, <2>1, <2>2
<1>6. \/ Added(i) = 0 \/ Added(i) = Largest
      \/ ppc[i] \in Adding /\ Added(i) = Before(input[i], part[i])
      \/ ppc[i] \in Adding /\ Added(i) = Before(input[i], part[i] + 1)
  BY Zenon DEF Added, Adding
<1>7. CASE ppc[i] \in Adding /\ Added(i) = Before(input[i], part[i])
  BY Zenon, <1>3, <1>5, <1>7
<1>8. CASE ppc[i] \in Adding /\ Added(i) = Before(input[i], part[i] + 1)
  BY Zenon, <1>3, <1>5, <1>8
<1> QED
  BY <1>2, <1>6, <1>7, <1>8

(* What each producer may have added, as a function.                       *)
LEMMA AddedFunction ==
    ASSUME TypeInv, AddedBounded
    PROVE  /\ exchange.producers \in Nat /\ Producers = 1..exchange.producers
           /\ [i \in Producers |-> Added(i)] \in [1..exchange.producers -> Nat]
           /\ [i \in Producers |-> Added(i)] \in [1..exchange.producers -> Int]
           /\ SumSeq([i \in Producers |-> Added(i)]) \in Nat
<1>1. exchange.producers \in Nat \ {0} /\ Producers = 1..exchange.producers
  BY Zenon, Constants DEF TypeInv, Producers
<1> DEFINE a == [i \in Producers |-> Added(i)]
<1>2. a \in [1..exchange.producers -> Nat]
  BY Zenon, <1>1 DEF AddedBounded
<1>3. 1 \in 1..exchange.producers
  BY <1>1
<1> HIDE DEF a
<1>4. SumSeq(a) \in Nat
  BY Zenon, <1>1, <1>2, <1>3, SumAtLeast
<1>5. a \in [1..exchange.producers -> Int]
  BY <1>2
<1> QED
  BY <1>1, <1>2, <1>4, <1>5 DEF a

AddedIsNat == SumSeq([i \in Producers |-> Added(i)]) \in Nat

(* What all of them may have added is a number.                            *)
LEMMA AddedSum == TypeInv => AddedIsNat
  BY Zenon, AddedType, AddedFunction DEF AddedIsNat

(* What the steps of producer i add                                        *)
LEMMA AddedRises ==
    ASSUME TypeInv, TypeInv', exchange' = exchange,
           NEW i \in Producers, NEW d \in Nat, Added(i) + d <= Added(i)',
           \A j \in Producers \ {i} : Added(j) <= Added(j)'
    PROVE  /\ SumSeq([j \in Producers |-> Added(j)]) + d
                <= SumSeq([j \in Producers |-> Added(j)])'
           /\ SumSeq([j \in Producers |-> Added(j)]) \in Nat
           /\ SumSeq([j \in Producers |-> Added(j)])' \in Nat
<1>1. AddedBounded /\ AddedBounded'
  BY AddedType, PTL
<1> DEFINE n == exchange.producers
           a == [j \in Producers |-> Added(j)]
           b == [j \in Producers |-> Added(j)']
           c == [a EXCEPT ![i] = a[i] + d]
<1>2. n \in Nat /\ Producers = 1..n /\ a \in [1..n -> Int] /\ SumSeq(a) \in Nat
  BY Zenon, <1>1, AddedFunction
<1>3. b \in [1..n -> Nat] /\ b \in [1..n -> Int]
  BY <1>1, <1>2, Fixed DEF AddedBounded
<1>4. c \in [1..n -> Int] /\ i \in 1..n /\ a[i] + d \in Int /\ a[i] \in Int
  BY <1>2
<1>5. \A j \in 1..n : c[j] <= b[j]
  BY Zenon, <1>2
<1>6. [j \in Producers |-> Added(j)]' = b
  BY Zenon, Fixed
<1> HIDE DEF a, b
<1>7. SumSeq(c) = SumSeq(a) - a[i] + (a[i] + d)
  <2> HIDE DEF n
  <2> QED
    BY Zenon, <1>2, <1>4, SumExcept
<1> HIDE DEF c, n
<1>8. SumSeq(c) <= SumSeq(b)
  BY Zenon, <1>2, <1>3, <1>4, <1>5, SumMonotone
<1>9. SumSeq(b) \in Nat
  BY Zenon, <1>2, <1>3, <1>4, SumAtLeast
<1>10. SumSeq(a) + d <= SumSeq(b)
  <2>1. SumSeq(c) = SumSeq(a) + d
    BY <1>2, <1>4, <1>7
  <2> QED
    BY Zenon, <1>2, <1>8, <2>1
<1> QED
  BY Zenon, <1>2, <1>6, <1>9, <1>10 DEF a

(* A producer that a step does not move, and whose promises stay           *)
LEMMA AddedFrame ==
    ASSUME exchange' = exchange, NEW j \in Producers,
           ppc'[j] = ppc[j], part'[j] = part[j], input'[j] = input[j],
           \A p \in Partitions : <<j, p>> \in promises' <=> <<j, p>> \in promises
    PROVE  Added(j)' = Added(j)
<1>1. Before(input[j], part[j])' = Before(input[j], part[j])
  BY Zenon, Fixed DEF Before, Share, InputBytes, NumRows
<1>2. Before(input[j], part[j] + 1)' = Before(input[j], part[j] + 1)
  BY Zenon, Fixed DEF Before, Share, InputBytes, NumRows
<1>3. Largest' = Largest
  BY Zenon, Fixed DEF Largest
<1>4. (\A p \in Partitions : <<j, p>> \notin promises)'
         <=> \A p \in Partitions : <<j, p>> \notin promises
  BY Zenon, Fixed
<1> QED
  BY <1>1, <1>2, <1>3, <1>4 DEF Added

(* A producer that goes on has enqueued all the partitions before the next *)
(* one that gets rows.                                                     *)
LEMMA GoOnAdded ==
    ASSUME TypeInv, NEW i \in Producers, ppc[i] \in Adding, exchange' = exchange,
           AddTo(i, input[i], NextPart(input[i], part[i] + 1)),
           NEW q \in Partitions, <<i, q>> \in promises'
    PROVE  Before(input[i], part[i] + 1) <= Added(i)'
<1> DEFINE n == NextPart(input[i], part[i] + 1)
           in == input[i]
<1>1. /\ in \in Inputs /\ part[i] \in Partitions /\ n \in 0..NumPartitions
      /\ part[i] + 1 \in 1..(NumPartitions + 1) /\ exchange \in Exchanges
      /\ n # 0 => n > part[i]
  BY Zenon, NextPartType DEF TypeInv
<1>2. NumPartitions \in Nat /\ Partitions = 1..NumPartitions
  BY Zenon, <1>1, Constants
<1>3. n # 0 => \A r \in (part[i] + 1)..(n - 1) : in.rows[r] = 0
  BY Zenon, <1>1, NextPartIs
<1>4. AddTo(i, in, n)
  BY Zenon
<1> HIDE DEF n, in
<1>5. /\ part'[i] = n
      /\ n = 0 => ppc'[i] = "run"
      /\ n # 0 => input'[i] = in /\ ppc'[i] \in {"enqueue", "getVector"}
  BY <1>1, <1>4, AddToType
<1>6. ~(\A p \in Partitions : <<i, p>> \notin promises)'
  BY Zenon, Fixed
<1>7. CASE n = 0
  <2>1. Added(i)' = Largest'
    BY Zenon, <1>5, <1>6, <1>7 DEF Added
  <2>2. Largest' = Largest
    BY Zenon, Fixed DEF Largest
  <2>3. /\ Largest \in Nat /\ in.total <= Largest /\ in.total \in Nat
        /\ Before(in, part[i] + 1) \in Nat /\ Before(in, part[i] + 1) <= in.total
    <3>1. part[i] + 1 \in Int
      BY <1>1, <1>2
    <3> QED
      BY Zenon, <1>1, <3>1, LargestIs, InputType, BeforeType, BeforeTotal
  <2>4. Before(in, part[i] + 1) <= Largest
    BY <2>3
  <2> QED
    BY Zenon, <2>1, <2>2, <2>4 DEF in
<1>8. CASE n # 0
  <2>1. Added(i)' = Before(input[i], part[i])'
    BY Zenon, <1>5, <1>6, <1>8 DEF Added
  <2>2. Before(input[i], part[i])' = Before(in, n)
    BY Zenon, <1>5, <1>8, Fixed DEF Before, Share, InputBytes, NumRows
  <2>3. Before(in, n) = Before(in, part[i] + 1)
    <3>1. part[i] + 1 \in Nat /\ n \in Nat /\ part[i] + 1 <= n
      BY <1>1, <1>2, <1>8
    <3>2. \A r \in Partitions : part[i] + 1 <= r /\ r < n => in.rows[r] = 0
      BY <1>2, <1>3, <1>8, <3>1
    <3> QED
      BY <1>1, <3>1, <3>2, BeforeSkip
  <2>4. Before(in, n) \in Nat
    <3>1. n \in Int
      BY <1>1
    <3> QED
      BY Zenon, <1>1, <3>1, BeforeType
  <2> QED
    BY <2>1, <2>2, <2>3, <2>4 DEF in
<1> QED
  BY Zenon, <1>7, <1>8
(* Nothing is buffered yet.                                                *)
LEMMA InitBytes == Init => BytesInv
<1> SUFFICES ASSUME Init PROVE BytesInv
  BY Zenon
<1>1. TypeInv /\ exchange \in Exchanges
  BY Zenon, InitTypes DEF Init
<1>2. SumSeq([i \in Producers |-> Added(i)]) \in Nat
  BY Zenon, <1>1, AddedType, AddedFunction
<1>3. MaxBufferSize \in Nat \ {0} /\ NumPartitions \in Nat \ {0}
      /\ Partitions = 1..NumPartitions
  BY Zenon, <1>1, Constants
<1>4. SumSeq([p \in Partitions |-> Bytes(queue[p])]) = 0
  <2>1. [p \in Partitions |-> Bytes(queue[p])]
           = [p \in 1..NumPartitions |-> IF p = 1 THEN 0 ELSE 0]
    BY Zenon, <1>3, BytesEmpty DEF Init
  <2>2. 1 \in 1..NumPartitions
    BY <1>3
  <2>3. SumSeq([p \in 1..NumPartitions |-> IF p = 1 THEN 0 ELSE 0]) = 0
    BY <1>3, <2>2, SumOfOne
  <2> QED
    BY Zenon, <2>1, <2>3
<1>5. bufferedBytes = 0
  BY Zenon DEF Init
<1> QED
  BY <1>2, <1>3, <1>4, <1>5 DEF BytesInv

(* A step that touches neither the queues nor the buffer                   *)
LEMMA BytesFrame ==
    ASSUME TypeInv, TypeInv', BytesInv, exchange' = exchange,
           UNCHANGED <<queue, memoryVars>>, NEW i \in Producers,
           \A j \in Producers : Added(j) <= Added(j)'
    PROVE  BytesInv'
<1>1. Added(i) + 0 <= Added(i)'
  <2>1. AddedBounded
    BY Zenon, AddedType
  <2> QED
    BY <2>1 DEF AddedBounded
<1>2. /\ SumSeq([j \in Producers |-> Added(j)]) + 0
           <= SumSeq([j \in Producers |-> Added(j)])'
      /\ SumSeq([j \in Producers |-> Added(j)]) \in Nat
      /\ SumSeq([j \in Producers |-> Added(j)])' \in Nat
  <2>1. 0 \in Nat
    BY Zenon
  <2> QED
    BY Zenon, <1>1, <2>1, AddedRises
<1>3. SumSeq([p \in Partitions |-> Bytes(queue[p])])'
         = SumSeq([p \in Partitions |-> Bytes(queue[p])])
  BY Zenon, Fixed DEF Bytes
<1>4. bufferedBytes' = bufferedBytes /\ bufferedBytes \in Int /\ MaxBufferSize \in Nat
  BY Zenon, Constants, BufferedType DEF memoryVars, TypeInv
<1> QED
  BY <1>2, <1>3, <1>4 DEF BytesInv

(* What a step of the queue of partition p takes out or puts in            *)
LEMMA QueueChange ==
    ASSUME TypeInv, exchange' = exchange, NEW p \in Partitions, NEW x \in Seq(Entry),
           queue' = [queue EXCEPT ![p] = x]
    PROVE  /\ SumSeq([q \in Partitions |-> Bytes(queue[q])])'
                = SumSeq([q \in Partitions |-> Bytes(queue[q])])
                  - Bytes(queue[p]) + Bytes(x)
           /\ Bytes(queue[p]) \in Nat /\ Bytes(x) \in Nat
<1>1. queue \in [Partitions -> Seq(Entry)] /\ exchange \in Exchanges
  BY Zenon DEF TypeInv, QueueTypes
<1>2. SumSeq([q \in Partitions |-> Bytes(queue'[q])])
         = SumSeq([q \in Partitions |-> Bytes(queue[q])]) - Bytes(queue[p]) + Bytes(x)
  <2>1. TotalBytes(queue') = TotalBytes(queue) - Bytes(queue[p]) + Bytes(x)
    BY Zenon, <1>1, QueuedBytes
  <2> QED
    BY Zenon, <2>1 DEF TotalBytes
<1>3. SumSeq([q \in Partitions |-> Bytes(queue[q])])'
         = SumSeq([q \in Partitions |-> Bytes(queue'[q])])
  BY Zenon, Fixed DEF Bytes
<1>4. Bytes(queue[p]) \in Nat /\ Bytes(x) \in Nat
  BY Zenon, <1>1, BytesType
<1> QED
  BY Zenon, <1>2, <1>3, <1>4

(* enqueue of an entry: its bytes come from its producer's share.          *)
LEMMA EnqueueBytes ==
    ASSUME TypeInv, PromiseInv, BytesInv, NEW i \in Producers, Enqueue(i)
    PROVE  BytesInv'
<1> DEFINE p == part[i]
           in == input[i]
           bytes == InputBytes(input[i], p)
           e == [vec |-> vec[i], bytes |-> bytes]
<1>1. TypeInv'
  BY Zenon, EnqueueTypes
<1>2. /\ exchange' = exchange /\ exchange \in Exchanges /\ ppc[i] = "enqueue"
      /\ ppc[i] \in Adding
  BY Zenon DEF Enqueue, TypeInv, Adding
<1>3. in \in Inputs /\ p \in Partitions /\ bytes \in Nat /\ e \in Entry
  BY Zenon, <1>2, EnqueuedEntry, InputBytesType
<1>4. p \in Int /\ p + 1 \in Int /\ MaxBufferSize \in Nat /\ bufferedBytes \in Int
  BY <1>2, <1>3, Constants, BufferedType
<1>5. in.rows[p] > 0
  BY Zenon, <1>2 DEF TypeInv, ProducerAt
<1>6. bytes = Share(in, p)
  BY Zenon, <1>5 DEF Share
<1>7. Before(in, p + 1) = Before(in, p) + bytes /\ Before(in, p) \in Nat
  BY Zenon, <1>2, <1>3, <1>4, <1>6, BeforeNext, BeforeType
<1>8. /\ ppc \in [Producers -> Adding \cup {"create", "run", "noMoreData",
                                            "noMoreDataNotify", "done"}]
      /\ part \in [Producers -> 0..NumPartitions]
      /\ input \in [Producers -> Inputs \cup {NoInput}]
      /\ queue \in [Partitions -> Seq(Entry)]
      /\ promises \subseteq Producers \X Partitions
  BY Zenon DEF TypeInv, ProducerTypes, QueueTypes
<1>9. \/ AddTo(i, input[i], NextPart(input[i], p + 1))
      \/ ppc' = [ppc EXCEPT ![i] = "notify"] /\ UNCHANGED <<part, input>>
  BY Zenon DEF Enqueue
<1>10. \A j \in Producers \ {i} :
          ppc'[j] = ppc[j] /\ part'[j] = part[j] /\ input'[j] = input[j]
  BY Zenon, <1>8, <1>9 DEF AddTo
<1>11. Added(i) = 0 \/ Added(i) = Before(in, p)
  BY Zenon, <1>2 DEF Added
<1>12. ASSUME NEW q \in Partitions, <<i, q>> \in promises'
       PROVE  Before(in, p + 1) <= Added(i)'
  <2>1. CASE AddTo(i, input[i], NextPart(input[i], p + 1))
    BY Zenon, <1>2, <1>12, <2>1, GoOnAdded
  <2>2. CASE ppc' = [ppc EXCEPT ![i] = "notify"] /\ UNCHANGED <<part, input>>
    <3>1. ppc'[i] = "notify" /\ part'[i] = p /\ input'[i] = in
      BY Zenon, <1>8, <2>2
    <3>2. ~(\A r \in Partitions : <<i, r>> \notin promises)'
      BY Zenon, <1>2, <1>12, Fixed
    <3>3. Added(i)' = Before(input[i], part[i] + 1)'
      BY Zenon, <3>1, <3>2 DEF Added
    <3>4. Before(input[i], part[i] + 1)' = Before(in, p + 1)
      BY Zenon, <1>2, <3>1, Fixed DEF Before, Share, InputBytes, NumRows
    <3>5. Before(in, p + 1) \in Nat
      BY Zenon, <1>2, <1>3, <1>4, BeforeType
    <3> QED
      BY <3>3, <3>4, <3>5
  <2> QED
    BY Zenon, <1>9, <2>1, <2>2
<1>13. AddedBounded /\ AddedBounded'
  BY <1>1, AddedType, PTL
<1>14. CASE p \in closed
  <2>1. UNCHANGED <<queue, memoryVars>>
    BY Zenon, <1>14 DEF Enqueue
  <2>2. \A j \in Producers \ {i} : Added(j) <= Added(j)'
    <3>1. \A j \in Producers \ {i} : Added(j)' = Added(j)
      BY Zenon, <1>2, <1>10, <2>1, AddedFrame DEF memoryVars
    <3> QED
      BY <1>13, <3>1 DEF AddedBounded
  <2>3. Added(i) <= Added(i)'
    <3>1. CASE \E q \in Partitions : <<i, q>> \in promises
      <4>1. Before(in, p + 1) <= Added(i)'
        BY Zenon, <1>12, <2>1, <3>1 DEF memoryVars
      <4>2. Added(i)' \in Nat
        BY Zenon, <1>2, <1>13, Fixed DEF AddedBounded
      <4> HIDE DEF in, p, bytes
      <4> QED
        BY <1>3, <1>7, <1>11, <4>1, <4>2
    <3>2. CASE ~\E q \in Partitions : <<i, q>> \in promises
      <4>1. Added(i) = 0
        BY Zenon, <3>2 DEF Added
      <4> QED
        BY <1>2, <1>13, <4>1, Fixed DEF AddedBounded
    <3> QED
      BY Zenon, <3>1, <3>2
  <2> QED
    BY <1>1, <1>2, <2>1, <2>2, <2>3, BytesFrame
<1>15. CASE p \notin closed
  <2>1. /\ queue' = [queue EXCEPT ![p] = Append(queue[p], e)]
        /\ increaseMemoryUsage(i, p, bytes)
    BY Zenon, <1>15 DEF Enqueue
  <2>2. bufferedBytes' = bufferedBytes + bytes
    BY Zenon, <2>1 DEF increaseMemoryUsage
  <2>3. SumSeq([q \in Partitions |-> Bytes(queue[q])])'
           = SumSeq([q \in Partitions |-> Bytes(queue[q])]) + bytes
    <3>1. queue[p] \in Seq(Entry) /\ Append(queue[p], e) \in Seq(Entry)
      BY <1>3, <1>8
    <3>2. Bytes(Append(queue[p], e)) = Bytes(queue[p]) + bytes
      BY Zenon, <1>2, <1>3, <3>1, BytesAppend
    <3>3. /\ SumSeq([q \in Partitions |-> Bytes(queue[q])])'
               = SumSeq([q \in Partitions |-> Bytes(queue[q])])
                 - Bytes(queue[p]) + Bytes(Append(queue[p], e))
          /\ Bytes(queue[p]) \in Nat
      BY Zenon, <1>2, <1>3, <2>1, <3>1, QueueChange
    <3>4. SumSeq([q \in Partitions |-> Bytes(queue[q])]) \in Int
      BY Zenon, <1>4 DEF BytesInv
    <3> HIDE DEF e, bytes
    <3> QED
      BY <1>3, <3>2, <3>3, <3>4
  <2>4. bufferedBytes' = SumSeq([q \in Partitions |-> Bytes(queue[q])])'
    BY Zenon, <2>2, <2>3 DEF BytesInv
  <2>5. bufferedBytes' < MaxBufferSize + SumSeq([j \in Producers |-> Added(j)])'
    <3>1. CASE bufferedBytes' >= MaxBufferSize
      <4>1. promises' = promises \cup {<<i, p>>}
        BY Zenon, <2>1, <3>1 DEF increaseMemoryUsage
      <4>2. Before(in, p + 1) <= Added(i)'
        BY Zenon, <1>3, <1>12, <4>1
      <4>3. Added(i)' \in Nat
        BY Zenon, <1>2, <1>13, Fixed DEF AddedBounded
      <4>4. Added(i) + bytes <= Added(i)'
        <5> HIDE DEF in, p, bytes
        <5> QED
          BY <1>3, <1>7, <1>11, <4>2, <4>3
      <4>5. \A j \in Producers \ {i} : Added(j) <= Added(j)'
        <5>1. \A j \in Producers \ {i}, q \in Partitions :
                 <<j, q>> \in promises' <=> <<j, q>> \in promises
          BY Zenon, <4>1
        <5>2. \A j \in Producers \ {i} : Added(j)' = Added(j)
          BY Zenon, <1>2, <1>10, <5>1, AddedFrame
        <5> QED
          BY <1>13, <5>2 DEF AddedBounded
      <4> DEFINE sum == SumSeq([j \in Producers |-> Added(j)])
                 next == SumSeq([j \in Producers |-> Added(j)])'
      <4>6. sum + bytes <= next /\ sum \in Nat /\ next \in Nat
        BY <1>1, <1>2, <1>3, <4>4, <4>5, AddedRises
      <4>7. bufferedBytes < MaxBufferSize + sum
        BY Zenon DEF BytesInv
      <4> HIDE DEF sum, next, bytes
      <4>8. bufferedBytes' < MaxBufferSize + next
        BY <1>3, <1>4, <2>2, <4>6, <4>7
      <4> QED
        BY Zenon, <4>8 DEF next
    <3>2. CASE ~(bufferedBytes' >= MaxBufferSize)
      <4>1. SumSeq([j \in Producers |-> Added(j)])' \in Nat
        <5>1. AddedIsNat'
          BY <1>1, AddedSum, PTL
        <5> QED
          BY Zenon, <5>1 DEF AddedIsNat
      <4>2. bufferedBytes' \in Int
        BY <1>3, <1>4, <2>2
      <4> QED
        BY <1>4, <3>2, <4>1, <4>2
    <3> QED
      BY Zenon, <3>1, <3>2
  <2> QED
    BY Zenon, <2>4, <2>5 DEF BytesInv
<1> QED
  BY Zenon, <1>14, <1>15
(* What the producers do keeps the bound on the bytes.                     *)
LEMMA ProduceBytes ==
    ASSUME TypeInv, TypeInv', StateInv, PromiseInv, BytesInv, NEW i \in Producers, Produce(i)
    PROVE  BytesInv'
<1>1. CASE Enqueue(i)
  BY Zenon, <1>1, EnqueueBytes
<1>2. CASE ~Enqueue(i)
  <2>1. exchange' = exchange /\ UNCHANGED <<queue, memoryVars>>
    BY Zenon, <1>2 DEF Produce, AddInput, GetVector, EnqueueNotify, NoMoreInput, NoMoreData,
                NoMoreDataNotify, queueVars
  <2>2. /\ ppc \in [Producers -> Adding \cup {"create", "run", "noMoreData",
                                              "noMoreDataNotify", "done"}]
        /\ part \in [Producers -> 0..NumPartitions]
        /\ input \in [Producers -> Inputs \cup {NoInput}]
    BY Zenon DEF TypeInv, ProducerTypes
  <2>3. AddedBounded /\ AddedBounded'
    BY AddedType, PTL
  <2>4. \A j \in Producers : Added(j) \in Nat /\ Added(j)' \in Nat
    BY Zenon, <2>1, <2>3, Fixed DEF AddedBounded
  <2>5. \A j \in Producers \ {i} :
           ppc'[j] = ppc[j] /\ part'[j] = part[j] /\ input'[j] = input[j]
    <3>1. CASE AddInput(i) \/ EnqueueNotify(i)
      BY Zenon, <2>2, <3>1 DEF AddInput, EnqueueNotify, AddTo
    <3>2. CASE GetVector(i) \/ NoMoreInput(i)
      BY Zenon, <2>2, <3>2 DEF GetVector, NoMoreInput
    <3>3. CASE NoMoreData(i) \/ NoMoreDataNotify(i)
      BY Zenon, <2>2, <3>3 DEF NoMoreData, NoMoreDataNotify, NextQueue
    <3> QED
      BY Zenon, <1>2, <3>1, <3>2, <3>3 DEF Produce
  <2>6. \A j \in Producers \ {i} : Added(j)' = Added(j)
    BY Zenon, <2>1, <2>5, AddedFrame DEF memoryVars
  <2>7. Added(i) <= Added(i)'
    <3>1. CASE \A p \in Partitions : <<i, p>> \notin promises
      <4>1. Added(i) = 0
        BY Zenon, <3>1 DEF Added
      <4> QED
        BY <2>4, <4>1
    <3>2. CASE ~\A p \in Partitions : <<i, p>> \notin promises
      <4>1. PICK q \in Partitions : <<i, q>> \in promises
        BY Zenon, <3>2
      <4>2. futures[i] # {}
        BY Zenon, <4>1 DEF PromiseInv, PromiseAt
      <4>3. ~(\A p \in Partitions : <<i, p>> \notin promises)'
        BY Zenon, <2>1, <4>1, Fixed DEF memoryVars
      <4>4. CASE GetVector(i)
        <5>1. ppc[i] = "getVector" /\ ppc'[i] = "enqueue" /\ UNCHANGED <<part, input>>
          BY Zenon, <2>2, <4>4 DEF GetVector
        <5>2. Added(i) = Before(input[i], part[i])
          BY Zenon, <3>2, <5>1 DEF Added
        <5>3. Added(i)' = Before(input[i], part[i])'
          BY Zenon, <4>3, <5>1 DEF Added
        <5>4. Before(input[i], part[i])' = Before(input[i], part[i])
          BY Zenon, <2>1, <5>1, Fixed DEF Before, Share, InputBytes, NumRows
        <5> QED
          BY <2>4, <5>2, <5>3, <5>4
      <4>5. CASE EnqueueNotify(i)
        <5>1. /\ ppc[i] = "notify" /\ ppc[i] \in Adding
              /\ AddTo(i, input[i], NextPart(input[i], part[i] + 1))
          BY Zenon, <4>5 DEF EnqueueNotify, Adding
        <5>2. Added(i) = Before(input[i], part[i] + 1)
          BY Zenon, <3>2, <5>1 DEF Added
        <5>3. <<i, q>> \in promises'
          BY Zenon, <2>1, <4>1 DEF memoryVars
        <5> QED
          BY Zenon, <2>1, <5>1, <5>2, <5>3, GoOnAdded
      <4>6. CASE NoMoreData(i) \/ NoMoreDataNotify(i)
        <5>1. /\ ppc[i] \in {"noMoreData", "noMoreDataNotify"}
              /\ ppc'[i] \in {"noMoreData", "noMoreDataNotify", "done"}
          BY Zenon, <2>2, <4>6 DEF NoMoreData, NoMoreDataNotify, NextQueue
        <5>2. Added(i) = Largest
          BY Zenon, <3>2, <5>1 DEF Added
        <5>3. Added(i)' = Largest'
          BY Zenon, <4>3, <5>1 DEF Added
        <5>4. Largest' = Largest
          BY Zenon, <2>1, Fixed DEF Largest
        <5> QED
          BY <2>4, <5>2, <5>3, <5>4
      <4>7. CASE AddInput(i) \/ NoMoreInput(i)
        BY Zenon, <4>2, <4>7 DEF AddInput, NoMoreInput
      <4> QED
        BY Zenon, <1>2, <4>4, <4>5, <4>6, <4>7 DEF Produce
    <3> QED
      BY Zenon, <3>1, <3>2
  <2>8. \A j \in Producers : Added(j) <= Added(j)'
    BY <2>4, <2>6, <2>7
  <2> QED
    BY Zenon, <2>1, <2>8, BytesFrame
<1> QED
  BY Zenon, <1>1, <1>2

(* next() and close() take bytes out: the buffer is still full and the     *)
(* promises stay, or none is left.                                         *)
LEMMA ReleaseBytes ==
    ASSUME TypeInv, TypeInv', StateInv, WaitInv, BytesInv, NEW p \in Partitions,
           NextData(p) \/ Close(p)
    PROVE  BytesInv'
<1>1. exchange' = exchange /\ exchange \in Exchanges /\ UNCHANGED producerVars
  BY Zenon, ConsumeStates DEF Fetch, TypeInv
<1>3. MaxBufferSize \in Nat /\ bufferedBytes \in Int
  BY Zenon, <1>1, Constants, BufferedType
<1>2. PICK n \in Nat :
         /\ n = Bytes(queue[p]) - Bytes(queue'[p])
         /\ bufferedBytes' = bufferedBytes - n
         /\ \/ promises' = promises \ Released(n) /\ n > 0
            \/ promises' = promises \ Released(n) /\ NextData(p)
            \/ promises' = promises /\ n = 0
  BY Zenon, <1>3, Releases
<1>4. bufferedBytes' = SumSeq([q \in Partitions |-> Bytes(queue[q])])'
  <2>1. PICK x \in Seq(Entry) : queue' = [queue EXCEPT ![p] = x]
    <3>1. CASE NextData(p)
      <4>1. queue[p] # <<>> /\ queue' = [queue EXCEPT ![p] = Tail(queue[p])]
        BY Zenon, <3>1 DEF NextData
      <4> QED
        BY Zenon, <4>1, HeadTypes
    <3>2. CASE Close(p)
      <4>1. queue' = [queue EXCEPT ![p] = <<>>]
        BY Zenon, <3>2 DEF Close
      <4>2. <<>> \in Seq(Entry)
        OBVIOUS
      <4> QED
        BY Zenon, <4>1, <4>2
    <3> QED
      BY Zenon, <3>1, <3>2
  <2>2. queue'[p] = x
    BY Zenon, <2>1 DEF TypeInv, QueueTypes
  <2>3. /\ SumSeq([q \in Partitions |-> Bytes(queue[q])])'
             = SumSeq([q \in Partitions |-> Bytes(queue[q])]) - Bytes(queue[p]) + Bytes(x)
        /\ Bytes(queue[p]) \in Nat /\ Bytes(x) \in Nat
    BY Zenon, <1>1, <2>1, QueueChange
  <2> QED
    BY <1>2, <1>3, <2>2, <2>3 DEF BytesInv
<1>5. AddedIsNat /\ AddedIsNat'
  BY AddedSum, PTL
<1>6. CASE promises' = {} /\ bufferedBytes - n < MaxBufferSize
  <2> DEFINE S == SumSeq([j \in Producers |-> Added(j)])'
  <2>1. S \in Nat
    BY Zenon, <1>5 DEF AddedIsNat
  <2>2. bufferedBytes' = bufferedBytes - n /\ bufferedBytes - n \in Int
    BY <1>2, <1>3
  <2> HIDE DEF S
  <2>3. bufferedBytes' < MaxBufferSize + S
    BY <1>3, <1>6, <2>1, <2>2
  <2> QED
    BY Zenon, <1>4, <2>3 DEF BytesInv, S
<1>7. CASE promises' = promises
  <2>1. \A j \in Producers : Added(j)' = Added(j)
    BY Zenon, <1>1, <1>7, AddedFrame DEF producerVars
  <2>2. SumSeq([j \in Producers |-> Added(j)])' = SumSeq([j \in Producers |-> Added(j)])
    <3>1. [j \in Producers |-> Added(j)]' = [j \in Producers |-> Added(j)]
      BY Zenon, <1>1, <2>1, Fixed
    <3> QED
      BY Zenon, <3>1
  <2> QED
    BY <1>2, <1>3, <1>4, <1>5, <2>2 DEF BytesInv, AddedIsNat
<1> QED
  <2>1. \/ Released(n) = promises /\ bufferedBytes - n < MaxBufferSize
        \/ Released(n) = {}
    BY Zenon DEF Released
  <2>2. promises \ promises = {} /\ promises \ {} = promises
    BY Zenon
  <2> QED
    BY Zenon, <1>2, <1>6, <1>7, <2>1, <2>2

(* Every step keeps the bound on the bytes.                                *)
LEMMA NextBytes ==
    ASSUME TypeInv, TypeInv', StateInv, WaitInv, PromiseInv, BytesInv, [Next]_vars
    PROVE  BytesInv'
<1>1. PICK i : i \in Producers
  BY Constants DEF TypeInv, Producers
<1>2. ASSUME exchange' = exchange, UNCHANGED <<queue, memoryVars, part, input>>,
             \A j \in Producers : ppc'[j] = ppc[j] \/ (ppc[j] = "create" /\ ppc'[j] = "run")
      PROVE  BytesInv'
  <2>1. AddedBounded
    BY Zenon, AddedType
  <2>2. ASSUME NEW j \in Producers
        PROVE  Added(j) <= Added(j)'
    <3>1. CASE ppc'[j] = ppc[j]
      <4>1. Added(j)' = Added(j)
        BY <1>2, <3>1, AddedFrame DEF memoryVars
      <4> QED
        BY <2>1, <4>1 DEF AddedBounded
    <3>2. CASE ppc[j] = "create" /\ ppc'[j] = "run"
      <4>1. Largest' = Largest
        BY Zenon, <1>2, Fixed DEF Largest
      <4>2. (\A p \in Partitions : <<j, p>> \notin promises)'
               <=> \A p \in Partitions : <<j, p>> \notin promises
        BY Zenon, <1>2, Fixed DEF memoryVars
      <4>3. Added(j)' = Added(j)
        BY Zenon, <3>2, <4>1, <4>2 DEF Added
      <4> QED
        BY <2>1, <4>3 DEF AddedBounded
    <3> QED
      BY Zenon, <1>2, <3>1, <3>2
  <2> QED
    BY Zenon, <1>1, <1>2, <2>2, BytesFrame
<1>3. CASE Create
  <2>1. exchange' = exchange /\ UNCHANGED <<queue, memoryVars, part, input>>
    BY Zenon, <1>3 DEF Create, NoMoreProducers, AddProducer, producerVars
  <2>2. \/ ppc' = ppc
        \/ \E j \in Producers : ppc[j] = "create" /\ ppc' = [ppc EXCEPT ![j] = "run"]
    BY Zenon, <1>3 DEF Create, NoMoreProducers, AddProducer, producerVars
  <2>3. \A j \in Producers : ppc'[j] = ppc[j] \/ (ppc[j] = "create" /\ ppc'[j] = "run")
    BY Zenon, <2>2 DEF TypeInv, ProducerTypes
  <2> QED
    BY Zenon, <1>2, <2>1, <2>3
<1>4. ASSUME NEW p \in Partitions, Fetch(p) \/ Close(p)
      PROVE  BytesInv'
  <2>1. CASE NextData(p) \/ Close(p)
    BY Zenon, <2>1, ReleaseBytes
  <2>2. CASE ~(NextData(p) \/ Close(p))
    <3>1. exchange' = exchange /\ UNCHANGED <<queue, memoryVars, ppc, part, input>>
      BY Zenon, <1>4, <2>2 DEF Fetch, NextFinished, NextBlocks, NextNotify, Push, Consume,
                        CloseNotify, queueVars, producerVars
    <3> QED
      BY Zenon, <1>2, <3>1
  <2> QED
    BY Zenon, <2>1, <2>2
<1>5. CASE UNCHANGED vars
  <2>1. exchange' = exchange /\ UNCHANGED <<queue, memoryVars, ppc, part, input>>
    BY Zenon, <1>5 DEF vars, queueVars, producerVars
  <2> QED
    BY Zenon, <1>2, <2>1
<1> QED
  BY Zenon, <1>3, <1>4, <1>5, ProduceBytes DEF Next

(* The bound of BufferBound.                                               *)
LEMMA BytesImply == TypeInv /\ BytesInv => BufferBound
<1> SUFFICES ASSUME TypeInv, BytesInv PROVE BufferBound
  BY Zenon
<1> DEFINE n == exchange.producers
           a == [i \in Producers |-> Added(i)]
<1>1. AddedBounded
  BY Zenon, AddedType
<1>2. n \in Nat /\ Producers = 1..n /\ a \in [1..n -> Int] /\ SumSeq(a) \in Nat
  BY Zenon, <1>1, AddedFunction
<1>3. \A i \in 1..n : a[i] <= Largest
  BY Zenon, <1>1, <1>2 DEF AddedBounded
<1>4. Largest \in Nat /\ MaxBufferSize \in Nat /\ bufferedBytes \in Int
  BY Zenon, LargestIs, Constants, BufferedType DEF TypeInv
<1>5. bufferedBytes < MaxBufferSize + SumSeq(a)
  BY Zenon DEF BytesInv
<1> HIDE DEF n, a
<1>6. SumSeq(a) <= n * Largest
  BY <1>2, <1>3, <1>4, SumAtMost
<1>7. bufferedBytes < MaxBufferSize + n * Largest
  <2>1. n * Largest \in Nat
    BY <1>2, <1>4
  <2> QED
    BY <1>2, <1>4, <1>5, <1>6, <2>1
<1>8. bufferedBytes = SumSeq([p \in Partitions |-> Bytes(queue[p])])
  BY Zenon DEF BytesInv
<1> QED
  BY Zenon, <1>7, <1>8 DEF BufferBound, Largest, n

(* The memory manager counts what the queues hold, and the queues exceed   *)
(* its limit by less than one input for each producer: a LocalPartition    *)
(* that finds the buffer full adds no other input before there is room.    *)
THEOREM LocalBufferBounded == Spec => []BufferBound
<1> DEFINE Inv == TypeInv /\ StateInv /\ WaitInv /\ PromiseInv /\ BytesInv
<1>1. Init => Inv
  BY Zenon, InitTypes, InitState, InitWait, InitPromises, InitBytes
<1>2. Inv /\ [Next]_vars => Inv'
  BY Zenon, NextTypesAndStates, NextWait, BufferedType, NextPromises, NextBytes
<1>3. Inv => BufferBound
  BY Zenon, BytesImply
<1> QED
  BY <1>1, <1>2, <1>3, PTL DEF Spec
-----------------------------------------------------------------------------
(* No wakeup is lost                                                       *)

(* Producers wait only while the buffer is full.                           *)
BufferFull == promises # {} => bufferedBytes >= MaxBufferSize

(* Steps that put bytes into the buffer or take them out                   *)
LEMMA NextFull ==
    ASSUME TypeInv, StateInv, WaitInv, BytesInv, BufferFull, [Next]_vars
    PROVE  BufferFull'
<1>1. bufferedBytes \in Int /\ MaxBufferSize \in Nat /\ exchange \in Exchanges
  BY Zenon, BufferedType, Constants DEF TypeInv
<1>2. CASE UNCHANGED memoryVars
  BY Zenon, <1>2 DEF BufferFull, memoryVars
<1>3. ASSUME NEW i \in Producers, Enqueue(i)
      PROVE  BufferFull'
  <2>1. InputBytes(input[i], part[i]) \in Nat
    BY Zenon, <1>1, <1>3, EnqueuedEntry, InputBytesType
  <2>2. \/ UNCHANGED memoryVars
        \/ increaseMemoryUsage(i, part[i], InputBytes(input[i], part[i]))
    BY Zenon, <1>3 DEF Enqueue
  <2>3. CASE increaseMemoryUsage(i, part[i], InputBytes(input[i], part[i]))
    <3>1. bufferedBytes' = bufferedBytes + InputBytes(input[i], part[i])
      BY Zenon, <2>3 DEF increaseMemoryUsage
    <3>2. bufferedBytes' >= MaxBufferSize \/ promises' = promises
      BY Zenon, <2>3 DEF increaseMemoryUsage
    <3> QED
      BY <1>1, <2>1, <3>1, <3>2 DEF BufferFull
  <2> QED
    BY Zenon, <1>2, <2>2, <2>3
<1>4. ASSUME NEW p \in Partitions, NextData(p) \/ Close(p)
      PROVE  BufferFull'
  <2>1. PICK n \in Nat :
           /\ bufferedBytes' = bufferedBytes - n
           /\ promises' = promises \ Released(n) \/ (promises' = promises /\ n = 0)
    BY Zenon, <1>1, <1>4, Releases
  <2> QED
    BY <1>1, <2>1 DEF BufferFull, Released
<1>5. ASSUME NEW i \in Producers, Produce(i), ~Enqueue(i)
      PROVE  UNCHANGED memoryVars
  BY Zenon, <1>5 DEF Produce, AddInput, GetVector, EnqueueNotify, NoMoreInput, NoMoreData,
              NoMoreDataNotify
<1>6. ASSUME NEW p \in Partitions, Fetch(p), ~NextData(p)
      PROVE  UNCHANGED memoryVars
  BY Zenon, <1>6 DEF Fetch, NextFinished, NextBlocks, NextNotify, Push, Consume, CloseNotify
<1>7. Create \/ UNCHANGED vars => UNCHANGED memoryVars
  BY Zenon DEF Create, NoMoreProducers, AddProducer, vars
<1> QED
  BY Zenon, <1>2, <1>3, <1>4, <1>5, <1>6, <1>7 DEF Next

(* Who waits has somebody who will wake them.                              *)
LEMMA WaitImplies == WaitInv /\ BufferFull => NoLostWakeup
<1> SUFFICES ASSUME WaitInv, BufferFull PROVE NoLostWakeup
  BY Zenon
<1>1. \A i \in Producers : pNotify[i] \subseteq InFlight
  BY Zenon DEF InFlight
<1>2. \A p \in Partitions : cNotify[p] \subseteq InFlight
  BY Zenon DEF InFlight
<1>3. ASSUME NEW p \in Partitions, cpc[p] = "waiting"
      PROVE  \/ p \in consumerPromises /\ queue[p] = <<>> /\ ~isFinishedLocked(p)
             \/ <<0, p>> \in InFlight
  BY Zenon, <1>1, <1>3 DEF WaitInv, ConsumerWait
<1>4. ASSUME NEW i \in Producers, NEW p \in futures[i]
      PROVE  \/ <<i, p>> \in promises /\ bufferedBytes >= MaxBufferSize
             \/ <<i, p>> \in InFlight
  BY Zenon, <1>2 DEF WaitInv, ProducerWait, BufferFull
<1> QED
  BY Zenon, <1>3, <1>4 DEF NoLostWakeup

(* No wakeup is lost between LocalPartition and LocalExchange: a promise   *)
(* stays in the queue or the memory manager only while the condition it is *)
(* for does not hold, or is in the hands of a thread that fulfils it.      *)
THEOREM LocalWakeups == Spec => []NoLostWakeup
<1> DEFINE Inv == TypeInv /\ StateInv /\ WaitInv /\ PromiseInv /\ BytesInv /\ BufferFull
<1>1. Init => Inv
  <2>1. Init => BufferFull
    BY Zenon DEF Init, BufferFull
  <2> QED
    BY Zenon, <2>1, InitTypes, InitState, InitWait, InitPromises, InitBytes
<1>2. Inv /\ [Next]_vars => Inv'
  BY NextTypesAndStates, NextWait, BufferedType, NextPromises, NextBytes, NextFull
<1>3. Inv => NoLostWakeup
  BY Zenon, WaitImplies
<1> QED
  BY <1>1, <1>2, <1>3, PTL DEF Spec
============================================================================
