---------------------------- MODULE OutputBuffer ----------------------------
(* The OutputBuffer of a task: the drivers' PartitionedOutput operators     *)
(* enqueue pages, remote consumers fetch, acknowledge and delete them by    *)
(* messages that may be delayed, reordered, repeated or lost.  A critical   *)
(* section of mutex_ is a step; the pages it freed are dropped, and the     *)
(* promises it took are fulfilled, in a later step outside of the lock.     *)
EXTENDS Integers, Sequences, FiniteSets, SequencesExt, FiniteSetsExt

CONSTANTS Outputs,           \* the outputs to consider, see OutputBufferAssumption
          NumDrivers,        \* drivers with a PartitionedOutput
          ExtraDrivers,      \* drivers expected at first, that never come
          MaxSize,           \* maxSize_
          PageSizes,         \* sizes of pages
          FetchSizes,        \* maxBytes of a request for data
          MaxPages           \* bound: pages of one driver

Drivers == 1..NumDrivers
AllDestinations == UNION {1..o.last : o \in Outputs}
ContinueSize == (MaxSize * 90) \div 100

ASSUME OutputBufferAssumption ==
    /\ \A o \in Outputs :
          /\ o.kind \in {"partitioned", "broadcast", "arbitrary"}
          /\ o.first \in Nat \ {0} /\ o.last \in Nat    \* buffers at the start
          /\ o.first <= o.last                            \* and in the end
          /\ o.kind = "partitioned" => o.first = o.last
          /\ o.activeCheck \in BOOLEAN          \* do requests carry an activeCheck?
          /\ o.early \subseteq 1..o.last        \* consumers that may stop early
          /\ o.faults \subseteq {"loss", "repeat", "timeout", "abort"}
          /\ o.maxInFlight \in Nat \ {0}  \* bound: a destination's messages in flight
    /\ NumDrivers \in Nat \ {0} /\ ExtraDrivers \in Nat
    /\ MaxSize \in Nat /\ ContinueSize > 0 /\ PageSizes \subseteq Nat \ {0}
    /\ FetchSizes \subseteq Nat \ {0} /\ FetchSizes # {}
    /\ MaxPages \in Nat

VARIABLES
    output,            \* the one that is executed: never changes
    buf,               \* [Destinations -> a DestinationBuffer]
    live,              \* destinations whose buffer is not nullptr
    numBuffers,        \* buffers_.size()
    arb, nextLoad,     \* the arbitrary buffer and where to load it next
    dataToBroadcast,   \* pages kept for buffers still to be added
    bufferedBytes, promises,
    numDrivers, numFinished, atEnd, noMoreBuffers,
    checkDue,          \* updateNumDrivers has still to call noMoreDrivers
    releasing,         \* what threads do after they left the mutex
    phase, consumed,                         \* the task, in the manager or not
    admitted,                                \* drivers past the check of enqueue
    pc, numPages, blocked,                   \* the drivers
    msgs, cstate, cseq, more,                \* messages and consumers
    sent, received                           \* history, per destination

bufferVars == <<buf, live, numBuffers, arb, nextLoad, dataToBroadcast>>
countVars == <<numDrivers, numFinished, atEnd, noMoreBuffers, checkDue>>
taskVars == <<phase, consumed, admitted>>
driverVars == <<pc, numPages, blocked>>
consumerVars == <<cstate, cseq, more, received>>
vars == <<output, bufferVars, bufferedBytes, promises, countVars, releasing, taskVars,
          driverVars, msgs, consumerVars, sent>>

Kind == output.kind
Destinations == 1..output.last

Running == phase = "running"
Registered == phase \in {"running", "ending"}

Pages == Drivers \X (1..MaxPages) \X PageSizes
Size(page) == page[3]
End == <<0, 0, 0>>                 \* the nullptr that marks the end

OnlyPages(s) == SelectSeq(s, LAMBDA x : x # End)
HasEnd(s) == s # <<>> /\ Last(s) = End
Bytes(s) == FoldLeft(LAMBDA sum, x : sum + Size(x), 0, s)

(* How many pages of s are taken until maxBytes are reached.               *)
Prefix(s, maxBytes) ==
    FoldLeft(LAMBDA n, x : IF Bytes(SubSeq(s, 1, n)) < maxBytes THEN n + 1 ELSE n,
             0, s)

-----------------------------------------------------------------------------
(* DestinationBuffer and ArbitraryBuffer                                   *)

EmptyBuffer ==
    [data |-> <<>>, seq |-> 0, notify |-> FALSE, nseq |-> 0, nmax |-> 0]

clearNotify(b) == [b EXCEPT !.notify = FALSE, !.nseq = 0, !.nmax = 0]

enqueue(b, page) ==
    IF page = End /\ HasEnd(b.data) THEN b
    ELSE [b EXCEPT !.data = Append(@, page)]

(* The end marker is given out once all the pages are, and stays there.    *)
getPages(a, maxBytes) ==
    LET ps == OnlyPages(a)
        n == Prefix(ps, maxBytes)
        atEndMarker == HasEnd(a) /\ n = Len(ps)
                       /\ (maxBytes = 0 \/ Bytes(ps) < maxBytes)
    IN  SubSeq(ps, 1, n) \o (IF atEndMarker THEN <<End>> ELSE <<>>)

loadData(b, a, maxBytes) == FoldLeft(enqueue, b, getPages(a, maxBytes))

(* Mutant: pages that are loaded stay in the arbitrary buffer.             *)
MutAfterLoad(a, maxBytes) == a

afterLoad(a, maxBytes) ==
    SubSeq(a, Prefix(OnlyPages(a), maxBytes) + 1, Len(a))

Response(d, seq, pages, end, rem) ==
    [type |-> "data", d |-> d, seq |-> seq, pages |-> pages,
     end |-> end, more |-> rem]

(* What DestinationBuffer::getData returns when it has data at seq.        *)
Answer(d, b, seq, maxBytes, a) ==
    LET rest == SubSeq(b.data, seq - b.seq + 1, Len(b.data))
        ps == OnlyPages(rest)
        n == Prefix(ps, maxBytes)
        ended == HasEnd(rest)
    IN  Response(d, seq, SubSeq(ps, 1, n),
                 ended /\ (ps = <<>> \/ Bytes(ps) < maxBytes),
                 n < Len(ps) \/ (~ended /\ OnlyPages(a) # <<>>))

HasData(b, seq) == seq - b.seq < Len(b.data)

(* The message getAndClearNotify() sends, if a request is waiting.         *)
Notification(d, b) ==
    IF ~b.notify THEN {}
    ELSE IF HasData(b, b.nseq) THEN {Answer(d, b, b.nseq, b.nmax, <<>>)}
    ELSE {Response(d, b.nseq, <<>>, FALSE, FALSE)}

(* The consumer of the request that waits at d, as activeCheck sees it.    *)
Alive(d) == output.activeCheck => cstate[d] = "waiting"

maybeLoadData(d, b, a) ==
    IF ~b.notify THEN b
    ELSE IF ~Alive(d) THEN clearNotify(b)
    ELSE loadData(b, a, b.nmax)

Loads(d, b) == b.notify /\ Alive(d)

(* Mutant: what is acknowledged is not erased.                             *)
MutAcknowledge(b, seq) == IF seq <= b.seq THEN b ELSE [b EXCEPT !.seq = seq]

(* Acknowledgements may come out of order; an old one has no effect.       *)
acknowledge(b, seq) ==
    LET n == seq - b.seq
    IN  IF n <= 0 THEN b
        ELSE [b EXCEPT !.data = SubSeq(@, n + 1, Len(@)), !.seq = seq]

Freed(b, seq) ==
    IF seq <= b.seq THEN <<>> ELSE OnlyPages(SubSeq(b.data, 1, seq - b.seq))

-----------------------------------------------------------------------------
(* The mutex of OutputBuffer: what its critical sections share             *)

Buffered(bs, ds) == UNION {ToSet(OnlyPages(bs[d].data)) : d \in ds}
SumSizes(S) == MapThenSumSet(Size, S)

(* Mutant: pages kept for later destinations are not taken into account.   *)
MutUnshared(page, by) == page \notin Buffered(buf', live')

(* use_count() of a freed page is one: no buffer has it any more, nor does *)
(* dataToBroadcast_ or a thread that has yet to drop what it freed.        *)
Unshared(page, by) ==
    /\ page \notin Buffered(buf', live')
    /\ by = 0 \/ page \notin ToSet(dataToBroadcast)
    /\ \A r \in releasing : page \notin r.pages

Continues(bytes) == bytes < ContinueSize

(* Thread 'by' freed pages: a consumer's, or 0 for updateOutputBuffers.    *)
updateAfterAcknowledge(by, freed, done) ==
    LET gone == {x \in ToSet(freed) : Unshared(x, by)}
        bytes == bufferedBytes - SumSizes(gone)
        resumed == IF gone # {} /\ Continues(bytes) THEN promises ELSE {}
        shared == IF Kind = "broadcast" /\ by # 0 THEN ToSet(freed) ELSE {}
    IN  /\ bufferedBytes' = bytes
        /\ promises' = promises \ resumed
        /\ releasing' = IF shared = {} /\ resumed = {} /\ ~done /\ by # 0
                        THEN releasing
                        ELSE releasing \cup {[by |-> by, pages |-> shared,
                                              promises |-> resumed, done |-> done]}

isFinished(bs, noMore) == bs = {} /\ (Kind = "broadcast" => noMore)

(* New buffers get what was broadcast so far; they are added up to n.      *)
AddedBuffer ==
    IF Kind # "broadcast" THEN EmptyBuffer
    ELSE [EmptyBuffer EXCEPT !.data = dataToBroadcast \o
                                      (IF atEnd THEN <<End>> ELSE <<>>)]
addOutputBuffers(n) ==
    LET new == numBuffers + 1 .. n
    IN  [buf |-> [d \in Destinations |-> IF d \in new THEN AddedBuffer ELSE buf[d]],
         live |-> live \cup new,
         numBuffers |-> IF n > numBuffers THEN n ELSE numBuffers]

(* releaseAfterAcknowledge(): pages are dropped, then producers continue;  *)
(* the task is told when all destinations are deleted.                     *)
Release ==
    \E r \in releasing :
        /\ releasing' = releasing \ {r}
        /\ dataToBroadcast' = IF r.by = 0 THEN <<>> ELSE dataToBroadcast
        /\ blocked' = blocked \ r.promises
        /\ consumed' = (consumed \/ r.done)
        /\ UNCHANGED <<output, buf, live, numBuffers, arb, nextLoad, bufferedBytes, promises,
                       countVars, phase, admitted, pc, numPages, msgs,
                       consumerVars, sent>>

-----------------------------------------------------------------------------
(* Producers                                                               *)

(* One destination after another, from nextLoad on, loads what it waits    *)
(* for, until the arbitrary buffer is empty.                               *)
LoadOrder == [k \in 1..numBuffers |-> ((nextLoad + k - 2) % numBuffers) + 1]

LoadOne(acc, d) ==
    IF d \notin live THEN acc
    ELSE LET b == maybeLoadData(d, acc.buf[d], acc.arb)
         IN  [acc EXCEPT !.buf[d] = clearNotify(b),
                         !.arb = IF Loads(d, acc.buf[d])
                                 THEN afterLoad(@, acc.buf[d].nmax) ELSE @,
                         !.out = @ \cup Notification(d, b)]

LoadUntilEmpty(acc, d) ==
    IF acc.stop THEN acc
    ELSE IF OnlyPages(acc.arb) = <<>> THEN [acc EXCEPT !.stop = TRUE, !.next = d]
    ELSE LoadOne(acc, d)

StartLoading(a) ==
    [buf |-> buf, arb |-> a, out |-> {}, next |-> nextLoad, stop |-> FALSE]

(* What was loaded for d is history of what d was sent.                    *)
SentAfter(bs) ==
    [d \in Destinations |->
        sent[d] \o OnlyPages(SubSeq(bs[d].data, Len(buf[d].data) + 1, Len(bs[d].data)))]

Loaded(l) ==
    /\ buf' = l.buf
    /\ arb' = l.arb
    /\ nextLoad' = l.next
    /\ msgs' = msgs \cup l.out
    /\ sent' = SentAfter(l.buf)

(* Mutant: the request that waits is not answered.                         *)
MutSpread(ds, page) ==
    /\ buf' = [d \in Destinations |->
                  IF d \in ds THEN enqueue(buf[d], page) ELSE buf[d]]
    /\ UNCHANGED msgs

(* Every destination that gets a page, or the end, is notified of it.      *)
Spread(ds, page) ==
    /\ buf' = [d \in Destinations |->
                  IF d \in ds THEN clearNotify(enqueue(buf[d], page)) ELSE buf[d]]
    /\ msgs' = msgs \cup UNION {Notification(d, enqueue(buf[d], page)) : d \in ds}

(* Mutant: a page that is dropped is counted as buffered.                  *)
MutEnqueuePartitioned(d, page) ==
    /\ Spread(live \cap {d}, page)
    /\ bufferedBytes' = bufferedBytes + Size(page)
    /\ sent' = IF d \in live THEN [sent EXCEPT ![d] = Append(@, page)] ELSE sent
    /\ UNCHANGED <<arb, nextLoad, dataToBroadcast>>

(* A page for a destination that was deleted is dropped.                   *)
enqueuePartitioned(d, page) ==
    /\ Spread(live \cap {d}, page)
    /\ bufferedBytes' = IF d \in live THEN bufferedBytes + Size(page) ELSE bufferedBytes
    /\ sent' = IF d \in live THEN [sent EXCEPT ![d] = Append(@, page)] ELSE sent
    /\ UNCHANGED <<arb, nextLoad, dataToBroadcast>>

(* A destination that has no buffer yet will find the page when it is      *)
(* added, as long as buffers may be added.                                 *)
enqueueBroadcast(page) ==
    /\ Spread(live, page)
    /\ bufferedBytes' = bufferedBytes + Size(page)
    /\ dataToBroadcast' = IF noMoreBuffers THEN dataToBroadcast
                          ELSE Append(dataToBroadcast, page)
    /\ sent' = [d \in AllDestinations |->
                   IF d \in live \/ d \in Destinations \ 1..numBuffers
                   THEN Append(sent[d], page)
                   ELSE sent[d]]
    /\ UNCHANGED <<arb, nextLoad>>

enqueueArbitrary(page) ==
    /\ Loaded(FoldLeft(LoadUntilEmpty, StartLoading(Append(arb, page)), LoadOrder))
    /\ bufferedBytes' = bufferedBytes + Size(page)
    /\ UNCHANGED dataToBroadcast

(* OutputBuffer::enqueue() by driver i, with or without a future.          *)
EnqueuePage(i, withFuture) ==
    /\ Running \/ i \in admitted
    /\ admitted' = admitted \ {i}
    /\ numPages[i] < MaxPages
    /\ numPages' = [numPages EXCEPT ![i] = @ + 1]
    /\ \E size \in PageSizes :
          LET page == <<i, numPages[i] + 1, size>>
          IN  CASE Kind = "partitioned" ->
                       \E d \in Destinations : enqueuePartitioned(d, page)
                [] Kind = "broadcast" -> enqueueBroadcast(page)
                [] Kind = "arbitrary" -> enqueueArbitrary(page)
    /\ IF withFuture /\ bufferedBytes' >= MaxSize
       THEN /\ promises' = promises \cup {i}
            /\ blocked' = blocked \cup {i}
            /\ pc' = [pc EXCEPT ![i] = "flush"]
       ELSE UNCHANGED <<promises, blocked, pc>>
    /\ UNCHANGED <<output, live, numBuffers, countVars, releasing, phase, consumed, consumerVars>>

(* PartitionedOutput::getOutput() goes on until it blocks; it then flushes *)
(* what it has for other destinations, and at the end of the input         *)
(* everything, without asking for a future.                                *)
Enqueue(i) == pc[i] = "run" /\ EnqueuePage(i, TRUE)

Flush(i) ==
    /\ pc[i] = "finish" \/ (pc[i] = "flush" /\ Kind = "partitioned")
    /\ EnqueuePage(i, FALSE)

DriverStep(i, from, to) ==
    /\ pc[i] = from
    /\ pc' = [pc EXCEPT ![i] = to]
    /\ UNCHANGED <<output, bufferVars, bufferedBytes, promises, countVars, releasing,
                   taskVars, numPages, blocked, msgs, consumerVars, sent>>

Wait(i) == DriverStep(i, "flush", "wait")
Continue(i) == i \notin blocked /\ DriverStep(i, "wait", "run")
NoMoreInput(i) == DriverStep(i, "run", "finish")
Terminated(i) == ~Running /\ \E p \in {"run", "wait", "finish"} : DriverStep(i, p, "off")

(* The end is enqueued once all the drivers are finished.                  *)
checkIfDone(finished) ==
    /\ numFinished' = numFinished + finished
    /\ atEnd' = (numFinished' = numDrivers)
    /\ IF ~atEnd' THEN UNCHANGED <<buf, arb, nextLoad, msgs, sent>>
       ELSE IF Kind = "arbitrary"
       THEN Loaded(FoldLeft(LoadOne,
                StartLoading(IF HasEnd(arb) THEN arb ELSE Append(arb, End)),
                [d \in 1..numBuffers |-> d]))
       ELSE Spread(live, End) /\ UNCHANGED <<arb, nextLoad, sent>>

NoMoreData(i) ==
    /\ pc[i] = "finish" /\ Registered
    /\ pc' = [pc EXCEPT ![i] = "done"]
    /\ checkIfDone(1)
    /\ UNCHANGED <<output, live, numBuffers, dataToBroadcast, bufferedBytes, promises,
                   numDrivers, noMoreBuffers, checkDue, releasing, taskVars,
                   numPages, blocked, consumerVars>>

(* Mutant: the end is not noticed when the drivers had finished before.    *)
MutUpdateNumDrivers ==
    /\ Registered /\ numDrivers # NumDrivers
    /\ numDrivers' = NumDrivers
    /\ checkDue' = FALSE
    /\ UNCHANGED <<output, bufferVars, bufferedBytes, promises, numFinished, atEnd,
                   noMoreBuffers, releasing, taskVars, driverVars, msgs,
                   consumerVars, sent>>

(* The number of drivers becomes known late in grouped execution; the lock *)
(* is given up between the test and noMoreDrivers().                       *)
UpdateNumDrivers ==
    /\ Registered /\ numDrivers # NumDrivers
    /\ numDrivers' = NumDrivers
    /\ checkDue' = (numFinished = NumDrivers)
    /\ UNCHANGED <<output, bufferVars, bufferedBytes, promises, numFinished, atEnd,
                   noMoreBuffers, releasing, taskVars, driverVars, msgs,
                   consumerVars, sent>>

NoMoreDrivers ==
    /\ checkDue
    /\ checkDue' = FALSE
    /\ checkIfDone(0)
    /\ UNCHANGED <<output, live, numBuffers, dataToBroadcast, bufferedBytes, promises,
                   numDrivers, noMoreBuffers, releasing, taskVars, driverVars,
                   consumerVars>>

(* The task passes on one call with noMoreBuffers, the last one.           *)
UpdateOutputBuffers(n, last) ==
    /\ Kind # "partitioned" /\ Registered /\ ~noMoreBuffers
    /\ last => n = output.last
    /\ last \/ n > numBuffers
    /\ LET added == addOutputBuffers(n)
       IN  buf' = added.buf /\ live' = added.live /\ numBuffers' = added.numBuffers
    /\ noMoreBuffers' = last
    /\ IF last THEN updateAfterAcknowledge(0, dataToBroadcast, isFinished(live', TRUE))
       ELSE UNCHANGED <<bufferedBytes, promises, releasing>>
    /\ UNCHANGED <<output, arb, nextLoad, dataToBroadcast, numDrivers, numFinished, atEnd,
                   checkDue, taskVars, driverVars, msgs, consumerVars, sent>>

-----------------------------------------------------------------------------
(* Messages of the consumers, received through OutputBufferManager         *)

(* A request that is repeated after a timeout may arrive twice.            *)
Consume(m, out) ==
    \E left \in IF "repeat" \in output.faults THEN {{}, {m}} ELSE {{}} :
        msgs' = ((msgs \ {m}) \cup left) \cup out

Unaffected == UNCHANGED <<output, nextLoad, dataToBroadcast, countVars, taskVars,
                          driverVars, consumerVars>>

(* The destination's buffer acknowledged up to seq, loaded and answered.   *)
Serve(m, bs) ==
    LET acked == acknowledge(bs[m.d], m.seq)
        loading == Kind = "arbitrary"
        l == IF loading THEN loadData(acked, arb, m.max) ELSE acked
        a == IF loading THEN afterLoad(arb, m.max) ELSE arb
        Replace(b) == buf' = [bs EXCEPT ![m.d] = b]
    IN  /\ arb' = a
        /\ sent' = [sent EXCEPT ![m.d] = @ \o
                       OnlyPages(SubSeq(l.data, Len(acked.data) + 1, Len(l.data)))]
        /\ IF HasData(l, m.seq)
           THEN Replace(l) /\ Consume(m, {Answer(m.d, l, m.seq, m.max, a)})
           ELSE IF m.max = 0 /\ OnlyPages(a) # <<>>
           THEN Replace(l) /\ Consume(m, {Response(m.d, m.seq, <<>>, FALSE, TRUE)})
           ELSE /\ Replace([l EXCEPT !.notify = TRUE, !.nseq = m.seq, !.nmax = m.max])
                /\ Consume(m, {})

(* A deleted destination is at its end; an old request is refused.         *)
GetData(m) ==
    /\ m.type = "get" /\ Registered
    /\ LET added == addOutputBuffers(m.d)
           b == added.buf[m.d]
       IN  /\ live' = added.live /\ numBuffers' = added.numBuffers
           /\ IF m.d \notin added.live \/ m.seq < b.seq
              THEN /\ buf' = added.buf
                   /\ Consume(m, IF m.d \in added.live THEN {}
                                 ELSE {Response(m.d, m.seq, <<>>, TRUE, FALSE)})
                   /\ UNCHANGED <<arb, sent, bufferedBytes, promises, releasing>>
              ELSE /\ Serve(m, added.buf)
                   /\ updateAfterAcknowledge(m.d, Freed(b, m.seq), FALSE)
    /\ Unaffected

Acknowledge(m) ==
    /\ m.type = "ack" /\ Registered
    /\ Consume(m, {})
    /\ IF m.d \in live
       THEN /\ buf' = [buf EXCEPT ![m.d] = acknowledge(@, m.seq)]
            /\ UNCHANGED live
            /\ updateAfterAcknowledge(m.d, Freed(buf[m.d], m.seq), FALSE)
       ELSE UNCHANGED <<buf, live, bufferedBytes, promises, releasing>>
    /\ UNCHANGED <<numBuffers, arb, sent>> /\ Unaffected

(* A request that waits is answered with nothing when its buffer goes.     *)
DeleteResults(m) ==
    /\ m.type = "delete" /\ Registered /\ m.d <= numBuffers
    /\ IF m.d \in live
       THEN LET b == buf[m.d]
            IN  /\ buf' = [buf EXCEPT ![m.d] = EmptyBuffer]
                /\ live' = live \ {m.d}
                /\ Consume(m, Notification(m.d, [b EXCEPT !.data = <<>>]))
                /\ updateAfterAcknowledge(m.d, OnlyPages(b.data), isFinished(live', noMoreBuffers))
       ELSE Consume(m, {}) /\ UNCHANGED <<buf, live, bufferedBytes, promises, releasing>>
    /\ UNCHANGED <<numBuffers, arb, sent>> /\ Unaffected

Lose(m) ==
    /\ "loss" \in output.faults /\ m.type # "delete"
    /\ msgs' = msgs \ {m}
    /\ UNCHANGED <<output, bufferVars, bufferedBytes, promises, countVars, releasing,
                   taskVars, driverVars, consumerVars, sent>>

-----------------------------------------------------------------------------
(* Consumers: an ExchangeClient with one source for the destination        *)

HasRoom(d) == Cardinality({m \in msgs : m.d = d}) < output.maxInFlight
ConsumerOnly == UNCHANGED <<output, bufferVars, bufferedBytes, promises, countVars,
                            releasing, taskVars, driverVars, sent>>

(* It asks for the sizes of pages, and for pages once it knows of some.    *)
Request(d) ==
    /\ cstate[d] = "idle" /\ HasRoom(d)
    /\ cstate' = [cstate EXCEPT ![d] = "waiting"]
    /\ \E max \in IF more[d] THEN FetchSizes ELSE {0} :
          msgs' = msgs \cup {[type |-> "get", d |-> d, seq |-> cseq[d], max |-> max]}
    /\ UNCHANGED <<cseq, more, received>> /\ ConsumerOnly

TimeOut(d) ==
    /\ "timeout" \in output.faults /\ cstate[d] = "waiting"
    /\ cstate' = [cstate EXCEPT ![d] = "idle"]
    /\ more' = [more EXCEPT ![d] = FALSE]
    /\ UNCHANGED <<cseq, received, msgs>> /\ ConsumerOnly

Deletion(d) == {[type |-> "delete", d |-> d]}

(* A response counts if it answers the request the consumer waits for.     *)
(* The source is asked again, or paused for a while: it then acknowledges. *)
(* An acknowledgement that says nothing new is left out.                   *)
Receive(m) ==
    /\ m.type = "data"
    /\ IF cstate[m.d] = "waiting" /\ m.seq = cseq[m.d]
       THEN LET next == cseq[m.d] + Len(m.pages)
            IN  /\ received' = [received EXCEPT ![m.d] = @ \o m.pages]
                /\ cseq' = [cseq EXCEPT ![m.d] = next]
                /\ more' = [more EXCEPT ![m.d] = m.more]
                /\ cstate' = [cstate EXCEPT ![m.d] = IF m.end THEN "done" ELSE "idle"]
                /\ \E out \in IF m.end THEN {Deletion(m.d)}
                              ELSE IF m.pages = <<>> THEN {{}}
                              ELSE {{}, {[type |-> "ack", d |-> m.d, seq |-> next]}} :
                      msgs' = (msgs \ {m}) \cup out
       ELSE msgs' = msgs \ {m} /\ UNCHANGED consumerVars
    /\ ConsumerOnly

Close(d) ==
    /\ d \in output.early /\ cstate[d] \in {"idle", "waiting"}
    /\ cstate' = [cstate EXCEPT ![d] = "closed"]
    /\ msgs' = msgs \cup Deletion(d)
    /\ UNCHANGED <<cseq, more, received>> /\ ConsumerOnly

(* The manager does not know the task any more.                            *)
NotFound(m) ==
    /\ m.type \in {"get", "ack", "delete"} /\ ~Registered
    /\ msgs' = msgs \ {m}
    /\ cstate' = IF m.type = "get" /\ cstate[m.d] = "waiting"
                 THEN [cstate EXCEPT ![m.d] = "failed"] ELSE cstate
    /\ UNCHANGED <<cseq, more, received>> /\ ConsumerOnly

-----------------------------------------------------------------------------
(* The task                                                                *)

TaskStep(from, to) ==
    /\ phase = from
    /\ phase' = to
    /\ UNCHANGED <<output, bufferVars, bufferedBytes, countVars, releasing, consumed, pc,
                   numPages, msgs, consumerVars, sent>>

Finish ==
    /\ consumed /\ \A i \in Drivers : pc[i] = "done"
    /\ TaskStep("running", "ending")
    /\ UNCHANGED <<promises, blocked, admitted>>

(* enqueue() tests that the task is running before it takes the lock.      *)
Abort ==
    /\ "abort" \in output.faults
    /\ TaskStep("running", "ending")
    /\ admitted' \in SUBSET {i \in Drivers : pc[i] \in {"run", "flush", "finish"}}
    /\ UNCHANGED <<promises, blocked>>

RemoveTask ==
    /\ TaskStep("ending", "removed")
    /\ UNCHANGED <<promises, blocked, admitted>>

Terminate ==
    /\ TaskStep("removed", "terminated")
    /\ blocked' = blocked \ promises
    /\ promises' = {}
    /\ UNCHANGED admitted

-----------------------------------------------------------------------------
Init ==
    /\ output \in Outputs
    /\ buf = [d \in Destinations |-> EmptyBuffer]
    /\ live = 1..output.first /\ numBuffers = output.first
    /\ arb = <<>> /\ nextLoad = 1 /\ dataToBroadcast = <<>>
    /\ bufferedBytes = 0 /\ promises = {}
    /\ numDrivers = NumDrivers + ExtraDrivers /\ numFinished = 0
    /\ atEnd = FALSE /\ noMoreBuffers = (Kind = "partitioned") /\ checkDue = FALSE
    /\ releasing = {}
    /\ phase = "running" /\ consumed = FALSE /\ admitted = {}
    /\ pc = [i \in Drivers |-> "run"] /\ numPages = [i \in Drivers |-> 0]
    /\ blocked = {}
    /\ msgs = {}
    /\ cstate = [d \in Destinations |-> "idle"]
    /\ cseq = [d \in Destinations |-> 0]
    /\ more = [d \in Destinations |-> FALSE]
    /\ sent = [d \in AllDestinations |-> <<>>]
    /\ received = [d \in AllDestinations |-> <<>>]

Driver(i) ==
    \/ Enqueue(i) \/ Flush(i) \/ Wait(i) \/ Continue(i)
    \/ NoMoreInput(i) \/ NoMoreData(i) \/ Terminated(i)

Task ==
    \/ UpdateNumDrivers \/ NoMoreDrivers \/ Release
    \/ \E n \in Destinations, last \in BOOLEAN : UpdateOutputBuffers(n, last)
    \/ Finish \/ Abort \/ RemoveTask \/ Terminate

Deliver(m) ==
    \/ GetData(m) \/ Acknowledge(m) \/ DeleteResults(m) \/ NotFound(m) \/ Receive(m)

Consumer(d) == Request(d) \/ TimeOut(d) \/ Close(d)

Next ==
    \/ \E i \in Drivers : Driver(i)
    \/ Task
    \/ \E m \in msgs : Deliver(m) \/ Lose(m)
    \/ \E d \in Destinations : Consumer(d)

Spec == Init /\ [][Next]_vars

(* Drivers and the threads that serve consumers are scheduled; consumers   *)
(* go on asking; the task and the coordinator do what is left to be done.  *)
TaskEnds ==
    \/ Release \/ UpdateNumDrivers \/ NoMoreDrivers
    \/ UpdateOutputBuffers(output.last, TRUE)
    \/ Finish \/ RemoveTask \/ Terminate

Fairness ==
    /\ \A i \in Drivers : WF_vars(Driver(i))
    /\ \A d \in AllDestinations : WF_vars(d \in Destinations /\ Request(d))
    /\ WF_vars(\E m \in msgs : Deliver(m))
    /\ WF_vars(TaskEnds)

FairSpec == Spec /\ Fairness

-----------------------------------------------------------------------------
(* Properties                                                              *)

(* What the output holds: pages are shared between the destinations of a   *)
(* broadcast output, and dataToBroadcast_ keeps them for later ones.       *)
Held ==
    Buffered(buf, live) \cup ToSet(OnlyPages(arb)) \cup
    (IF Kind = "broadcast" /\ ~noMoreBuffers THEN ToSet(dataToBroadcast) ELSE {})

(* bufferedBytes_, which decides when producers are blocked, is the size   *)
(* of the pages that are held.  For a broadcast output it never falls      *)
(* below: no page is counted as freed twice, however destinations share.   *)
BytesAccounted ==
    IF Kind = "broadcast" THEN bufferedBytes >= SumSizes(Held)
    ELSE bufferedBytes = SumSizes(Held)

(* Producers wait only while the buffer holds continueSize_ bytes or more. *)
(* A request waits only if there is nothing to answer: no page or end      *)
(* marker for its destination, no page in the arbitrary buffer, and it is  *)
(* never older than what was acknowledged.                                 *)
NoLostWakeup ==
    /\ promises # {} => bufferedBytes >= ContinueSize
    /\ phase # "terminated" =>
          blocked = promises \cup UNION {r.promises : r \in releasing}
    /\ \A d \in live : buf[d].notify =>
          /\ buf[d].nseq = buf[d].seq + Len(buf[d].data)
          /\ OnlyPages(arb) = <<>> /\ ~atEnd

(* Each page of an arbitrary output goes to one destination: what was      *)
(* loaded for a consumer, also one that went away, is given to no other.   *)
ArbitraryOnce ==
    LET loaded == [d \in Destinations |-> ToSet(sent[d])]
        waiting == ToSet(OnlyPages(arb))
    IN  Kind = "arbitrary" =>
        /\ \A c, d \in Destinations : c # d => loaded[c] \cap loaded[d] = {}
        /\ \A d \in Destinations : waiting \cap loaded[d] = {}
        /\ Cardinality(waiting \cup UNION {loaded[d] : d \in Destinations})
              = FoldFunction(+, 0, numPages)

Stream == INSTANCE PageStream
    WITH Destinations <- AllDestinations, Items <- Pages,
         state <- [d \in AllDestinations |->
                      IF d \in 1..numBuffers \ live THEN "closed"
                      ELSE IF d \in Destinations /\ cstate[d] = "done" THEN "ended" ELSE "open"]

(* Each destination receives what it was sent, in order, once; a consumer  *)
(* that is told of the end has received all, and nothing comes after it.   *)
Delivery == Stream!Spec

(* In the end every consumer has seen the end or closed, every driver is   *)
(* finished, and the task is terminated: no producer and no consumer is    *)
(* left waiting for the other.                                             *)
Drained ==
    <>[](/\ \A d \in Destinations : cstate[d] \in {"done", "closed", "failed"}
         /\ \A i \in Drivers : pc[i] = "done"
         /\ phase = "terminated")
=============================================================================
