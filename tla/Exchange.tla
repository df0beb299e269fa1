------------------------------ MODULE Exchange ------------------------------
(* The consuming side of a shuffle: the coordinator adds remote splits to a *)
(* task, the first driver's Exchange operator hands them to the             *)
(* ExchangeClient, the client asks remote sources for pages within a limit  *)
(* of bytes, and the drivers dequeue the pages.  A step is one critical     *)
(* section of the task's mutex or of the mutex of the ExchangeQueue.        *)
(* Promises are fulfilled in the step that takes them: all that follows is  *)
(* that a driver may go on, which it does at any later time.                *)
EXTENDS Integers, Sequences, FiniteSets, SequencesExt, FiniteSetsExt

CONSTANTS RemoteTasks,          \* ids of upstream tasks
          Streams,              \* what one may produce: sequences of page sizes
          NumConsumers,         \* drivers with an Exchange of the plan node
          MaxQueuedBytes,       \* maxQueuedBytes_
          OutputBatchBytes,     \* preferredOutputBatchBytes_
          Configs,              \* minOutputBatchBytes_, and what may go wrong
          MaxSplits             \* bound: splits that are added

Consumers == 1..NumConsumers
First == 1                      \* the driver with processSplits_

ASSUME ExchangeAssumption ==
    /\ IsFiniteSet(RemoteTasks) /\ NumConsumers \in Nat \ {0}
    /\ Streams \subseteq Seq(Nat \ {0})
    /\ MaxQueuedBytes \in Nat \ {0} /\ OutputBatchBytes \in Nat
    /\ MaxSplits \in Nat
    /\ \A k \in Configs :
          /\ k.minBatch \in Nat
          /\ k.events \subseteq {"timeout", "error", "terminate", "limit"}

VARIABLES
    running, numSplits,                          \* the task
    splits, noMoreSplits, splitPromises,         \* its SplitsStore
    pc,                                          \* the drivers
    splitFuture, splitReady, toAdd, lastSplit,   \* of the first: getSplits()
    config,                                      \* chosen once
    queue, totalBytes, receivedBytes, promises,  \* ExchangeQueue
    numSources, numCompleted, noMoreSources, atEnd, error,
    remoteTaskIds, sources, closed,              \* ExchangeClient
    totalPendingBytes, producing,
    pending, callbacks,         \* requests without answer, answers to handle
    stream, position, available, released,       \* the sources
    received, given                              \* history

storeVars == <<splits, noMoreSplits, splitPromises, numSplits, given>>
splitVars == <<splitFuture, splitReady, toAdd, lastSplit>>
pageVars == <<config, queue, totalBytes, receivedBytes, received>>
countVars == <<numSources, numCompleted, noMoreSources, atEnd, error>>
requestVars == <<totalPendingBytes, producing, pending>>
memberVars == <<remoteTaskIds, sources, closed>>
sourceVars == <<stream, position, available, released>>
vars == <<running, storeVars, pc, splitVars, pageVars, promises, countVars,
          memberVars, requestVars, callbacks, sourceVars>>

Size(page) == stream[page[1]][page[2]]
Bytes(pages) == FoldLeft(LAMBDA sum, p : sum + Size(p), 0, pages)
Sum(sizes) == FoldLeft(LAMBDA sum, b : sum + b, 0, sizes)

-----------------------------------------------------------------------------
(* ExchangeClient: which sources to ask, and for how much                  *)

(* The leading pages of a producing source that fit into the space.        *)
Fit(remaining, space) ==
    FoldLeft(LAMBDA a, b : IF a.space < 0 THEN a
                           ELSE IF a.space < b THEN [a EXCEPT !.space = @ - b]
                           ELSE [space |-> a.space - b, bytes |-> a.bytes + b],
             [space |-> space, bytes |-> 0], remaining)

PickProducing(a, p) ==
    LET fit == Fit(p.remaining, a.space)
    IN  IF a.space <= 0 THEN a
        ELSE IF fit.bytes = 0 THEN [a EXCEPT !.space = fit.space]
        ELSE [space |-> fit.space, bytes |-> a.bytes + fit.bytes,
              specs |-> Append(a.specs, [source |-> p.source,
                                         maxBytes |-> fit.bytes])]

(* Mutant: a page larger than the space that is left is never asked for.   *)
MutLargePage(prod, total, pendingBytes) == <<>>

(* With nothing queued and nothing pending one page may exceed the limit.  *)
LargePage(prod, total, pendingBytes) ==
    IF total = 0 /\ pendingBytes = 0 /\ prod # <<>>
    THEN <<[source |-> Head(prod).source, maxBytes |-> Head(prod).remaining[1]]>>
    ELSE <<>>

(* Mutant: what is pending does not count.                                 *)
MutSpace(total, pendingBytes) == MaxQueuedBytes - total

Space(total, pendingBytes) == MaxQueuedBytes - total - pendingBytes

(* pickSourcesToRequestLocked(), and the requests that follow it: empty    *)
(* are the sources without a known page, prod the others.                  *)
Pick(empty, prod, total, pendingBytes) ==
    LET sizes == [s \in empty |-> [source |-> s, maxBytes |-> 0]]
        many == FoldLeft(PickProducing,
                         [space |-> Space(total, pendingBytes), bytes |-> 0,
                          specs |-> <<>>], prod)
        rest == SubSeq(prod, Len(many.specs) + 1, Len(prod))
        large == LargePage(rest, total, pendingBytes + many.bytes)
        specs == many.specs \o large
    IN  /\ pending' = pending \cup {sizes[s] : s \in empty} \cup Range(specs)
        /\ producing' = SubSeq(prod, Len(specs) + 1, Len(prod))
        /\ totalPendingBytes' = pendingBytes
                                + FoldLeft(LAMBDA a, x : a + x.maxBytes, 0, specs)

-----------------------------------------------------------------------------
(* ExchangeQueue                                                           *)

(* At most a hundredth of what was received, and nothing at the end.       *)
minOutputBatchBytes(bytes) ==
    IF atEnd THEN 0 ELSE Min({config.minBatch, bytes \div 100})

(* How many of the waiting drivers go on waiting after a page came.        *)
StillWaiting(waiting, total, minBatch) ==
    Max({k \in 0..waiting : \/ k = 0
                            \/ total - (NumConsumers - k) * minBatch < minBatch})

(* Mutant: complete as soon as the sources known so far are.               *)
MutComplete(completed, noMore) == completed = numSources

(* checkCompleteLocked()                                                   *)
Complete(completed, noMore) == noMore /\ completed = numSources

(* enqueueLocked() for each page, and for the end if the source is at it.  *)
Enqueue(pages, end) ==
    LET waiting == FoldLeft(
            LAMBDA a, p : LET total == a.total + Size(p)
                              got == a.received + Size(p)
                          IN  [total |-> total, received |-> got,
                               n |-> StillWaiting(a.n, total,
                                                  minOutputBatchBytes(got))],
            [total |-> totalBytes, received |-> receivedBytes,
             n |-> Cardinality(promises)], pages)
        complete == end /\ Complete(numCompleted + 1, noMoreSources)
    IN  /\ queue' = queue \o pages
        /\ UNCHANGED config
        /\ totalBytes' = waiting.total
        /\ receivedBytes' = waiting.received
        /\ numCompleted' = IF end THEN numCompleted + 1 ELSE numCompleted
        /\ atEnd' = (atEnd \/ complete)
        /\ \E W \in SUBSET promises :
              /\ Cardinality(W) = waiting.n
              /\ promises' = IF complete THEN {} ELSE W

NoMoreSources ==
    /\ noMoreSources' = TRUE
    /\ atEnd' = (atEnd \/ Complete(numCompleted, TRUE))
    /\ promises' = IF Complete(numCompleted, TRUE) THEN {} ELSE promises
    /\ UNCHANGED <<numSources, numCompleted, error>>

(* Pages returned by dequeueLocked(): one, and more while they fit.        *)
Batch ==
    Max({n \in 0..Len(queue) : n > 1 => Bytes(SubSeq(queue, 1, n)) <= OutputBatchBytes})

-----------------------------------------------------------------------------
(* ExchangeClient::addRemoteTaskId()                                       *)

(* A source created after the close is closed at once.                     *)
AddClosed(s) ==
    /\ closed # "no"
    /\ released' = released \cup {s}
    /\ UNCHANGED <<sources, countVars, requestVars>>

(* addSourceLocked() fails when it comes after noMoreSources().            *)
AddFails(s) ==
    /\ closed = "no" /\ noMoreSources
    /\ sources' = sources \cup {s}
    /\ UNCHANGED <<released, countVars, requestVars>>

AddSource(s) ==
    /\ closed = "no" /\ ~noMoreSources
    /\ sources' = sources \cup {s}
    /\ numSources' = numSources + 1
    /\ Pick({s}, producing, totalBytes, totalPendingBytes)
    /\ UNCHANGED <<released, numCompleted, noMoreSources, atEnd, error>>

AddRemoteTaskId(s) ==
    /\ remoteTaskIds' = remoteTaskIds \cup {s}
    /\ \/ s \in remoteTaskIds /\ UNCHANGED <<sources, released, countVars, requestVars>>
       \/ s \notin remoteTaskIds /\ (AddClosed(s) \/ AddFails(s) \/ AddSource(s))
    /\ UNCHANGED <<closed, pageVars, callbacks, stream, position, available, promises>>

-----------------------------------------------------------------------------
(* The coordinator: Task::addSplit() and Task::noMoreSplits()              *)

(* Mutant: the oldest promise is taken.                                    *)
MutTakePromise ==
    /\ splitPromises' = Tail(splitPromises)
    /\ splitReady' = (splitReady \/ Head(splitPromises) = "live")

(* The newest promise is taken: older ones belong to waits that are over.  *)
TakePromise ==
    /\ splitPromises' = Front(splitPromises)
    /\ splitReady' = (splitReady \/ Last(splitPromises) = "live")

AddSplit(s) ==
    /\ running /\ ~noMoreSplits /\ numSplits < MaxSplits
    /\ numSplits' = numSplits + 1 /\ given' = given \cup {s}
    /\ splits' = Append(splits, s)
    /\ IF splitPromises = <<>> THEN UNCHANGED <<splitPromises, splitReady>>
       ELSE TakePromise
    /\ UNCHANGED <<running, noMoreSplits, pc, splitFuture, toAdd, lastSplit,
                   pageVars, promises, countVars, memberVars, requestVars,
                   callbacks, sourceVars>>

(* A task that has ended passes remote splits on, for their sources to be  *)
(* closed.                                                                 *)
AddRemoteSplit(s) ==
    /\ ~running /\ ~noMoreSplits /\ numSplits < MaxSplits
    /\ numSplits' = numSplits + 1 /\ given' = given \cup {s}
    /\ AddRemoteTaskId(s)
    /\ UNCHANGED <<running, splits, noMoreSplits, splitPromises, pc, splitVars>>

NoMoreSplits ==
    /\ ~noMoreSplits
    /\ noMoreSplits' = TRUE
    /\ splitPromises' = <<>>
    /\ splitReady' = (splitReady \/ "live" \in Range(splitPromises))
    /\ IF running THEN UNCHANGED <<countVars, promises>> ELSE NoMoreSources
    /\ UNCHANGED <<running, numSplits, given, splits, pc, splitFuture, toAdd, lastSplit,
                   pageVars, memberVars, requestVars, callbacks, sourceVars>>

-----------------------------------------------------------------------------
(* Exchange::isBlocked(): getSplits() of the first driver, then next()     *)

(* Splits are wanted unless all have come or a future is still held.       *)
WantsSplits(c) == c = First /\ splitFuture = "none" /\ ~lastSplit

GetSplits ==
    /\ pc[First] = "start" /\ WantsSplits(First)
    /\ toAdd' = Range(splits)
    /\ splits' = <<>>
    /\ splitReady' = FALSE
    /\ IF noMoreSplits THEN UNCHANGED <<splitPromises, splitFuture>>
       ELSE /\ splitPromises' = Append(splitPromises, "live")
            /\ splitFuture' = "held"
    /\ pc' = [pc EXCEPT ![First] = "adding"]
    /\ UNCHANGED <<running, numSplits, given, noMoreSplits, lastSplit, pageVars, promises,
                   countVars, memberVars, requestVars, callbacks, sourceVars>>

(* addRemoteTaskIds() adds them in random order; a check that fails stops  *)
(* the driver, and the task with it.                                       *)
AddRemoteTask(s) ==
    LET fails == s \notin remoteTaskIds /\ closed = "no" /\ noMoreSources
    IN  /\ pc[First] = "adding" /\ s \in toAdd
        /\ AddRemoteTaskId(s)
        /\ toAdd' = toAdd \ {s}
        /\ pc' = IF fails THEN [pc EXCEPT ![First] = "failed"] ELSE pc
        /\ UNCHANGED <<running, storeVars, splitFuture, splitReady, lastSplit>>

SplitsAdded ==
    /\ pc[First] = "adding" /\ toAdd = {}
    /\ pc' = [pc EXCEPT ![First] = "next"]
    /\ IF splitFuture = "none"
       THEN /\ lastSplit' = TRUE
            /\ NoMoreSources
       ELSE UNCHANGED <<lastSplit, countVars, promises>>
    /\ UNCHANGED <<running, storeVars, splitFuture, splitReady, toAdd, pageVars,
                   memberVars, requestVars, callbacks, sourceVars>>

(* The driver calls ExchangeClient::next().                                *)
AtNext(c) == pc[c] = "next" \/ (pc[c] = "start" /\ ~WantsSplits(c))

NextUnchanged ==
    UNCHANGED <<storeVars, splitReady, toAdd, lastSplit, countVars, memberVars,
                callbacks, sourceVars>>

NextClosed(c) ==
    /\ AtNext(c) /\ closed # "no"
    /\ pc' = [pc EXCEPT ![c] = "done"]
    /\ UNCHANGED <<running, splitFuture, pageVars, promises, requestVars>>
    /\ NextUnchanged

(* The error of a source fails the driver.                                 *)
NextError(c) ==
    /\ AtNext(c) /\ closed = "no" /\ error
    /\ pc' = [pc EXCEPT ![c] = "failed"]
    /\ UNCHANGED <<running, splitFuture, pageVars, promises, requestVars>>
    /\ NextUnchanged

TooFew == totalBytes < minOutputBatchBytes(receivedBytes)

(* Pages are returned, with the end if they are the last.                  *)
NextPages(c) ==
    /\ AtNext(c) /\ closed = "no" /\ ~error /\ ~TooFew /\ queue # <<>>
    /\ LET taken == SubSeq(queue, 1, Batch)
           end == Batch = Len(queue) /\ atEnd
       IN  /\ queue' = SubSeq(queue, Batch + 1, Len(queue))
           /\ totalBytes' = totalBytes - Bytes(taken)
           /\ received' = [s \in RemoteTasks |-> received[s] \o
                              SelectSeq(taken, LAMBDA p : p[1] = s)]
           /\ pc' = [pc EXCEPT ![c] = IF end THEN "ended" ELSE "start"]
           /\ IF end \/ totalBytes' > MaxQueuedBytes THEN UNCHANGED requestVars
              ELSE Pick({}, producing, totalBytes', totalPendingBytes)
    /\ UNCHANGED <<running, splitFuture, config, receivedBytes, promises>>
    /\ NextUnchanged

NextEnd(c) ==
    /\ AtNext(c) /\ closed = "no" /\ ~error /\ ~TooFew /\ queue = <<>> /\ atEnd
    /\ pc' = [pc EXCEPT ![c] = "ended"]
    /\ UNCHANGED <<running, splitFuture, pageVars, promises, requestVars>>
    /\ NextUnchanged

(* The driver waits for data and, with a future for a split, for either.   *)
NextBlocks(c) ==
    /\ AtNext(c) /\ closed = "no" /\ ~error
    /\ TooFew \/ (queue = <<>> /\ ~atEnd)
    /\ promises' = promises \cup {c}
    /\ Pick({}, producing, totalBytes, totalPendingBytes)
    /\ splitFuture' = IF c = First /\ splitFuture = "held" THEN "moved" ELSE splitFuture
    /\ pc' = [pc EXCEPT ![c] = "wait"]
    /\ UNCHANGED <<running, pageVars>>
    /\ NextUnchanged

Awake(c) ==
    \/ c \notin promises
    \/ c = First /\ splitFuture = "moved" /\ splitReady

(* A driver that goes on drops the futures it waited for.                  *)
Resume(c) ==
    /\ pc[c] = "wait" /\ Awake(c)
    /\ pc' = [pc EXCEPT ![c] = "start"]
    /\ IF c = First /\ splitFuture = "moved"
       THEN /\ splitFuture' = "none"
            /\ splitPromises' = [i \in DOMAIN splitPromises |-> "stale"]
       ELSE UNCHANGED <<splitFuture, splitPromises>>
    /\ UNCHANGED <<running, numSplits, given, splits, noMoreSplits, splitReady, toAdd,
                   lastSplit, pageVars, promises, countVars, memberVars,
                   requestVars, callbacks, sourceVars>>

-----------------------------------------------------------------------------
(* Sources (external, but for their calls of the queue) and the callbacks  *)
(* of their answers                                                        *)

(* A source answers a request: with pages when it was asked for some, with *)
(* the sizes of pages it has by now, or with the end.                      *)
Answer(r) ==
    LET s == r.source
        sizes == stream[s]
        n == Max({k \in 0..Len(sizes) - position[s] :
                     Sum(SubSeq(sizes, position[s] + 1, position[s] + k)) <= r.maxBytes})
        new == position[s] + n
    IN  /\ r \in pending
        /\ \E a \in Max({available[s], new})..Len(sizes), end \in BOOLEAN :
              /\ end => new = Len(sizes)
              /\ r.maxBytes = 0 => a > new \/ end
              /\ available' = [available EXCEPT ![s] = a]
              /\ Enqueue([i \in 1..n |-> <<s, position[s] + i>>], end)
              /\ callbacks' = callbacks \cup
                    {[source |-> s, maxBytes |-> r.maxBytes, end |-> end,
                      remaining |-> SubSeq(sizes, new + 1, a)]}
        /\ pending' = pending \ {r}
        /\ position' = [position EXCEPT ![s] = new]
        /\ UNCHANGED <<running, storeVars, pc, splitVars, received, numSources,
                       noMoreSources, error, memberVars, totalPendingBytes,
                       producing, stream, released>>

(* Nothing comes within maxWait.                                           *)
Timeout(r) ==
    /\ "timeout" \in config.events /\ r \in pending
    /\ pending' = pending \ {r}
    /\ callbacks' = callbacks \cup
          {[source |-> r.source, maxBytes |-> r.maxBytes, end |-> FALSE,
            remaining |-> <<>>]}
    /\ UNCHANGED <<running, storeVars, pc, splitVars, pageVars, promises, countVars,
                   memberVars, totalPendingBytes, producing, sourceVars>>

(* The request fails: setError() drops the pages that are queued.          *)
RequestFails(r) ==
    /\ "error" \in config.events /\ r \in pending
    /\ pending' = pending \ {r}
    /\ error' = TRUE
    /\ atEnd' = TRUE
    /\ queue' = IF error THEN queue ELSE <<>>
    /\ promises' = IF error THEN promises ELSE {}
    /\ UNCHANGED <<running, storeVars, pc, splitVars, config, totalBytes,
                   receivedBytes, received, numSources, numCompleted, noMoreSources, memberVars,
                   totalPendingBytes, producing, callbacks, sourceVars>>

(* Mutant: a source that has announced pages is dropped.                   *)
MutRequeued(k) == <<>>

Requeued(k) ==
    IF ~k.end /\ k.remaining # <<>>
    THEN <<[source |-> k.source, remaining |-> k.remaining]>>
    ELSE <<>>

(* The callback of a request: the source is asked again, now or later.     *)
Callback(k) ==
    /\ k \in callbacks
    /\ callbacks' = callbacks \ {k}
    /\ IF closed # "no" THEN UNCHANGED requestVars
       ELSE Pick(IF ~k.end /\ k.remaining = <<>> THEN {k.source} ELSE {},
                 producing \o Requeued(k), totalBytes,
                 totalPendingBytes - k.maxBytes)
    /\ UNCHANGED <<running, storeVars, pc, splitVars, pageVars, promises, countVars,
                   memberVars, sourceVars>>

-----------------------------------------------------------------------------
(* The end: ExchangeClient::close() by a driver or by Task::terminate()    *)

CloseUnchanged ==
    UNCHANGED <<running, storeVars, splitVars, countVars, remoteTaskIds,
                totalPendingBytes, stream, position, available>>

(* Drivers close their Exchange at the end, at a limit, or with the task.  *)
MayClose(c) ==
    \/ pc[c] = "ended"
    \/ pc[c] = "start" /\ "limit" \in config.events
    \/ pc[c] \in {"start", "next", "wait"} /\ ~running

Closes == IF closed = "no" THEN closed' = "closing" /\ producing' = <<>>
          ELSE UNCHANGED <<closed, producing>>

CloseDriver(c) ==
    /\ MayClose(c)
    /\ pc' = [pc EXCEPT ![c] = "done"]
    /\ Closes
    /\ UNCHANGED <<pageVars, promises, sources, released, pending, callbacks>>
    /\ CloseUnchanged

TerminateCloses ==
    /\ ~running /\ closed = "no"
    /\ Closes
    /\ UNCHANGED <<pc, pageVars, promises, sources, released, pending, callbacks>>
    /\ CloseUnchanged

(* Outside of the mutex: the sources are closed, then the queue.  Answers  *)
(* that come later find the client closed, and change nothing.             *)
CloseSources ==
    /\ closed = "closing"
    /\ closed' = "closed"
    /\ released' = released \cup sources
    /\ sources' = {}
    /\ queue' = <<>>
    /\ promises' = {} /\ pending' = {} /\ callbacks' = {}
    /\ UNCHANGED <<pc, config, totalBytes, receivedBytes, received, producing>>
    /\ CloseUnchanged

(* Mutant: the splits left in the store are forgotten.                     *)
MutReleaseAll(S) == UNCHANGED <<remoteTaskIds, released>>

(* addRemoteSplit() of each on a closed client.                            *)
ReleaseAll(S) ==
    /\ remoteTaskIds' = remoteTaskIds \cup S
    /\ released' = released \cup (S \ remoteTaskIds)

(* The rest of terminate(), after the close: splits nobody has taken.      *)
TerminateSplits ==
    /\ ~running /\ closed # "no" /\ (splits # <<>> \/ splitPromises # <<>>)
    /\ splits' = <<>>
    /\ splitPromises' = <<>>
    /\ splitReady' = (splitReady \/ "live" \in Range(splitPromises))
    /\ ReleaseAll(Range(splits))
    /\ IF splits # <<>> /\ noMoreSplits THEN NoMoreSources
       ELSE UNCHANGED <<countVars, promises>>
    /\ UNCHANGED <<running, numSplits, given, noMoreSplits, pc, splitFuture, toAdd,
                   lastSplit, pageVars, sources, closed, requestVars, callbacks,
                   stream, position, available>>

(* The task is cancelled, a driver has failed, or all have finished.       *)
Terminate ==
    /\ running
    /\ \/ /\ \/ "terminate" \in config.events
             \/ \A c \in Consumers : pc[c] = "done"
          /\ UNCHANGED pc
       \/ \E c \in Consumers : pc[c] = "failed" /\ pc' = [pc EXCEPT ![c] = "done"]
    /\ running' = FALSE
    /\ UNCHANGED <<storeVars, splitVars, pageVars, promises, countVars,
                   memberVars, requestVars, callbacks, sourceVars>>

-----------------------------------------------------------------------------
Init ==
    /\ running = TRUE /\ numSplits = 0 /\ given = {}
    /\ splits = <<>> /\ noMoreSplits = FALSE /\ splitPromises = <<>>
    /\ pc = [c \in Consumers |-> "start"]
    /\ splitFuture = "none" /\ splitReady = FALSE /\ toAdd = {} /\ lastSplit = FALSE
    /\ config \in Configs
    /\ queue = <<>> /\ totalBytes = 0 /\ receivedBytes = 0 /\ promises = {}
    /\ numSources = 0 /\ numCompleted = 0 /\ noMoreSources = FALSE
    /\ atEnd = FALSE /\ error = FALSE
    /\ remoteTaskIds = {} /\ sources = {} /\ closed = "no"
    /\ totalPendingBytes = 0 /\ producing = <<>> /\ pending = {} /\ callbacks = {}
    /\ stream \in [RemoteTasks -> Streams]
    /\ position = [s \in RemoteTasks |-> 0]
    /\ available = [s \in RemoteTasks |-> 0]
    /\ released = {}
    /\ received = [s \in RemoteTasks |-> <<>>]

Drive(c) ==
    \/ NextClosed(c) \/ NextError(c) \/ NextPages(c) \/ NextEnd(c)
    \/ NextBlocks(c) \/ Resume(c)

Next ==
    \/ \E s \in RemoteTasks : AddSplit(s) \/ AddRemoteSplit(s) \/ AddRemoteTask(s)
    \/ NoMoreSplits \/ GetSplits \/ SplitsAdded
    \/ \E c \in Consumers : Drive(c) \/ CloseDriver(c)
    \/ \E r \in pending : Answer(r) \/ Timeout(r) \/ RequestFails(r)
    \/ \E k \in callbacks : Callback(k)
    \/ Terminate \/ TerminateCloses \/ TerminateSplits \/ CloseSources

Spec == Init /\ [][Next]_vars

-----------------------------------------------------------------------------
(* While the task runs every source that is not at its end is in one place *)
(* of the client: asked, answered, or waiting for space.  It is never      *)
(* asked twice (the check of shouldRequestLocked()), and never forgotten.  *)
SourceHeld ==
    running /\ closed = "no" /\ ~error =>
        \A s \in sources :
            LET places == Cardinality({r \in pending : r.source = s})
                          + Cardinality({k \in callbacks : k.source = s /\ ~k.end})
                          + Cardinality({i \in DOMAIN producing : producing[i].source = s})
            IN  places <= 1 /\ (places = 0 => position[s] = Len(stream[s]))

(* The pages that are queued or on their way take no more than the limit   *)
(* or, when it is larger, one page.                                        *)
BytesBound ==
    closed = "no" /\ ~error =>
        LET asked == MapThenSumSet(LAMBDA r : r.maxBytes, pending)
            largest == Max(UNION {Range(stream[s]) : s \in RemoteTasks})
        IN  /\ totalBytes = Bytes(queue)
            /\ totalBytes + asked <= Max({MaxQueuedBytes, largest})

(* All the drivers wait, and no event that is due will wake one.           *)
AllWait == \A c \in Consumers : pc[c] = "wait" /\ ~Awake(c)

(* No driver waits for what is there: the drivers do not all wait while    *)
(* the queue holds a batch, or the error or the end is known, and the      *)
(* first does not wait while there are splits, or the word that there are  *)
(* no more.                                                                *)
NoIdleWait ==
    /\ AllWait => /\ closed # "closed" /\ ~error /\ ~atEnd
                  /\ queue = <<>> \/ TooFew
    /\ pc[First] = "wait" /\ (splits # <<>> \/ noMoreSplits) =>
          lastSplit \/ Awake(First)

(* While pages are left at known sources, somebody is about to move.  The  *)
(* one exception is a minimum batch: pages that are too few for it, and    *)
(* that no driver takes, can leave no room for the next page.  Without a   *)
(* minimum the rule for a large page, when nothing is queued and nothing   *)
(* is pending, is enough.                                                  *)
NeverStuck ==
    AllWait /\ closed = "no" /\ pending = {} /\ callbacks = {} /\ producing # <<>> =>
        /\ config.minBatch > 0 /\ queue # <<>> /\ TooFew
        /\ Head(producing).remaining[1] > Space(totalBytes, totalPendingBytes)

(* A driver of a running task that comes to the end, and not to a close,   *)
(* finds that every page of every split was received once and in order,    *)
(* and that there are no more splits.                                      *)
EndComplete ==
    running /\ (\E c \in Consumers : pc[c] = "ended") =>
        /\ noMoreSplits /\ splits = <<>>
        /\ \A s \in remoteTaskIds :
              received[s] = [i \in DOMAIN stream[s] |-> <<s, i>>]

(* Once the client is closed, every remote task it knows of has been told  *)
(* that its data is not needed; after the end of the task that is so for   *)
(* every split that was ever added, whoever found it.                      *)
SourcesReleased ==
    closed = "closed" =>
        /\ remoteTaskIds \subseteq released
        /\ ~running /\ splits = <<>> /\ toAdd = {} => given \subseteq released
=============================================================================
