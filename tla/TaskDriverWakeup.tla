-------------------------- MODULE TaskDriverWakeup --------------------------
(* No driver of a running task is forgotten, for any number of drivers and *)
(* threads and with yields, which enqueue a driver outside of the mutex;   *)
(* without yields the checks of the code never fail.                       *)
EXTENDS TaskDriverProofs

-----------------------------------------------------------------------------
(* The task neither failed nor terminated; no reclaim failed either.       *)
Live == Running /\ ~exception
Unharmed == Live /\ ~reclaimFailed

(* Thread t, off driver d, is about to set the callback of its future, or  *)
(* to do so or enqueue the driver.                                         *)
Arming(t, d) ==
    cur[t] = d /\ (pc[t] = "setResume" \/ (pc[t] = "post" /\ stop[t] = "kBlock"))
Waking(t, d) ==
    \/ Arming(t, d)
    \/ cur[t] = d /\ pc[t] \in {"requeue", "requeue2"}
    \/ cur[t] = d /\ pc[t] = "post" /\ stop[t] = "kYield"

(* The future of driver d has a callback or is about to get one.           *)
Armed(d) == armed[d] > 0 \/ \E t \in Threads : Arming(t, d)

(* Driver d is enqueued, its future or a thread will enqueue it, or a      *)
(* pause holds it, whose end enqueues it.                                  *)
Woken(d) ==
    \/ d \in isEnqueued \/ armed[d] > 0
    \/ \E t \in Threads : Waking(t, d)
    \/ pauseRequested /\ d \notin hasBlockingFuture

(* An enqueued driver has a closure in the executor.                       *)
QueueInv == \A d \in Drivers : d \in isEnqueued /\ d \notin closed => queue[d] > 0

(* No thread is in the task when a pause that did not fail ends.           *)
QuietInv == rpc = "resume" /\ ~reclaimFailed /\ Running => numThreads = 0

(* A driver is blocked when it goes off thread, not while it runs, and its *)
(* future has a callback or is about to get one.                           *)
BlockInv ==
    /\ phase # "started" => hasBlockingFuture = {}
    /\ Live => \A d \in slots \ onThread : d \in hasBlockingFuture => Armed(d)
    /\ \A t \in Threads : pc[t] \in {"run", "suspended"} =>
          cur[t] \notin hasBlockingFuture
    /\ \A t \in Threads : pc[t] = "leave" /\ cur[t] \in slots =>
          stop[t] = "kBlock" \/ cur[t] \notin hasBlockingFuture

(* A thread goes off its driver to block, to yield or because of a pause   *)
(* that still holds, and will be woken.                                    *)
WakeInv ==
    Unharmed =>
        /\ \A t \in Threads : pc[t] = "leave" /\ cur[t] \in slots =>
              stop[t] \in {"kBlock", "kYield"} \/ pauseRequested
        /\ \A d \in slots \ onThread : Woken(d)

-----------------------------------------------------------------------------
(* enter() takes the closure and the mark together, and a driver is marked *)
(* with a closure, unless it is closed.                                    *)
LEMMA QueueStep == ASSUME IInv, CloseInv, QueueInv, Next PROVE QueueInv'
<1>0. ThreadTypes /\ StartInv /\ queue \in [Drivers -> Nat]
  BY Zenon, TypeThreadTypes DEF IInv, TypeOK
<1> USE DEF enqVars, closeVars
<1>1. ASSUME NEW t \in Threads,
             CheckStop(t) \/ SliceExpired(t) \/ Block(t) \/ AtEnd(t) \/ Throw(t)
             \/ EnterSuspended(t) \/ EnterSuspendedThrows(t) \/ LeaveSuspended(t)
             \/ ThreadSetError(t) \/ ThreadFail(t) \/ ThreadFinish(t)
      PROVE  QueueInv'
  <2>1. UNCHANGED <<isEnqueued, queue, closed>>
    BY Zenon, <1>1 DEF CheckStop, SliceExpired, Block, AtEnd, Throw, EnterSuspended,
       EnterSuspendedThrows, LeaveSuspended, ThreadSetError, ThreadFail, ThreadFinish
  <2> QED
    BY Zenon, <2>1 DEF QueueInv
<1>2. ASSUME NEW t \in Threads,
             Close(t) \/ RemoveDriver(t) \/ Leave(t) \/ LeaveClosed(t) \/ Post(t)
             \/ SetResume(t) \/ RequeueCheck(t)
      PROVE  QueueInv'
  <2>1. UNCHANGED <<isEnqueued, queue>> /\ closed \subseteq closed'
    BY Zenon, <1>2 DEF Close, RemoveDriver, Leave, LeaveClosed, Post, SetResume, RequeueCheck
  <2> QED
    BY Zenon, <2>1 DEF QueueInv
<1>3. ASSUME NEW D, Enqueue(D), closed' = closed PROVE QueueInv'
  BY <1>0, <1>3 DEF QueueInv, Enqueue
<1>4. ASSUME NEW t \in Threads, Requeue(t) PROVE QueueInv'
  BY Zenon, <1>3, <1>4 DEF Requeue
<1>5. ASSUME NEW t \in Threads, NEW d \in Drivers, StartThread(t, d)
      PROVE  QueueInv'
  <2>1. /\ closed' = closed /\ queue' = [queue EXCEPT ![d] = @ - 1]
        /\ isEnqueued' \subseteq isEnqueued
        /\ d \in closed \/ d \notin isEnqueued'
    BY Zenon, <1>5 DEF StartThread, RunClosed, EnterRuns, EnterRefused
  <2> QED
    BY Zenon, <1>0, <2>1 DEF QueueInv
<1>6. ASSUME NEW d \in Drivers, Resumed(d) PROVE QueueInv'
  <2>1. closed' = closed /\ (UNCHANGED <<isEnqueued, queue>> \/ \E D : Enqueue(D))
    BY Zenon, <1>6 DEF Resumed
  <2> QED
    BY Zenon, <1>3, <2>1 DEF QueueInv
<1>7. ASSUME NEW d \in Drivers, FutureError(d) \/ CloseByTask(d) PROVE QueueInv'
  <2>1. UNCHANGED <<isEnqueued, queue>> /\ closed \subseteq closed'
    BY Zenon, <1>7 DEF FutureError, CloseByTask
  <2> QED
    BY Zenon, <2>1 DEF QueueInv
<1>8. CASE StartPlan \/ RequestPause \/ PauseTimeout \/ AbortRequested \/ PauseAcked
           \/ ReclaimDone \/ ReclaimThrows \/ AbortSetError
  <2>1. UNCHANGED <<isEnqueued, queue, closed>>
    BY Zenon, <1>8 DEF StartPlan, RequestPause, PauseTimeout, AbortRequested, PauseAcked,
       ReclaimDone, ReclaimThrows, AbortSetError
  <2> QED
    BY Zenon, <2>1 DEF QueueInv
<1>9. CASE SetAllOutputConsumed \/ RequestYield
  <2>1. UNCHANGED <<isEnqueued, queue, closed>>
    BY <1>9, Zenon DEF SetAllOutputConsumed, RequestYield
  <2> QED
    BY Zenon, <2>1 DEF QueueInv
<1>10. CASE StartDrivers \/ Resume
  <2>1. closed' = closed /\ (UNCHANGED <<isEnqueued, queue>> \/ \E D : Enqueue(D))
    BY Zenon, <1>10 DEF StartDrivers, Resume, ResumeRunning, ResumeTerminated
  <2> QED
    BY Zenon, <1>3, <2>1 DEF QueueInv
<1>11. CASE ReclaimFail \/ AbortFail \/ Cancel
            \/ \E s \in {"kFailed", "kFinished"} : ExtTerminate(s)
  <2>1. UNCHANGED <<isEnqueued, queue, closed>>
    BY Zenon, <1>11 DEF ReclaimFail, AbortFail, Cancel, ExtTerminate
  <2> QED
    BY Zenon, <2>1 DEF QueueInv
<1> QED
  BY <1>1, <1>2, <1>4, <1>5, <1>6, <1>7, <1>8, <1>9, <1>10, <1>11
  DEF Next, ThreadStep, ReclaimStep

-----------------------------------------------------------------------------
(* Terminated tasks keep their state: terminate() changes it once.         *)
LEMMA TerminateEnds ==
    ASSUME NEW s \in {"kFinished", "kCanceled", "kFailed"}, NEW a, Terminate(s, a)
    PROVE  /\ ~Running'
           /\ slots' \subseteq slots /\ onThread \subseteq onThread'
  BY Zenon DEF Terminate, Running, stateVars, onVars, Detach

(* While a pause that did not fail holds, no thread comes into the task.   *)
LEMMA QuietStep == ASSUME IInv, QuietInv, Next PROVE QuietInv'
<1> SUFFICES ASSUME rpc' = "resume", ~reclaimFailed', Running' PROVE numThreads' = 0
  BY Zenon DEF QuietInv
<1>0. ThreadTypes /\ ThreadInv /\ PauseInv /\ ThreadCount
  BY Zenon, TypeThreadTypes DEF IInv
<1> USE DEF reclaimVars, stateVars, numVars, Running
<1>1. ASSUME NEW t \in Threads,
             CheckStop(t) \/ SliceExpired(t) \/ Block(t) \/ AtEnd(t) \/ Throw(t)
             \/ EnterSuspendedThrows(t) \/ ThreadSetError(t)
             \/ Close(t) \/ RemoveDriver(t) \/ Post(t) \/ SetResume(t)
             \/ RequeueCheck(t) \/ Requeue(t)
      PROVE  numThreads' = 0
  <2>1. UNCHANGED <<rpc, reclaimFailed, state, numThreads>>
    BY Zenon, <1>1 DEF CheckStop, SliceExpired, Block, AtEnd, Throw, EnterSuspendedThrows,
       ThreadSetError, Close, RemoveDriver, Post, SetResume, RequeueCheck, Requeue
  <2> QED
    BY Zenon, <2>1 DEF QuietInv
<1>2. ASSUME NEW t \in Threads, ThreadFail(t) \/ ThreadFinish(t) PROVE FALSE
  BY Zenon, <1>2, TerminateEnds DEF ThreadFail, ThreadFinish
<1>3. ASSUME NEW t \in Threads, EnterSuspended(t) PROVE numThreads' = 0
  <2>1. UNCHANGED <<rpc, reclaimFailed, state>>
    BY Zenon, <1>3 DEF EnterSuspended
  <2>2. numThreads = 0
    BY Zenon, <2>1 DEF QuietInv
  <2>3. pc[t] = "suspended"
    BY <1>0, <1>3, <2>2, CountedPositive DEF EnterSuspended, Counted, CountedPcs
  <2>4. ~Outermost(cur[t], 0)
    BY <1>0, <2>3 DEF Outermost, ThreadInv, OnDriver
  <2> QED
    BY Zenon, <1>3, <2>2, <2>4 DEF EnterSuspended
<1>4. ASSUME NEW t \in Threads, LeaveSuspended(t) PROVE numThreads' = 0
  <2>1. UNCHANGED <<rpc, reclaimFailed, state>>
    BY Zenon, <1>4 DEF LeaveSuspended
  <2>2. numThreads = 0 /\ pauseRequested
    BY Zenon, <1>0, <2>1 DEF QuietInv, PauseInv
  <2>3. ~Outermost(cur[t], 1)
    BY <1>4, <2>2 DEF LeaveSuspended, Outermost
  <2> QED
    BY Zenon, <1>4, <2>2, <2>3 DEF LeaveSuspended
<1>5. ASSUME NEW t \in Threads, Leave(t) \/ LeaveClosed(t) PROVE numThreads' = 0
  <2>1. UNCHANGED <<rpc, reclaimFailed, state>> /\ Counted(t)
    BY Zenon, <1>5 DEF Leave, LeaveClosed, Counted, CountedPcs
  <2> QED
    BY <1>0, <2>1, CountedPositive DEF QuietInv
<1>6. ASSUME NEW t \in Threads, NEW d \in Drivers, StartThread(t, d)
      PROVE  numThreads' = 0
  <2>1. UNCHANGED <<rpc, reclaimFailed, state>>
    BY Zenon, <1>6 DEF StartThread, RunClosed, EnterRuns, EnterRefused
  <2>2. numThreads = 0 /\ pauseRequested
    BY Zenon, <1>0, <2>1 DEF QuietInv, PauseInv
  <2>3. numThreads' = numThreads
    BY Zenon, <1>6, <2>2 DEF StartThread, RunClosed, EnterRuns, EnterRefused, ShouldStop
  <2> QED
    BY Zenon, <2>2, <2>3
<1>7. ASSUME NEW d \in Drivers, Resumed(d) \/ FutureError(d) \/ CloseByTask(d)
      PROVE  numThreads' = 0
  <2>1. UNCHANGED <<rpc, reclaimFailed, state, numThreads>>
    BY Zenon, <1>7 DEF Resumed, FutureError, CloseByTask
  <2> QED
    BY Zenon, <2>1 DEF QuietInv
<1>8. CASE StartPlan \/ StartDrivers
  <2>1. UNCHANGED <<rpc, reclaimFailed, state, numThreads>>
    BY Zenon, <1>8 DEF StartPlan, StartDrivers
  <2> QED
    BY Zenon, <2>1 DEF QuietInv
<1>9. CASE SetAllOutputConsumed \/ RequestYield
  <2>1. UNCHANGED <<rpc, reclaimFailed, state, numThreads>>
    BY <1>9, Zenon DEF SetAllOutputConsumed, RequestYield
  <2> QED
    BY Zenon, <2>1 DEF QuietInv
<1>10. CASE RequestPause \/ AbortRequested \/ AbortSetError \/ Resume
  BY Zenon, <1>10 DEF RequestPause, AbortRequested, AbortSetError, Resume
<1>11. CASE PauseTimeout \/ ReclaimThrows
  BY Zenon, <1>11 DEF PauseTimeout, ReclaimThrows
<1>12. CASE PauseAcked
  BY Zenon, <1>0, <1>12 DEF PauseAcked, TerminateRequested
<1>13. CASE ReclaimDone
  BY Zenon, <1>0, <1>13 DEF ReclaimDone, PauseInv
<1>14. CASE ReclaimFail \/ AbortFail \/ Cancel
            \/ \E s \in {"kFailed", "kFinished"} : ExtTerminate(s)
  BY Zenon, <1>14, TerminateEnds DEF ReclaimFail, AbortFail, Cancel, ExtTerminate
<1> QED
  BY <1>1, <1>2, <1>3, <1>4, <1>5, <1>6, <1>7, <1>8, <1>9, <1>10, <1>11, <1>12,
     <1>13, <1>14
  DEF Next, ThreadStep, ReclaimStep

-----------------------------------------------------------------------------
(* A thread that executes its driver.                                      *)
Settled == {"run", "suspended"}

(* Steps that take no driver off its thread, take no wake-up away and let  *)
(* nobody into the operator loop or out of it towards leave().             *)
LEMMA WakeFrame ==
    ASSUME BlockInv, WakeInv, phase' = phase,
           Live' => Live, reclaimFailed => reclaimFailed',
           pauseRequested => pauseRequested',
           slots' \subseteq slots, onThread \subseteq onThread',
           hasBlockingFuture' = hasBlockingFuture, isEnqueued \subseteq isEnqueued',
           armed' = armed,
           \A t \in Threads : pc[t] \in PostPcs =>
                pc'[t] = pc[t] /\ cur'[t] = cur[t] /\ stop'[t] = stop[t],
           \A t \in Threads : pc'[t] \in Settled =>
                pc[t] \in Settled /\ cur'[t] = cur[t],
           \A t \in Threads : pc'[t] = "leave" =>
                \/ cur'[t] \notin slots'
                \/ pc[t] = "leave" /\ cur'[t] = cur[t] /\ stop'[t] = stop[t]
    PROVE  BlockInv' /\ WakeInv'
<1>1. \A t \in Threads, d \in slots :
          (Arming(t, d) => Arming(t, d)') /\ (Waking(t, d) => Waking(t, d)')
  BY Zenon DEF Arming, Waking, PostPcs
<1>2. \A d \in slots : (Armed(d) => Armed(d)') /\ (Woken(d) => Woken(d)')
  BY Zenon, <1>1 DEF Armed, Woken
<1>3. BlockInv'
  BY Zenon, <1>2 DEF BlockInv, Settled
<1>4. WakeInv'
  BY Zenon, <1>2 DEF WakeInv, Unharmed
<1> QED
  BY Zenon, <1>3, <1>4

(* A thread takes no step but t.                                           *)
Alone(t) ==
    \A u \in Threads \ {t} :
        pc'[u] = pc[u] /\ cur'[u] = cur[u] /\ stop'[u] = stop[u]

(* The thread of a driver decides to go off thread: the reason it saw is   *)
(* still there when it does.                                               *)
LEMMA StopKeepsWake ==
    ASSUME IInv, BlockInv, WakeInv, NEW t \in Threads,
           CheckStop(t) \/ SliceExpired(t) \/ Block(t)
    PROVE  BlockInv' /\ WakeInv'
<1>0. ThreadTypes /\ ThreadInv /\ StartInv /\ stop \in [Threads -> StopReasons]
  BY Zenon, TypeThreadTypes DEF IInv, TypeOK
<1> USE DEF onVars, startVars, stateVars, flagVars, enqVars, futureVars, reclaimVars
<1>1. /\ UNCHANGED <<phase, slots, onThread, isEnqueued, armed, pauseRequested, cur>>
      /\ UNCHANGED <<state, exception, reclaimFailed>>
      /\ pc[t] = "run" /\ pc'[t] = "leave" /\ Alone(t)
  BY Zenon, <1>0 DEF CheckStop, SliceExpired, Block, Goto, ThreadTypes, Alone
<1>2. OnDriver(t) /\ cur[t] \in onThread /\ phase = "started"
  BY Zenon, <1>0, <1>1 DEF ThreadInv, OnDriver, Counted, CountedPcs, StartInv
<1>3. \A u \in Threads \ {t} : pc[u] \in {"run", "suspended", "leave"} => cur[u] # cur[t]
  BY Zenon, <1>0, <1>2 DEF ThreadInv, OnDriver, Counted, CountedPcs
<1>4. \/ hasBlockingFuture' = hasBlockingFuture
      \/ hasBlockingFuture' = hasBlockingFuture \cup {cur[t]} /\ stop'[t] = "kBlock"
  BY Zenon, <1>0 DEF CheckStop, SliceExpired, Block
<1>5. cur[t] \notin hasBlockingFuture
  BY Zenon, <1>1 DEF BlockInv
<1>6. \A u \in Threads, d \in Drivers :
          (Arming(u, d) => Arming(u, d)') /\ (Waking(u, d) => Waking(u, d)')
  BY Zenon, <1>1 DEF Arming, Waking, Alone
<1>7. \A d \in slots \ onThread : (Armed(d) => Armed(d)') /\ (Woken(d) => Woken(d)')
  BY Zenon, <1>0, <1>1, <1>2, <1>4, <1>6 DEF Armed, Woken, ThreadTypes
<1>8. BlockInv'
  <2>1. Live' => \A d \in slots' \ onThread' : d \in hasBlockingFuture' => Armed(d)'
    BY Zenon, <1>1, <1>2, <1>4, <1>7 DEF BlockInv, Live, Running
  <2>2. \A u \in Threads : pc'[u] \in {"run", "suspended"} => cur'[u] \notin hasBlockingFuture'
    BY Zenon, <1>1, <1>3, <1>4 DEF BlockInv, Alone
  <2>3. \A u \in Threads : pc'[u] = "leave" /\ cur'[u] \in slots' =>
            stop'[u] = "kBlock" \/ cur'[u] \notin hasBlockingFuture'
    BY Zenon, <1>1, <1>3, <1>4, <1>5 DEF BlockInv, Alone
  <2> QED
    BY Zenon, <1>1, <1>2, <2>1, <2>2, <2>3 DEF BlockInv
<1>9. WakeInv'
  <2>1. Unharmed' => Unharmed
    BY Zenon, <1>1 DEF Unharmed, Live, Running
  <2>2. Unharmed => stop'[t] \in {"kBlock", "kYield"} \/ pauseRequested
    BY Zenon, <1>0 DEF CheckStop, SliceExpired, Block, ShouldStop, TerminateRequested,
                Unharmed, Live
  <2> QED
    BY Zenon, <1>1, <1>7, <2>1, <2>2 DEF WakeInv, Alone
<1> QED
  BY Zenon, <1>8, <1>9

(* leave() takes the driver off thread: a pause holds it, or the thread    *)
(* goes on to wake it.                                                     *)
LEMMA LeaveKeepsWake ==
    ASSUME IInv, LeaveInv, BlockInv, WakeInv, NEW t \in Threads,
           Leave(t) \/ LeaveClosed(t)
    PROVE  BlockInv' /\ WakeInv'
<1>0. ThreadTypes /\ ThreadInv
  BY Zenon, TypeThreadTypes DEF IInv
<1> USE DEF onVars, startVars, stateVars, flagVars, enqVars, futureVars, reclaimVars
<1>1. /\ UNCHANGED <<phase, slots, isEnqueued, armed, hasBlockingFuture, cur, stop>>
      /\ UNCHANGED <<pauseRequested, state, exception, reclaimFailed>>
      /\ pc[t] \in {"leave", "leaveNull", "leave2"} /\ Alone(t)
      /\ \/ onThread' = onThread /\ pc'[t] = "error"
         \/ onThread' = onThread \ {cur[t]} /\ pc'[t] = "post"
  BY Zenon, <1>0 DEF Leave, LeaveClosed, GoOffThread, Goto, ThreadTypes, Alone
<1>2. cur[t] \in slots => pc[t] = "leave"
  BY Zenon, <1>1 DEF LeaveInv
<1>3. \A u \in Threads, d \in Drivers :
          (Arming(u, d) => Arming(u, d)') /\ (Waking(u, d) => Waking(u, d)')
  BY Zenon, <1>1 DEF Arming, Waking, Alone
<1>4. \A d \in Drivers : (Armed(d) => Armed(d)') /\ (Woken(d) => Woken(d)')
  BY Zenon, <1>1, <1>3 DEF Armed, Woken
<1>5. Unharmed' = Unharmed /\ Live' = Live
  BY Zenon, <1>1 DEF Unharmed, Live, Running
<1>6. BlockInv'
  <2>1. cur[t] \in slots /\ cur[t] \in hasBlockingFuture /\ pc'[t] = "post" =>
            Armed(cur[t])'
    BY Zenon, <1>1, <1>2 DEF BlockInv, Armed, Arming
  <2>2. Live' => \A d \in slots' \ onThread' : d \in hasBlockingFuture' => Armed(d)'
    BY Zenon, <1>0, <1>1, <1>4, <1>5, <2>1 DEF BlockInv, ThreadTypes
  <2> QED
    BY Zenon, <1>1, <2>2 DEF BlockInv, Alone
<1>7. WakeInv'
  <2>1. Unharmed /\ cur[t] \in slots /\ pc'[t] = "post" => Woken(cur[t])'
    BY <1>1, <1>2 DEF WakeInv, BlockInv, Woken, Waking, Arming
  <2>2. Unharmed' => \A d \in slots' \ onThread' : Woken(d)'
    BY Zenon, <1>0, <1>1, <1>4, <1>5, <2>1 DEF WakeInv, ThreadTypes
  <2> QED
    BY Zenon, <1>1, <1>5, <2>2 DEF WakeInv, Alone
<1> QED
  BY Zenon, <1>6, <1>7

(* Driver::run after runInternal wakes the driver that blocked or yielded, *)
(* or finds that somebody else did.                                        *)
LEMMA PostKeepsWake ==
    ASSUME IInv, BlockInv, WakeInv, NEW t \in Threads,
           Post(t) \/ SetResume(t) \/ RequeueCheck(t) \/ Requeue(t)
    PROVE  BlockInv' /\ WakeInv'
<1>0. ThreadTypes /\ armed \in [Drivers -> Nat] /\ stop \in [Threads -> StopReasons]
  BY Zenon, TypeThreadTypes DEF IInv, TypeOK
<1> USE DEF onVars, startVars, stateVars, flagVars, enqVars, futureVars, reclaimVars
<1>1. /\ UNCHANGED <<phase, slots, onThread, hasBlockingFuture, pauseRequested>>
      /\ UNCHANGED <<state, exception, reclaimFailed>>
      /\ pc[t] \in PostPcs /\ pc'[t] \notin {"run", "suspended", "leave"} /\ Alone(t)
  BY Zenon, <1>0 DEF Post, SetResume, RequeueCheck, Requeue, Idle, Goto, ThreadTypes,
     PostPcs, Alone
<1>2. Unharmed' = Unharmed /\ Live' = Live
  BY Zenon, <1>1 DEF Unharmed, Live, Running
<1>3. \A u \in Threads \ {t}, d \in Drivers :
          (Arming(u, d) => Arming(u, d)') /\ (Waking(u, d) => Waking(u, d)')
  BY Zenon, <1>1 DEF Arming, Waking, Alone
<1>4. Live => \A d \in slots \ onThread :
                  (Armed(d) => Armed(d)') /\ (Woken(d) => Woken(d)')
  <2>1. CASE Post(t)
    <3>1. isEnqueued' = isEnqueued /\ armed' = armed
      BY Zenon, <2>1 DEF Post
    <3>2. Live => \A d \in Drivers :
              (Arming(t, d) => Arming(t, d)') /\ (Waking(t, d) => Waking(t, d)')
      BY Zenon, <1>0, <2>1 DEF Post, Arming, Waking, Goto, ThreadTypes, ShouldStop,
         TerminateRequested, Live
    <3> QED
      BY Zenon, <1>0, <1>1, <1>3, <3>1, <3>2 DEF Armed, Woken, ThreadTypes
  <2>2. CASE SetResume(t)
    <3>1. isEnqueued' = isEnqueued
      BY Zenon, <2>2 DEF SetResume
    <3>2. \A d \in Drivers : armed[d] > 0 => armed'[d] > 0
      BY <1>0, <2>2 DEF SetResume
    <3>3. cur[t] \notin onThread => armed'[cur[t]] > 0
      BY <1>0, <2>2 DEF SetResume, ThreadTypes
    <3>4. \A d \in slots \ onThread : Arming(t, d) \/ Waking(t, d) => armed'[d] > 0
      BY Zenon, <3>3 DEF Arming, Waking
    <3> QED
      BY Zenon, <1>0, <1>1, <1>3, <3>1, <3>2, <3>4 DEF Armed, Woken, ThreadTypes
  <2>3. CASE RequeueCheck(t) \/ Requeue(t)
    <3>1. armed' = armed /\ isEnqueued \subseteq isEnqueued'
      BY Zenon, <2>3 DEF RequeueCheck, Requeue, Enqueue
    <3>2. \A d \in Drivers : ~Arming(t, d)
      BY Zenon, <2>3 DEF RequeueCheck, Requeue, Arming
    <3>3. \A d \in Drivers : Waking(t, d) => Waking(t, d)' \/ d \in isEnqueued'
      BY Zenon, <1>0, <2>3 DEF RequeueCheck, Requeue, Enqueue, Waking, Arming, Goto, ThreadTypes
    <3> QED
      BY Zenon, <1>0, <1>1, <1>3, <3>1, <3>2, <3>3 DEF Armed, Woken, ThreadTypes
  <2> QED
    BY Zenon, <2>1, <2>2, <2>3
<1>5. BlockInv'
  BY Zenon, <1>1, <1>2, <1>4 DEF BlockInv, Alone
<1>6. WakeInv'
  BY Zenon, <1>1, <1>2, <1>4 DEF WakeInv, Unharmed, Alone
<1> QED
  BY Zenon, <1>5, <1>6

(* enter() consumes the mark of a driver: it lets the driver run, the      *)
(* thread yields for it, or the task is paused or terminated.              *)
LEMMA EnterKeepsWake ==
    ASSUME IInv, LeaveInv, BlockInv, WakeInv, NEW t \in Threads, NEW d \in Drivers,
           EnterRuns(t, d) \/ EnterRefused(t, d)
    PROVE  BlockInv' /\ WakeInv'
<1>0. ThreadTypes /\ ThreadInv /\ StartInv /\ stop \in [Threads -> StopReasons]
  BY Zenon, TypeThreadTypes DEF IInv, TypeOK
<1> USE DEF onVars, startVars, stateVars, flagVars, enqVars, futureVars, reclaimVars,
            threadVars
<1>1. /\ UNCHANGED <<phase, slots, armed, pauseRequested, state, exception, reclaimFailed>>
      /\ isEnqueued' = isEnqueued \ {d}
      /\ onThread \subseteq onThread' /\ onThread' \subseteq onThread \cup {d}
      /\ hasBlockingFuture' \subseteq hasBlockingFuture
      /\ pc[t] = "idle" /\ pc'[t] # "leave" /\ Alone(t)
  BY Zenon, <1>0 DEF EnterRuns, EnterRefused, Goto, ThreadTypes, Alone
<1>2. Unharmed' = Unharmed /\ Live' = Live
  BY Zenon, <1>1 DEF Unharmed, Live, Running
<1>3. \A u \in Threads, e \in Drivers :
          (Arming(u, e) => Arming(u, e)') /\ (Waking(u, e) => Waking(u, e)')
  BY Zenon, <1>1 DEF Arming, Waking, Alone
<1>4. \A e \in slots : Armed(e) => Armed(e)'
  BY Zenon, <1>0, <1>1, <1>3 DEF Armed, ThreadTypes
<1>5. \A e \in slots : e # d => (Woken(e) => Woken(e)')
  BY Zenon, <1>0, <1>1, <1>3 DEF Woken, ThreadTypes
<1>6. BlockInv'
  <2>1. pc'[t] \in {"run", "suspended"} => cur'[t] \notin hasBlockingFuture'
    BY Zenon, <1>0 DEF EnterRuns, EnterRefused, Goto, ThreadTypes
  <2>2. \A u \in Threads : pc'[u] \in {"run", "suspended"} => cur'[u] \notin hasBlockingFuture'
    BY Zenon, <1>1, <2>1 DEF BlockInv, Alone
  <2>3. Live' => \A e \in slots' \ onThread' : e \in hasBlockingFuture' => Armed(e)'
    BY Zenon, <1>1, <1>2, <1>4 DEF BlockInv
  <2> QED
    BY Zenon, <1>1, <2>2, <2>3 DEF BlockInv, Alone
<1>7. WakeInv'
  <2>1. ASSUME Unharmed, d \in slots, d \notin onThread' PROVE Woken(d)'
    <3>1. EnterRefused(t, d) /\ d \notin onThread
      BY Zenon, <1>1, <2>1 DEF EnterRuns
    <3>2. CASE d \notin isEnqueued
      BY Zenon, <1>1, <1>3, <2>1, <3>1, <3>2 DEF WakeInv, Woken
    <3>3. CASE d \in isEnqueued
      <4>1. d \notin isTerminated
        BY Zenon, <2>1, <3>1 DEF LeaveInv
      <4>2. ShouldStop # "kNone" /\ ShouldStop # "kTerminate"
        BY Zenon, <2>1, <3>1, <3>3, <4>1 DEF EnterRefused, ShouldStop, TerminateRequested,
           Unharmed, Live
      <4>3. CASE ShouldStop = "kYield"
        <5>1. Waking(t, d)'
          BY Zenon, <1>0, <3>1, <3>3, <4>1, <4>3 DEF EnterRefused, Goto, Waking, ThreadTypes
        <5> QED
          BY Zenon, <5>1 DEF Woken
      <4>4. CASE ShouldStop # "kYield"
        <5>1. pauseRequested
          BY Zenon, <4>2, <4>4 DEF ShouldStop
        <5>2. d \in hasBlockingFuture => Armed(d)
          BY Zenon, <2>1, <3>1 DEF BlockInv, Unharmed
        <5>3. Armed(d) => Woken(d)'
          BY Zenon, <1>1, <1>3 DEF Armed, Woken, Waking
        <5> QED
          BY Zenon, <1>1, <5>1, <5>2, <5>3 DEF Woken
      <4> QED
        BY Zenon, <4>3, <4>4
    <3> QED
      BY Zenon, <3>2, <3>3
  <2>2. Unharmed' => \A e \in slots' \ onThread' : Woken(e)'
    BY Zenon, <1>1, <1>2, <1>5, <2>1 DEF WakeInv
  <2> QED
    BY Zenon, <1>1, <1>2, <2>2 DEF WakeInv, Alone
<1> QED
  BY Zenon, <1>6, <1>7

(* The callback of a future enqueues the driver, leaves it to the end of   *)
(* the pause or fails the task.                                            *)
LEMMA CallbackKeepsWake ==
    ASSUME IInv, BlockInv, WakeInv, NEW d \in Drivers, Resumed(d) \/ FutureError(d)
    PROVE  BlockInv' /\ WakeInv'
<1>0. ThreadTypes /\ StartInv /\ armed \in [Drivers -> Nat]
  BY Zenon, TypeThreadTypes DEF IInv, TypeOK
<1> USE DEF onVars, startVars, stateVars, flagVars, enqVars, futureVars, reclaimVars,
            threadVars
<1>1. /\ UNCHANGED <<phase, slots, onThread, pauseRequested, state, reclaimFailed>>
      /\ UNCHANGED <<pc, cur, stop>>
      /\ hasBlockingFuture' \subseteq hasBlockingFuture
      /\ isEnqueued \subseteq isEnqueued'
      /\ armed' = [armed EXCEPT ![d] = @ - 1]
  BY Zenon DEF Resumed, FutureError, Enqueue
<1>2. Live' => /\ Live
               /\ d \notin hasBlockingFuture'
               /\ d \in isEnqueued' \/ pauseRequested
  BY Zenon DEF Resumed, FutureError, CallbackFails, SetError, Enqueue, Live, Running
<1>3. \A e \in Drivers \ {d} : (Armed(e) => Armed(e)') /\ (Woken(e) => Woken(e)')
  BY Zenon, <1>0, <1>1 DEF Armed, Woken, Arming, Waking
<1>4. Live' => Woken(d)'
  BY Zenon, <1>1, <1>2 DEF Woken
<1>5. BlockInv'
  <2>1. Live' => \A e \in slots' \ onThread' : e \in hasBlockingFuture' => Armed(e)'
    BY Zenon, <1>0, <1>1, <1>2, <1>3 DEF BlockInv, ThreadTypes
  <2> QED
    BY Zenon, <1>1, <2>1 DEF BlockInv
<1>6. WakeInv'
  BY Zenon, <1>0, <1>1, <1>2, <1>3, <1>4 DEF WakeInv, Unharmed, ThreadTypes
<1> QED
  BY Zenon, <1>5, <1>6

(* When a pause that did not fail ends, every driver is off thread or      *)
(* suspended, so that resume() enqueues all those that nothing else wakes. *)
LEMMA ResumeKeepsWake ==
    ASSUME IInv, LeaveInv, QuietInv, BlockInv, WakeInv, Resume
    PROVE  BlockInv' /\ WakeInv'
<1>0. ThreadTypes /\ ThreadInv /\ ThreadCount /\ DetachInv
  BY Zenon, TypeThreadTypes DEF IInv
<1> USE DEF onVars, startVars, stateVars, futureVars, threadVars
<1>1. /\ UNCHANGED <<phase, armed, hasBlockingFuture, state, exception, reclaimFailed>>
      /\ UNCHANGED <<pc, cur, stop>>
      /\ slots' \subseteq slots /\ onThread \subseteq onThread'
  BY Zenon DEF Resume, ResumeRunning, ResumeTerminated, Detach
<1>2. Unharmed' = Unharmed /\ Live' = Live
  BY Zenon, <1>1 DEF Unharmed, Live, Running
<1>3. \A d \in Drivers : Armed(d) => Armed(d)'
  BY Zenon, <1>1 DEF Armed, Arming
<1>4. BlockInv'
  BY Zenon, <1>0, <1>1, <1>2, <1>3 DEF BlockInv, ThreadTypes
<1>5. ASSUME Unharmed PROVE WakeInv'
  <2>1. UNCHANGED <<slots, onThread, isTerminated>> /\ isEnqueued' = isEnqueued \cup ResumedDrivers
    BY Zenon, <1>5 DEF Resume, ResumeRunning, Enqueue, Unharmed, Live
  <2>2. numThreads = 0
    BY Zenon, <1>5 DEF Resume, QuietInv, Unharmed, Live
  <2>3. \A t \in Threads : ~Counted(t)
    BY <1>0, <2>2, CountedPositive DEF ThreadTypes
  <2>4. \A d \in slots : d \in onThread => numSuspensions[d] > 0
    <3> SUFFICES ASSUME NEW d \in slots, d \in onThread PROVE numSuspensions[d] > 0
      BY Zenon
    <3>1. PICK t \in Threads : OnDriver(t) /\ cur[t] = d
      BY Zenon, <1>0 DEF DetachInv
    <3>2. pc[t] = "suspended"
      BY Zenon, <2>3, <3>1 DEF OnDriver
    <3> QED
      BY Zenon, <1>0, <3>1, <3>2 DEF ThreadInv
  <2>5. BadDrivers = {}
    BY <1>0, <2>4 DEF BadDrivers, NotWaiting, LeaveInv, ThreadTypes
  <2>6. \A d \in slots \ onThread :
            d \in isEnqueued \/ d \in hasBlockingFuture \/ d \in ResumedDrivers
    BY Zenon, <1>0, <2>5 DEF ResumedDrivers, NotWaiting, ThreadInv, ThreadTypes
  <2>7. \A d \in slots \ onThread : d \in hasBlockingFuture => Armed(d)
    BY Zenon, <1>5 DEF BlockInv, Unharmed
  <2>8. \A d \in slots \ onThread : Woken(d)'
    BY <1>1, <2>1, <2>6, <2>7 DEF Woken, Armed, Waking, Arming
  <2>9. \A t \in Threads : pc'[t] # "leave"
    BY Zenon, <1>1, <2>3 DEF Counted, CountedPcs
  <2> QED
    BY Zenon, <2>1, <2>8, <2>9 DEF WakeInv
<1> QED
  BY Zenon, <1>2, <1>4, <1>5 DEF WakeInv

(* One step per action: the ones above, and those that WakeFrame covers.   *)
LEMMA WakeStep ==
    ASSUME IInv, CloseInv, LeaveInv, QuietInv, BlockInv, WakeInv, Next
    PROVE  BlockInv' /\ WakeInv'
<1>0. ThreadTypes /\ ThreadInv /\ StartInv /\ stop \in [Threads -> StopReasons]
  BY Zenon, TypeThreadTypes DEF IInv, TypeOK
<1> DEFINE Kept ==
      /\ phase' = phase /\ hasBlockingFuture' = hasBlockingFuture
      /\ armed' = armed /\ isEnqueued' = isEnqueued
      /\ reclaimFailed => reclaimFailed'
      /\ pauseRequested => pauseRequested'
      /\ Live' => Live
      /\ slots' \subseteq slots /\ onThread \subseteq onThread'
<1> DEFINE Moved(t) ==
      /\ Alone(t) /\ pc[t] \notin PostPcs
      /\ pc'[t] \in Settled => pc[t] \in Settled /\ cur'[t] = cur[t]
      /\ pc'[t] = "leave" => cur'[t] \notin slots'
<1> USE DEF onVars, startVars, stateVars, flagVars, enqVars, futureVars, reclaimVars,
            threadVars
<1>1. ASSUME NEW t \in Threads, Kept, Moved(t) PROVE BlockInv' /\ WakeInv'
  BY Zenon, <1>1, WakeFrame DEF Alone
<1>2. ASSUME Kept, UNCHANGED <<pc, cur, stop>> PROVE BlockInv' /\ WakeInv'
  BY Zenon, <1>2, WakeFrame
<1>3. ASSUME NEW t \in Threads, AtEnd(t) \/ Throw(t) PROVE BlockInv' /\ WakeInv'
  <2>1. Kept
    BY <1>3 DEF AtEnd, Throw, Live, Running
  <2>2. Moved(t)
    BY Zenon, <1>0, <1>3 DEF AtEnd, Throw, ThrowTo, Goto, ThreadTypes, Alone, PostPcs, Settled
  <2> QED
    BY Zenon, <1>1, <2>1, <2>2
<1>4. ASSUME NEW t \in Threads,
             EnterSuspended(t) \/ EnterSuspendedThrows(t) \/ LeaveSuspended(t)
      PROVE  BlockInv' /\ WakeInv'
  <2>1. Kept
    <3>1. CASE EnterSuspended(t)
      BY Zenon, <3>1 DEF EnterSuspended, Live, Running
    <3>2. CASE EnterSuspendedThrows(t)
      BY Zenon, <3>2 DEF EnterSuspendedThrows, Live, Running
    <3>3. CASE LeaveSuspended(t)
      BY Zenon, <3>3 DEF LeaveSuspended, Live, Running
    <3> QED
      BY Zenon, <1>4, <3>1, <3>2, <3>3
  <2>2. Moved(t)
    BY Zenon, <1>0, <1>4 DEF EnterSuspended, EnterSuspendedThrows, LeaveSuspended, ThrowTo,
       Goto, ThreadTypes, Alone, PostPcs, Settled
  <2> QED
    BY Zenon, <1>1, <2>1, <2>2
<1>5. ASSUME NEW t \in Threads, ThreadSetError(t) PROVE BlockInv' /\ WakeInv'
  <2>1. Kept
    BY Zenon, <1>5 DEF ThreadSetError, SetError, Live, Running
  <2>2. Moved(t)
    BY Zenon, <1>0, <1>5 DEF ThreadSetError, AfterError, Goto, ThreadTypes, Alone, PostPcs, Settled
  <2> QED
    BY Zenon, <1>1, <2>1, <2>2
<1>6. ASSUME NEW t \in Threads, ThreadFail(t) \/ ThreadFinish(t)
      PROVE  BlockInv' /\ WakeInv'
  <2>1. ~Running' /\ slots' \subseteq slots /\ onThread \subseteq onThread'
    BY Zenon, <1>6, TerminateEnds DEF ThreadFail, ThreadFinish
  <2>2. Kept
    BY <1>6, <2>1 DEF ThreadFail, ThreadFinish, Live
  <2>3. pc[t] = "finish" => cur[t] \notin slots
    BY Zenon DEF LeaveInv
  <2>4. Moved(t)
    BY <1>0, <1>6, <2>1, <2>3 DEF ThreadFail, ThreadFinish, AfterError, AfterClose,
       Goto, ThreadTypes, Alone, PostPcs, Settled
  <2> QED
    BY Zenon, <1>1, <2>2, <2>4
<1>7. ASSUME NEW t \in Threads, Close(t) PROVE BlockInv' /\ WakeInv'
  <2>1. cur[t] \in closed => cur[t] \notin slots
    BY <1>0, <1>7 DEF CloseInv, ThreadInv, Close, OnDriver, Counted, CountedPcs
  <2>2. Kept
    BY Zenon, <1>7 DEF Close, Live, Running
  <2>3. Moved(t)
    BY Zenon, <1>0, <1>7, <2>1 DEF Close, AfterClose, Goto, ThreadTypes, Alone, PostPcs, Settled
  <2> QED
    BY Zenon, <1>1, <2>2, <2>3
<1>8. ASSUME NEW t \in Threads, RemoveDriver(t) PROVE BlockInv' /\ WakeInv'
  <2>1. Kept
    BY Zenon, <1>8 DEF RemoveDriver, Live, Running
  <2>2. Moved(t)
    BY Zenon, <1>0, <1>8 DEF RemoveDriver, AfterClose, Goto, ThreadTypes, Alone, PostPcs, Settled
  <2> QED
    BY Zenon, <1>1, <2>1, <2>2
<1>9. ASSUME NEW t \in Threads, NEW d \in Drivers, RunClosed(t, d)
      PROVE  BlockInv' /\ WakeInv'
  <2>1. Kept
    BY Zenon, <1>9 DEF RunClosed, Live, Running
  <2>2. Moved(t)
    BY Zenon, <1>0, <1>9 DEF RunClosed, Goto, ThreadTypes, Alone, PostPcs, Settled
  <2> QED
    BY Zenon, <1>1, <2>1, <2>2
<1>10. ASSUME NEW d \in Drivers, CloseByTask(d) PROVE BlockInv' /\ WakeInv'
  BY Zenon, <1>2, <1>10 DEF CloseByTask, Live, Running
<1>11. CASE RequestPause \/ PauseTimeout \/ AbortRequested \/ PauseAcked \/ ReclaimDone
  BY Zenon, <1>2, <1>11 DEF RequestPause, PauseTimeout, AbortRequested, PauseAcked,
     ReclaimDone, Live, Running
<1>12. CASE ReclaimThrows \/ AbortSetError
  BY Zenon, <1>2, <1>12 DEF ReclaimThrows, AbortSetError, SetError, Live, Running
<1>13. CASE SetAllOutputConsumed \/ RequestYield
  <2>1. /\ UNCHANGED <<phase, hasBlockingFuture, armed, isEnqueued, reclaimFailed>>
        /\ UNCHANGED <<pauseRequested, state, exception, slots, onThread>>
        /\ UNCHANGED <<pc, cur, stop>>
    BY <1>13, Zenon DEF SetAllOutputConsumed, RequestYield
  <2> QED
    BY Zenon, <1>2, <2>1 DEF Live, Running
<1>14. CASE ReclaimFail \/ AbortFail \/ Cancel
            \/ \E s \in {"kFailed", "kFinished"} : ExtTerminate(s)
  <2>1. ~Running' /\ slots' \subseteq slots /\ onThread \subseteq onThread'
    BY Zenon, <1>14, TerminateEnds DEF ReclaimFail, AbortFail, Cancel, ExtTerminate
  <2> QED
    BY Zenon, <1>2, <1>14, <2>1 DEF ReclaimFail, AbortFail, Cancel, ExtTerminate, Live
<1>15. CASE StartPlan \/ StartDrivers
  <2>1. /\ UNCHANGED <<armed, hasBlockingFuture, pauseRequested, state, exception>>
        /\ UNCHANGED <<reclaimFailed, onThread, pc, cur, stop>>
        /\ phase # "started"
    BY Zenon, <1>15 DEF StartPlan, StartDrivers
  <2>2. hasBlockingFuture = {} /\ \A t \in Threads : pc[t] = "idle"
    BY Zenon, <1>0, <2>1 DEF BlockInv, StartInv
  <2>3. slots' = {} \/ ~Live' \/ slots' \subseteq isEnqueued'
    BY Zenon, <1>0, <1>15, <2>1 DEF StartPlan, StartDrivers, Enqueue, StartInv, Live, Running
  <2> QED
    BY Zenon, <2>1, <2>2, <2>3 DEF BlockInv, WakeInv, Unharmed, Woken
<1> HIDE DEF Kept, Moved
<1> QED
  BY Zenon, <1>3, <1>4, <1>5, <1>6, <1>7, <1>8, <1>9, <1>10, <1>11, <1>12, <1>13, <1>14,
     <1>15, StopKeepsWake, LeaveKeepsWake, PostKeepsWake, EnterKeepsWake,
     CallbackKeepsWake, ResumeKeepsWake
  DEF Next, ThreadStep, StartThread, ReclaimStep

-----------------------------------------------------------------------------
(* Everything the step of the next theorem needs.                          *)
WakeupInv ==
    /\ CloseInv /\ LeaveInv /\ FreshInv
    /\ QueueInv /\ QuietInv /\ BlockInv /\ WakeInv

(* The created task waits for nothing.                                     *)
LEMMA WakeupInitially == ASSUME Init PROVE WakeupInv
<1>1. CloseInv /\ LeaveInv /\ FreshInv
  BY Zenon DEF Init, CloseInv, LeaveInv, FreshInv, Running
<1>2. QueueInv /\ QuietInv /\ BlockInv /\ WakeInv
  BY Zenon DEF Init, QueueInv, QuietInv, BlockInv, WakeInv
<1> QED
  BY Zenon, <1>1, <1>2 DEF WakeupInv

(* A step that changes nothing.                                            *)
LEMMA WakeupStutter == ASSUME WakeupInv, UNCHANGED vars PROVE WakeupInv'
<1> USE DEF vars, startVars, stateVars, flagVars, numVars, onVars, enqVars, futureVars,
            closeVars, threadVars, reclaimVars
<1>1. CloseInv' /\ LeaveInv' /\ FreshInv'
  BY Zenon DEF WakeupInv, CloseInv, LeaveInv, FreshInv, Running
<1>2. QueueInv' /\ QuietInv'
  BY Zenon DEF WakeupInv, QueueInv, QuietInv, Running
<1>3. BlockInv' /\ WakeInv'
  BY Zenon, WakeFrame DEF WakeupInv, Live, Running
<1> QED
  BY Zenon, <1>1, <1>2, <1>3 DEF WakeupInv

(* A driver of a running task that is not paused waits for a thread, is on *)
(* one, or will be enqueued by its future or by a thread: no order of      *)
(* blocking, yielding, waking, pausing and resuming loses it.              *)
THEOREM NoDriverStranded == Spec => []NoStrandedDriver
<1>1. Init => WakeupInv
  BY Zenon, WakeupInitially
<1>2. IInv /\ WakeupInv /\ [Next]_vars => WakeupInv'
  <2>1. ASSUME IInv, WakeupInv, Next PROVE WakeupInv'
    BY Zenon, <2>1, CloseStep, LeaveStep, FreshStep, QueueStep, QuietStep, WakeStep
    DEF WakeupInv
  <2> QED
    BY Zenon, <2>1, WakeupStutter
<1>3. IInv /\ WakeupInv => NoStrandedDriver
  <2> SUFFICES ASSUME IInv, WakeupInv, Unharmed, ~pauseRequested, NEW d \in slots,
                      d \notin onThread
               PROVE  \/ d \in isEnqueued /\ queue[d] > 0
                      \/ armed[d] > 0
                      \/ \E t \in Threads : cur[t] = d /\ pc[t] \in PostPcs
    BY Zenon DEF NoStrandedDriver, Unharmed, Live
  <2>1. ThreadInv /\ d \in Drivers
    BY Zenon DEF IInv, TypeOK
  <2>2. d \notin closed
    BY <2>1 DEF WakeupInv, CloseInv, ThreadInv, OnDriver, Counted, CountedPcs
  <2>3. d \in isEnqueued => queue[d] > 0
    BY Zenon, <2>1, <2>2 DEF WakeupInv, QueueInv
  <2>4. d \in isEnqueued \/ armed[d] > 0 \/ \E t \in Threads : Waking(t, d)
    BY Zenon DEF WakeupInv, WakeInv, Woken
  <2> QED
    BY Zenon, <2>3, <2>4 DEF Waking, Arming, PostPcs
<1> QED
  BY <1>1, <1>2, <1>3, InductiveInvariant, PTL DEF Spec

-----------------------------------------------------------------------------
(* Thread t executes its driver, or is about to hand it to its future.     *)
Holding(t) ==
    \/ OnDriver(t) \/ pc[t] = "setResume"
    \/ pc[t] = "post" /\ stop[t] = "kBlock"

(* Nobody yields, and a thread that blocks its driver keeps it blocked     *)
(* until it has handed it to the future.                                   *)
StopAt(t) ==
    /\ stop[t] # "kYield" /\ pc[t] \notin {"requeue", "requeue2"}
    /\ pc[t] \in {"idle", "run", "suspended"} => stop[t] = "kNone"
    /\ pc[t] = "setResume" => stop[t] = "kBlock"
    /\ stop[t] = "kBlock" => Holding(t) /\ cur[t] \in hasBlockingFuture

StopInv == toYield = 0 /\ \A t \in Threads : StopAt(t)

(* A driver is in one place: in the executor's queue, in the hands of one  *)
(* thread, or with its future.                                             *)
TokenInv ==
    /\ \A d \in Drivers :
          /\ armed[d] <= 1 /\ queue[d] <= 1
          /\ queue[d] > 0 => d \in isEnqueued
          /\ armed[d] > 0 => d \in hasBlockingFuture \ isEnqueued
    /\ \A t \in Threads : Holding(t) => cur[t] \notin isEnqueued /\ armed[cur[t]] = 0
    /\ \A t, u \in Threads : Holding(t) /\ Holding(u) /\ cur[t] = cur[u] => t = u

(* The drivers of the task, and those that have left it                    *)
Known == slots \cup isTerminated \cup closed

GoneInv ==
    /\ onThread \subseteq Known
    /\ \A d \in Drivers : queue[d] > 0 \/ armed[d] > 0 => d \in Known
    /\ \A t \in Threads : pc[t] # "idle" => cur[t] \in Known
    /\ \A t \in Threads : pc[t] = "remove" => cur[t] \in closed
    /\ ~Running => slots \cap onThread \subseteq isTerminated

(* A suspended driver has a suspended thread.                              *)
SuspendInv ==
    \A d \in Drivers : numSuspensions[d] > 0 =>
        \E t \in Threads : pc[t] = "suspended" /\ cur[t] = d

NoYield == "yield" \notin Events

-----------------------------------------------------------------------------
(* What a thread does not touch of the others                              *)
Same(u) ==
    pc'[u] = pc[u] /\ cur'[u] = cur[u] /\ stop'[u] = stop[u] /\ ctx'[u] = ctx[u]

(* A step that leaves the suspended sections alone.                        *)
LEMMA HoldingFrame ==
    ASSUME NEW u, Same(u) PROVE Holding(u)' <=> Holding(u)
  BY Zenon DEF Same, Holding, OnDriver, Counted

(* Where a thread is and whom it runs.                                     *)
LEMMA ThreadsTyped ==
    ASSUME IInv
    PROVE  /\ pc \in [Threads -> Pcs] /\ ctx \in [Threads -> Contexts]
           /\ cur \in [Threads -> Drivers \cup {0}] /\ stop \in [Threads -> StopReasons]
           /\ \A t \in Threads : pc[t] # "idle" => cur[t] \in Drivers
           /\ queue \in [Drivers -> Nat] /\ armed \in [Drivers -> Nat]
  BY Zenon DEF IInv, TypeOK

(* Without yields shouldStop() reports a pause or the termination.         *)
LEMMA StopReason ==
    ASSUME StopInv
    PROVE  ShouldStop \in {"kPause", "kTerminate", "kNone"} /\ ToYieldAfter = toYield
  BY DEF StopInv, ShouldStop, ToYieldAfter

(* What a step of thread t may do: it lets go of its driver or keeps it,   *)
(* blocks it, and hands it to its future when it lets go.                  *)
Moves(t) ==
    /\ \A u \in Threads \ {t} : Same(u)
    /\ toYield' = toYield /\ UNCHANGED enqVars
    /\ Holding(t)' => Holding(t) /\ cur'[t] = cur[t]
    /\ \/ hasBlockingFuture' = hasBlockingFuture
       \/ hasBlockingFuture' = hasBlockingFuture \cup {cur[t]}
    /\ \/ armed' = armed
       \/ /\ Holding(t) /\ ~Holding(t)' /\ cur[t] \in hasBlockingFuture
          /\ armed' = [armed EXCEPT ![cur[t]] = @ + 1]
    /\ StopAt(t)'

(* Each step of a thread on its driver is one of the moves.                *)
LEMMA ThreadMoves ==
    ASSUME NoYield, IInv, StopInv, NEW t \in Threads, ThreadStep(t)
    PROVE  Moves(t)
<1>0. /\ pc \in [Threads -> Pcs] /\ ctx \in [Threads -> Contexts]
      /\ cur \in [Threads -> Drivers \cup {0}] /\ stop \in [Threads -> StopReasons]
      /\ ShouldStop \in {"kPause", "kTerminate", "kNone"} /\ ToYieldAfter = toYield
      /\ StopAt(t)
  BY Zenon, ThreadsTyped, StopReason DEF StopInv
<1> USE <1>0 DEF Moves, Same, enqVars, futureVars, threadVars, flagVars, Goto, CountedPcs,
                 ErrorPcs
<1>1. CASE CheckStop(t) \/ AtEnd(t)
  <2>1. /\ \A u \in Threads \ {t} : Same(u)
        /\ toYield' = toYield /\ UNCHANGED <<isEnqueued, queue, armed, hasBlockingFuture, cur>>
        /\ pc[t] = "run" /\ pc'[t] \in {"leave", "close"}
        /\ stop'[t] \in {"kPause", "kTerminate", "kAtEnd"}
    BY Zenon, <1>1 DEF CheckStop, AtEnd
  <2> QED
    BY Zenon, <2>1 DEF StopAt, Holding, OnDriver, Counted
<1>2. CASE Block(t)
  BY Zenon, <1>2 DEF Block, StopAt, Holding, OnDriver, Counted
<1>3. CASE Throw(t) \/ EnterSuspendedThrows(t)
  BY <1>3 DEF Throw, EnterSuspendedThrows, ThrowTo, StopAt, Holding, OnDriver, Counted
<1>4. CASE EnterSuspended(t) \/ LeaveSuspended(t)
  <2>1. /\ pc[t] \in {"run", "suspended"} /\ pc'[t] \in {"run", "suspended"}
        /\ \A u \in Threads \ {t} : pc'[u] = pc[u]
        /\ toYield' = toYield /\ UNCHANGED <<enqVars, futureVars, cur, stop, ctx>>
    BY Zenon, <1>4 DEF EnterSuspended, LeaveSuspended
  <2> QED
    BY Zenon, <2>1 DEF StopAt, Holding, OnDriver, Counted
<1>5. CASE ThreadSetError(t) \/ ThreadFail(t)
  <2>1. /\ pc[t] \in ErrorPcs
        /\ \/ pc'[t] = "error2" \/ pc'[t] = AfterError(t)
        /\ \A u \in Threads \ {t} : pc'[u] = pc[u]
        /\ UNCHANGED <<toYield, enqVars, futureVars, cur, stop, ctx>>
    BY Zenon, <1>5 DEF ThreadSetError, ThreadFail
  <2> QED
    BY Zenon, <2>1 DEF AfterError, StopAt, Holding, OnDriver, Counted
<1>6. CASE Close(t) \/ RemoveDriver(t) \/ ThreadFinish(t)
  <2>1. /\ pc[t] \in {"close", "remove", "finish"}
        /\ pc'[t] \in {"remove", "finish", AfterClose(t)}
        /\ \A u \in Threads \ {t} : pc'[u] = pc[u]
        /\ UNCHANGED <<toYield, enqVars, futureVars, cur, stop, ctx>>
    BY Zenon, <1>6 DEF Close, RemoveDriver, ThreadFinish
  <2>2. AfterClose(t) \in {"leaveNull", "leave2", "leave"}
    BY Zenon DEF AfterClose
  <2> QED
    BY Zenon, <2>1, <2>2 DEF StopAt, Holding, OnDriver, Counted
<1>7. CASE Leave(t) \/ LeaveClosed(t)
  <2>1. /\ pc[t] \in {"leave", "leaveNull", "leave2"}
        /\ pc'[t] = "post" \/ (pc'[t] = "error" /\ ctx'[t] = "cancel")
        /\ \A u \in Threads \ {t} : pc'[u] = pc[u] /\ ctx'[u] = ctx[u]
        /\ toYield' = toYield /\ UNCHANGED <<enqVars, futureVars, cur, stop>>
    BY Zenon, <1>7 DEF Leave, LeaveClosed, GoOffThread
  <2> QED
    BY Zenon, <2>1 DEF StopAt, Holding, OnDriver, Counted
<1>8. CASE Post(t)
  <2>1. toYield' = toYield /\ UNCHANGED <<enqVars, futureVars>>
    BY Zenon, <1>8 DEF Post
  <2>2. CASE Goto(t, "setResume") /\ UNCHANGED <<cur, stop, ctx>> /\ stop[t] = "kBlock"
    BY Zenon, <1>8, <2>1, <2>2 DEF Post, StopAt, Holding, OnDriver, Counted
  <2>3. CASE Idle(t)
    BY Zenon, <2>1, <2>3 DEF Idle, StopAt, Holding, OnDriver, Counted
  <2> QED
    BY Zenon, <1>8, <2>2, <2>3 DEF Post, StopAt
<1>9. CASE SetResume(t)
  <2>1. /\ toYield' = toYield /\ UNCHANGED <<enqVars, hasBlockingFuture>> /\ Idle(t)
        /\ pc[t] = "setResume"
        /\ armed' = armed \/ armed' = [armed EXCEPT ![cur[t]] = @ + 1]
    BY Zenon, <1>9 DEF SetResume
  <2> QED
    BY Zenon, <2>1 DEF Idle, StopAt, Holding, OnDriver, Counted
<1>10. ~SliceExpired(t) /\ ~RequeueCheck(t) /\ ~Requeue(t)
  BY Zenon DEF SliceExpired, RequeueCheck, Requeue, StopAt, NoYield
<1> QED
  BY Zenon, <1>1, <1>2, <1>3, <1>4, <1>5, <1>6, <1>7, <1>8, <1>9, <1>10 DEF ThreadStep

(* The moves keep the reasons to stop and the suspended sections.          *)
LEMMA MovesKeep ==
    ASSUME IInv, StopInv, TokenInv, NEW t \in Threads, Moves(t)
    PROVE  StopInv' /\ TokenInv'
<1>0. armed \in [Drivers -> Nat] /\ queue \in [Drivers -> Nat]
  BY Zenon, ThreadsTyped
<1>1. \A u \in Threads \ {t} :
         /\ pc'[u] = pc[u] /\ cur'[u] = cur[u] /\ stop'[u] = stop[u]
         /\ Holding(u)' <=> Holding(u)
  BY Zenon, HoldingFrame DEF Moves, Same
<1>2. hasBlockingFuture \subseteq hasBlockingFuture'
  BY Zenon DEF Moves
<1>3. \A u \in Threads : StopAt(u)'
  <2>1. ASSUME NEW u \in Threads \ {t} PROVE StopAt(u)'
    BY Zenon, <1>1, <1>2 DEF StopInv, StopAt
  <2> QED
    BY Zenon, <2>1 DEF Moves
<1>4. StopInv'
  BY Zenon, <1>3 DEF StopInv, Moves
<1>5. \A u \in Threads : Holding(u)' => Holding(u) /\ cur'[u] = cur[u]
  BY Zenon, <1>1 DEF Moves
<1>6. UNCHANGED <<isEnqueued, queue>>
  BY Zenon DEF Moves, enqVars
<1>7. \A d \in Drivers : queue'[d] <= 1 /\ (queue'[d] > 0 => d \in isEnqueued')
  BY Zenon, <1>6 DEF TokenInv
<1>8. \A u, v \in Threads : Holding(u)' /\ Holding(v)' /\ cur'[u] = cur'[v] => u = v
  BY Zenon, <1>5 DEF TokenInv
<1>9. /\ \A d \in Drivers : /\ armed'[d] <= 1
                            /\ armed'[d] > 0 => d \in hasBlockingFuture' \ isEnqueued'
      /\ \A u \in Threads : Holding(u)' => cur'[u] \notin isEnqueued' /\ armed'[cur'[u]] = 0
  <2>1. CASE armed' = armed
    BY Zenon, <1>2, <1>5, <1>6, <2>1 DEF TokenInv
  <2>2. CASE /\ Holding(t) /\ ~Holding(t)' /\ cur[t] \in hasBlockingFuture
             /\ armed' = [armed EXCEPT ![cur[t]] = @ + 1]
    <3>1. \A u \in Threads : Holding(u)' => cur'[u] # cur[t]
      BY Zenon, <1>5, <2>2 DEF TokenInv
    <3>2. armed[cur[t]] = 0 /\ cur[t] \notin isEnqueued
      BY Zenon, <2>2 DEF TokenInv
    <3>3. \A d \in Drivers : armed'[d] = IF d = cur[t] THEN 1 ELSE armed[d]
      BY <1>0, <2>2, <3>2
    <3>4. \A d \in Drivers : /\ armed'[d] <= 1
                             /\ armed'[d] > 0 => d \in hasBlockingFuture' \ isEnqueued'
      BY <1>2, <1>6, <2>2, <3>2, <3>3 DEF TokenInv
    <3>5. \A u \in Threads : Holding(u)' => cur'[u] \notin isEnqueued' /\ armed'[cur'[u]] = 0
      BY <1>0, <1>5, <1>6, <2>2, <3>1 DEF TokenInv
    <3> QED
      BY Zenon, <3>4, <3>5
  <2> QED
    BY Zenon, <2>1, <2>2 DEF Moves
<1> QED
  BY Zenon, <1>4, <1>7, <1>8, <1>9 DEF TokenInv

(* The queue and the futures change, and no thread does.                   *)
LEMMA TokenFrame ==
    ASSUME StopInv, TokenInv,
           UNCHANGED <<toYield, isEnqueued, queue, hasBlockingFuture, armed, pc, cur, stop, ctx>>
    PROVE  StopInv' /\ TokenInv'
  BY DEF StopInv, StopAt, TokenInv, Holding, OnDriver, Counted

(* A driver that is enqueued was not: Driver::enqueue adds one closure.    *)
LEMMA EnqueueOnce ==
    ASSUME IInv, TokenInv, NEW D \in SUBSET (Drivers \ isEnqueued), Enqueue(D)
    PROVE  /\ queue' \in [Drivers -> Nat]
           /\ \A d \in Drivers : /\ queue'[d] <= 1
                                 /\ queue'[d] > 0 => d \in isEnqueued'
<1>1. queue \in [Drivers -> Nat]
  BY Zenon, ThreadsTyped
<1> QED
  BY <1>1 DEF TokenInv, Enqueue

(* An idle thread takes a closure.                                         *)
LEMMA StartKeeps ==
    ASSUME NoYield, IInv, StopInv, TokenInv, NEW t \in Threads, NEW d \in Drivers,
           StartThread(t, d)
    PROVE  StopInv' /\ TokenInv'
<1>0. /\ pc \in [Threads -> Pcs] /\ ctx \in [Threads -> Contexts]
      /\ cur \in [Threads -> Drivers \cup {0}] /\ stop \in [Threads -> StopReasons]
      /\ ShouldStop # "kYield" /\ ToYieldAfter = toYield
      /\ queue \in [Drivers -> Nat] /\ armed \in [Drivers -> Nat]
  BY Zenon, ThreadsTyped, StopReason
<1>1. pc[t] = "idle" /\ queue[d] > 0 /\ queue' = [queue EXCEPT ![d] = @ - 1]
  BY Zenon DEF StartThread, RunClosed, EnterRuns, EnterRefused
<1>2. /\ d \in isEnqueued /\ armed[d] = 0 /\ ~Holding(t) /\ stop[t] = "kNone"
      /\ \A u \in Threads : Holding(u) => cur[u] # d
  <2>1. d \in isEnqueued /\ armed[d] = 0
    BY <1>0, <1>1 DEF TokenInv
  <2> QED
    BY Zenon, <1>1, <2>1 DEF TokenInv, StopInv, StopAt, Holding, OnDriver, Counted, CountedPcs,
       ErrorPcs
<1>3. \A e \in Drivers : queue'[e] = IF e = d THEN 0 ELSE queue[e]
  BY <1>0, <1>1 DEF TokenInv
<1>4. toYield' = toYield /\ armed' = armed
  BY Zenon, <1>0 DEF StartThread, RunClosed, EnterRuns, EnterRefused, flagVars, futureVars
<1>5. /\ \A u \in Threads \ {t} : Same(u)
      /\ isEnqueued' \subseteq isEnqueued /\ isEnqueued \ {d} \subseteq isEnqueued'
  BY Zenon, <1>0 DEF StartThread, RunClosed, EnterRuns, EnterRefused, flagVars, threadVars, Goto,
     Same
<1>6. hasBlockingFuture' \subseteq hasBlockingFuture /\ hasBlockingFuture \ {d} \subseteq hasBlockingFuture'
  BY Zenon DEF StartThread, RunClosed, EnterRuns, EnterRefused, futureVars
<1>7. StopAt(t)' /\ (Holding(t)' => cur'[t] = d /\ isEnqueued' = isEnqueued \ {d})
  <2>1. CASE RunClosed(t, d)
    BY Zenon, <1>0, <2>1 DEF RunClosed, Goto, StopAt, Holding, OnDriver, Counted, CountedPcs, ErrorPcs
  <2>2. CASE EnterRuns(t, d)
    BY Zenon, <1>0, <1>2, <2>2 DEF EnterRuns, Goto, StopAt, Holding, OnDriver, Counted, CountedPcs,
       ErrorPcs
  <2>3. CASE EnterRefused(t, d)
    <3>1. UNCHANGED threadVars
      BY Zenon, <1>0, <2>3 DEF EnterRefused
    <3> QED
      BY Zenon, <1>1, <1>2, <3>1 DEF threadVars, StopAt, Holding, OnDriver, Counted, CountedPcs,
         ErrorPcs
  <2> QED
    BY Zenon, <2>1, <2>2, <2>3 DEF StartThread
<1>8. \A u \in Threads \ {t} :
         /\ pc'[u] = pc[u] /\ cur'[u] = cur[u] /\ stop'[u] = stop[u]
         /\ Holding(u)' <=> Holding(u)
  BY Zenon, <1>5, HoldingFrame DEF Same
<1>9. ASSUME NEW u \in Threads \ {t} PROVE StopAt(u)'
  BY Zenon, <1>2, <1>6, <1>8 DEF StopInv, StopAt
<1>10. StopInv'
  BY Zenon, <1>4, <1>7, <1>9 DEF StopInv
<1>11. \A e \in Drivers :
          /\ armed'[e] <= 1 /\ queue'[e] <= 1
          /\ queue'[e] > 0 => e \in isEnqueued'
          /\ armed'[e] > 0 => e \in hasBlockingFuture' \ isEnqueued'
  BY Zenon, <1>2, <1>3, <1>4, <1>5, <1>6 DEF TokenInv
<1>12. \A u \in Threads : Holding(u)' => cur'[u] \notin isEnqueued' /\ armed'[cur'[u]] = 0
  BY <1>2, <1>4, <1>5, <1>7, <1>8 DEF TokenInv
<1>13. \A u, v \in Threads : Holding(u)' /\ Holding(v)' /\ cur'[u] = cur'[v] => u = v
  BY <1>2, <1>7, <1>8 DEF TokenInv
<1> QED
  BY Zenon, <1>10, <1>11, <1>12, <1>13 DEF TokenInv

(* The future of a driver runs its callback.                               *)
LEMMA CallbackKeeps ==
    ASSUME IInv, StopInv, TokenInv, NEW d \in Drivers, Resumed(d) \/ FutureError(d)
    PROVE  StopInv' /\ TokenInv'
<1>0. queue \in [Drivers -> Nat] /\ armed \in [Drivers -> Nat]
  BY Zenon, ThreadsTyped
<1>1. /\ armed[d] > 0 /\ armed' = [armed EXCEPT ![d] = @ - 1]
      /\ UNCHANGED <<toYield, pc, cur, stop, ctx>>
  BY Zenon DEF Resumed, FutureError, flagVars, threadVars
<1>2. \A e \in Drivers : armed'[e] = IF e = d THEN 0 ELSE armed[e]
  BY <1>0, <1>1 DEF TokenInv
<1>3. d \notin isEnqueued /\ \A u \in Threads : Holding(u) => cur[u] # d
  BY <1>0, <1>1 DEF TokenInv
<1>4. \A u \in Threads : Holding(u)' <=> Holding(u)
  BY Zenon, <1>1 DEF Holding, OnDriver, Counted
<1>5. hasBlockingFuture \ {d} \subseteq hasBlockingFuture'
  BY Zenon DEF Resumed, FutureError
<1>6. \/ UNCHANGED <<isEnqueued, queue>>
      \/ \E D \in SUBSET {d} : Enqueue(D)
  BY Zenon DEF Resumed, FutureError, enqVars
<1>7. /\ isEnqueued' \subseteq isEnqueued \cup {d}
      /\ \A e \in Drivers : queue'[e] <= 1 /\ (queue'[e] > 0 => e \in isEnqueued')
  <2>1. CASE UNCHANGED <<isEnqueued, queue>>
    BY Zenon, <2>1 DEF TokenInv
  <2>2. ASSUME NEW D \in SUBSET {d}, Enqueue(D) PROVE <1>7!2 /\ isEnqueued' = isEnqueued \cup D
    <3>1. D \in SUBSET (Drivers \ isEnqueued)
      BY Zenon, <1>3
    <3> QED
      BY Zenon, <2>2, <3>1, EnqueueOnce DEF Enqueue
  <2> QED
    BY Zenon, <1>6, <2>1, <2>2
<1>8. StopInv'
  BY Zenon, <1>1, <1>3, <1>4, <1>5 DEF StopInv, StopAt
<1>9. \A e \in Drivers : /\ armed'[e] <= 1
                         /\ armed'[e] > 0 => e \in hasBlockingFuture' \ isEnqueued'
  BY <1>2, <1>5, <1>7 DEF TokenInv
<1>10. ASSUME NEW u \in Threads, Holding(u)'
       PROVE  cur'[u] \notin isEnqueued' /\ armed'[cur'[u]] = 0
  <2>1. cur[u] \notin isEnqueued /\ armed[cur[u]] = 0 /\ cur[u] # d
    BY Zenon, <1>3, <1>4, <1>10 DEF TokenInv
  <2> QED
    BY <1>0, <1>1, <1>7, <2>1
<1>11. \A u, v \in Threads : Holding(u)' /\ Holding(v)' /\ cur'[u] = cur'[v] => u = v
  BY Zenon, <1>1, <1>4 DEF TokenInv
<1> QED
  BY Zenon, <1>7, <1>8, <1>9, <1>10, <1>11 DEF TokenInv

(* Task::start enqueues every driver, resume() those that nobody holds.    *)
LEMMA EnqueueKeeps ==
    ASSUME IInv, StopInv, TokenInv, NEW D \in SUBSET (Drivers \ isEnqueued), Enqueue(D),
           \A d \in D : armed[d] = 0, \A t \in Threads : Holding(t) => cur[t] \notin D,
           UNCHANGED <<toYield, hasBlockingFuture, armed, pc, cur, stop, ctx>>
    PROVE  StopInv' /\ TokenInv'
<1>0. armed \in [Drivers -> Nat]
  BY Zenon, ThreadsTyped
<1>1. StopInv'
  BY Zenon DEF StopInv, StopAt, Holding, OnDriver, Counted
<1>2. isEnqueued' = isEnqueued \cup D
  BY Zenon DEF Enqueue
<1>3. \A u \in Threads : Holding(u)' <=> Holding(u)
  BY Zenon DEF Holding, OnDriver, Counted
<1>4. \A d \in Drivers : /\ armed'[d] <= 1
                         /\ armed'[d] > 0 => d \in hasBlockingFuture' \ isEnqueued'
  BY <1>0, <1>2 DEF TokenInv
<1>5. \A d \in Drivers : queue'[d] <= 1 /\ (queue'[d] > 0 => d \in isEnqueued')
  BY Zenon, EnqueueOnce
<1> QED
  BY Zenon, <1>1, <1>2, <1>3, <1>4, <1>5 DEF TokenInv

(* Task::start enqueues every driver once.                                 *)
LEMMA StartDriversKeeps ==
    ASSUME IInv, StopInv, TokenInv, isEnqueued = {}, StartDrivers
    PROVE  StopInv' /\ TokenInv'
<1>1. UNCHANGED <<toYield, hasBlockingFuture, armed, pc, cur, stop, ctx>>
  BY Zenon DEF StartDrivers, flagVars, futureVars, threadVars
<1>2. CASE UNCHANGED <<isEnqueued, queue>>
  BY Zenon, <1>1, <1>2, TokenFrame
<1>3. CASE Enqueue(Drivers)
  <2>1. \A d \in Drivers : armed[d] = 0
    BY Zenon DEF StartDrivers, IInv, StartInv
  <2>2. \A t \in Threads : pc[t] = "idle"
    BY Zenon DEF StartDrivers, IInv, StartInv
  <2>3. \A t \in Threads : ~Holding(t)
    BY Zenon, <2>2 DEF Holding, OnDriver, Counted, CountedPcs, ErrorPcs
  <2>4. Drivers \in SUBSET (Drivers \ isEnqueued)
    BY Zenon
  <2> QED
    BY Zenon, <1>1, <1>3, <2>1, <2>3, <2>4, EnqueueKeeps
<1> QED
  BY Zenon, <1>2, <1>3 DEF StartDrivers, enqVars

(* resume enqueues the drivers that the pause has held back.               *)
LEMMA ResumeKeeps ==
    ASSUME IInv, StopInv, TokenInv, Resume
    PROVE  StopInv' /\ TokenInv'
<1>1. UNCHANGED <<toYield, hasBlockingFuture, armed, pc, cur, stop, ctx>>
  BY Zenon DEF Resume, futureVars, threadVars
<1>2. CASE UNCHANGED <<isEnqueued, queue>>
  BY Zenon, <1>1, <1>2, TokenFrame
<1>3. CASE Enqueue(ResumedDrivers)
  <2>0. /\ slots \subseteq Drivers /\ ThreadInv /\ armed \in [Drivers -> Nat]
        /\ onThread \subseteq Drivers
    BY Zenon DEF IInv, TypeOK
  <2>1. \A d \in ResumedDrivers : /\ d \in slots /\ d \notin isEnqueued \cup hasBlockingFuture
                                  /\ d \notin onThread
    BY <2>0 DEF ResumedDrivers, NotWaiting, BadDrivers, Drivers
  <2>2. \A d \in ResumedDrivers : armed[d] = 0
    BY <2>0, <2>1 DEF TokenInv
  <2>3. \A t \in Threads : Holding(t) => cur[t] \notin ResumedDrivers
    BY Zenon, <2>0, <2>1 DEF Holding, ThreadInv, StopInv, StopAt
  <2>4. ResumedDrivers \in SUBSET (Drivers \ isEnqueued)
    BY Zenon, <2>0, <2>1
  <2> QED
    BY <1>1, <1>3, <2>2, <2>3, <2>4, EnqueueKeeps
<1> QED
  BY Zenon, <1>2, <1>3 DEF Resume, ResumeRunning, ResumeTerminated, enqVars

(* One step per action: a driver goes from the queue to a thread, to its   *)
(* future and back, and is never in two places.                            *)
LEMMA TokenStep ==
    ASSUME NoYield, IInv, CloseInv, QueueInv, StopInv, TokenInv, Next
    PROVE  StopInv' /\ TokenInv'
<1> USE DEF flagVars, enqVars, futureVars, threadVars
<1>1. CASE \E t \in Threads : ThreadStep(t)
  BY Zenon, <1>1, ThreadMoves, MovesKeep
<1>2. CASE \E t \in Threads, d \in Drivers : StartThread(t, d)
  BY Zenon, <1>2, StartKeeps
<1>3. CASE \E d \in Drivers : Resumed(d) \/ FutureError(d)
  BY Zenon, <1>3, CallbackKeeps
<1>4. CASE StartDrivers
  <2>1. isEnqueued = {}
    BY <1>4 DEF StartDrivers, IInv, TypeOK, StartInv, CloseInv, QueueInv
  <2> QED
    BY Zenon, <1>4, <2>1, StartDriversKeeps
<1>5. CASE Resume
  BY Zenon, <1>5, ResumeKeeps
<1>6. CASE \/ StartPlan \/ RequestPause \/ PauseTimeout \/ AbortRequested \/ PauseAcked
           \/ ReclaimDone \/ ReclaimThrows \/ AbortSetError
           \/ \E d \in Drivers : CloseByTask(d)
  <2>1. UNCHANGED <<toYield, isEnqueued, queue, hasBlockingFuture, armed, pc, cur, stop, ctx>>
    BY Zenon, <1>6 DEF StartPlan, RequestPause, PauseTimeout, AbortRequested, PauseAcked,
       ReclaimDone, ReclaimThrows, AbortSetError, CloseByTask
  <2> QED
    BY Zenon, <2>1, TokenFrame
<1>7. CASE \/ ReclaimFail \/ AbortFail \/ Cancel \/ SetAllOutputConsumed
           \/ \E s \in {"kFailed", "kFinished"} : ExtTerminate(s)
  <2>1. UNCHANGED <<toYield, isEnqueued, queue, hasBlockingFuture, armed, pc, cur, stop, ctx>>
    BY Zenon, <1>7 DEF ReclaimFail, AbortFail, Cancel, SetAllOutputConsumed, ExtTerminate
  <2> QED
    BY Zenon, <2>1, TokenFrame
<1>8. ~RequestYield
  BY Zenon DEF RequestYield, NoYield
<1> QED
  BY <1>1, <1>2, <1>3, <1>4, <1>5, <1>6, <1>7, <1>8 DEF Next, ReclaimStep

-----------------------------------------------------------------------------
(* A driver that counts as suspended has a thread that is: the thread      *)
(* leaves the state when it takes the count to zero.                       *)
LEMMA SuspendStep == ASSUME IInv, SuspendInv, Next PROVE SuspendInv'
<1>0. /\ pc \in [Threads -> Pcs] /\ cur \in [Threads -> Drivers \cup {0}]
      /\ numSuspensions \in [Drivers -> Nat] /\ ThreadInv
      /\ \A t \in Threads : pc[t] # "idle" => cur[t] \in Drivers
  BY Zenon DEF IInv, TypeOK
<1> USE DEF threadVars
<1>1. ASSUME NEW t \in Threads, EnterSuspended(t) PROVE SuspendInv'
  BY <1>0, <1>1, Zenon DEF EnterSuspended, Goto, SuspendInv
<1>2. ASSUME NEW t \in Threads, LeaveSuspended(t) PROVE SuspendInv'
  BY <1>0, <1>2 DEF LeaveSuspended, Outermost, Goto, SuspendInv, ThreadInv, OnDriver
<1>3. ASSUME numSuspensions' = numSuspensions,
             \A t \in Threads : pc[t] = "suspended" => pc'[t] = "suspended" /\ cur'[t] = cur[t]
      PROVE  SuspendInv'
  BY Zenon, <1>3 DEF SuspendInv
<1>4. ASSUME NEW t \in Threads,
             CheckStop(t) \/ SliceExpired(t) \/ Block(t) \/ AtEnd(t) \/ Throw(t)
             \/ EnterSuspendedThrows(t) \/ ThreadSetError(t) \/ ThreadFail(t)
             \/ Close(t) \/ RemoveDriver(t) \/ ThreadFinish(t) \/ Leave(t) \/ LeaveClosed(t)
      PROVE  SuspendInv'
  <2>1. /\ numSuspensions' = numSuspensions /\ cur' = cur
        /\ pc[t] # "suspended" /\ \E p : pc' = [pc EXCEPT ![t] = p]
    BY <1>4, Zenon DEF CheckStop, SliceExpired, Block, AtEnd, Throw, EnterSuspendedThrows, ThrowTo,
       ThreadSetError, ThreadFail, Close, RemoveDriver, ThreadFinish, Leave, LeaveClosed,
       GoOffThread, Goto
  <2> QED
    BY Zenon, <1>0, <1>3, <2>1
<1>5. ASSUME NEW t \in Threads, Post(t) \/ SetResume(t) \/ RequeueCheck(t) \/ Requeue(t)
      PROVE  SuspendInv'
  <2>1. /\ numSuspensions' = numSuspensions /\ pc[t] # "suspended"
        /\ \A u \in Threads \ {t} : pc'[u] = pc[u] /\ cur'[u] = cur[u]
    BY Zenon, <1>0, <1>5 DEF Post, SetResume, RequeueCheck, Requeue, Idle, Goto
  <2> QED
    BY Zenon, <1>3, <2>1
<1>6. ASSUME NEW t \in Threads, NEW d \in Drivers, StartThread(t, d) PROVE SuspendInv'
  <2>1. /\ numSuspensions' = numSuspensions /\ pc[t] # "suspended"
        /\ \A u \in Threads \ {t} : pc'[u] = pc[u] /\ cur'[u] = cur[u]
    BY Zenon, <1>0, <1>6 DEF StartThread, RunClosed, EnterRuns, EnterRefused, Goto
  <2> QED
    BY Zenon, <1>3, <2>1
<1>7. CASE \/ StartPlan \/ StartDrivers \/ RequestPause \/ PauseTimeout \/ AbortRequested
           \/ PauseAcked \/ ReclaimDone \/ ReclaimThrows \/ AbortSetError \/ Resume
           \/ \E d \in Drivers : Resumed(d) \/ FutureError(d) \/ CloseByTask(d)
  <2>1. UNCHANGED <<numSuspensions, pc, cur>>
    BY Zenon, <1>7 DEF StartPlan, StartDrivers, RequestPause, PauseTimeout, AbortRequested,
       PauseAcked, ReclaimDone, ReclaimThrows, AbortSetError, Resume, Resumed,
       FutureError, CloseByTask
  <2> QED
    BY Zenon, <1>3, <2>1
<1>8. CASE \/ ReclaimFail \/ AbortFail \/ Cancel \/ SetAllOutputConsumed \/ RequestYield
           \/ \E s \in {"kFailed", "kFinished"} : ExtTerminate(s)
  <2>1. UNCHANGED <<numSuspensions, pc, cur>>
    BY Zenon, <1>8 DEF ReclaimFail, AbortFail, Cancel, SetAllOutputConsumed, RequestYield, ExtTerminate
  <2> QED
    BY Zenon, <1>3, <2>1
<1> QED
  BY <1>1, <1>2, <1>4, <1>5, <1>6, <1>7, <1>8 DEF Next, ThreadStep, ReclaimStep

-----------------------------------------------------------------------------
(* Steps that take nobody out of the task and bring nobody into it.        *)
LEMMA GoneFrame ==
    ASSUME GoneInv, UNCHANGED <<slots, state>>,
           isTerminated \subseteq isTerminated', closed \subseteq closed',
           onThread' \subseteq onThread,
           \A d \in Drivers : queue'[d] > 0 \/ armed'[d] > 0 => queue[d] > 0 \/ armed[d] > 0,
           \A u \in Threads : pc'[u] # "idle" => pc[u] # "idle" /\ cur'[u] = cur[u],
           \A u \in Threads : pc'[u] = "remove" => pc[u] = "remove"
    PROVE  GoneInv'
  BY Zenon DEF GoneInv, Known, Running

(* terminate() marks whom it finds on thread and whom it takes.            *)
LEMMA TerminateGone ==
    ASSUME GoneInv, closed' = closed, NEW s \in {"kFinished", "kCanceled", "kFailed"}, NEW a,
           Terminate(s, a), UNCHANGED <<queue, armed, cur>>,
           \A u \in Threads : pc'[u] # "idle" => pc[u] # "idle",
           \A u \in Threads : pc'[u] = "remove" => pc[u] = "remove"
    PROVE  GoneInv'
<1>1. CASE ~Running
  <2>1. UNCHANGED <<slots, onThread, isTerminated, state>>
    BY Zenon, <1>1 DEF Terminate, onVars, stateVars
  <2> QED
    BY Zenon, <2>1, GoneFrame
<1>2. CASE Running
  <2>1. /\ isTerminated' = isTerminated \cup (slots \cap onThread) \cup OffThreadDrivers
        /\ onThread' = onThread \cup OffThreadDrivers
        /\ slots' = slots \ OffThreadDrivers /\ OffThreadDrivers \subseteq slots
    BY Zenon, <1>2 DEF Terminate, Detach, OffThreadDrivers
  <2>2. Known \subseteq Known' /\ onThread' \subseteq Known'
    BY Zenon, <2>1 DEF GoneInv, Known
  <2>3. slots' \cap onThread' \subseteq isTerminated'
    BY Zenon, <2>1
  <2> QED
    BY Zenon, <2>2, <2>3 DEF GoneInv
<1> QED
  BY Zenon, <1>1, <1>2

(* A driver that left drivers_ was marked terminated or closed before, and *)
(* only drivers of the task are run and woken.                             *)
LEMMA GoneStep == ASSUME NoYield, IInv, StopInv, GoneInv, Next PROVE GoneInv'
<1>0. /\ pc \in [Threads -> Pcs] /\ cur \in [Threads -> Drivers \cup {0}]
      /\ \A t \in Threads : pc[t] # "idle" => cur[t] \in Drivers
      /\ queue \in [Drivers -> Nat] /\ armed \in [Drivers -> Nat]
      /\ slots \subseteq Drivers /\ isTerminated \subseteq Drivers /\ closed \subseteq Drivers
  BY Zenon DEF IInv, TypeOK
<1>0a. ShouldStop \in {"kPause", "kTerminate", "kNone"} /\ \A t \in Threads : StopAt(t)
  BY Zenon, StopReason DEF StopInv
<1> USE DEF stateVars, onVars, enqVars, futureVars, closeVars, threadVars
<1>1. ASSUME NEW t \in Threads, pc[t] # "idle", pc'[t] # "remove",
             \A u \in Threads \ {t} : pc'[u] = pc[u],
             UNCHANGED <<slots, state, closed, queue, armed, cur>>,
             isTerminated \subseteq isTerminated', onThread' \subseteq onThread
      PROVE  GoneInv'
  <2>1. /\ \A u \in Threads : pc'[u] # "idle" => pc[u] # "idle" /\ cur'[u] = cur[u]
        /\ \A u \in Threads : pc'[u] = "remove" => pc[u] = "remove"
    BY Zenon, <1>1
  <2> QED
    BY Zenon, <1>1, <2>1, GoneFrame
<1>1a. ASSUME NEW t \in Threads,
              CheckStop(t) \/ Block(t) \/ AtEnd(t) \/ Throw(t) \/ ThreadSetError(t)
       PROVE  GoneInv'
  <2>1. UNCHANGED <<slots, state, closed, queue, armed, cur, isTerminated, onThread>>
    BY Zenon, <1>1a DEF CheckStop, Block, AtEnd, Throw, ThreadSetError
  <2>2. pc[t] # "idle" /\ pc'[t] # "remove" /\ \A u \in Threads \ {t} : pc'[u] = pc[u]
    BY Zenon, <1>0, <1>1a DEF CheckStop, Block, AtEnd, Throw, ThrowTo, ThreadSetError, AfterError,
       Goto
  <2> QED
    BY Zenon, <1>1, <2>1, <2>2
<1>1b. ASSUME NEW t \in Threads,
              EnterSuspended(t) \/ EnterSuspendedThrows(t) \/ LeaveSuspended(t)
       PROVE  GoneInv'
  <2>1. /\ UNCHANGED <<slots, state, closed, queue, armed, cur, onThread>>
        /\ isTerminated \subseteq isTerminated'
    BY Zenon, <1>1b DEF EnterSuspended, EnterSuspendedThrows, LeaveSuspended
  <2>2. pc[t] # "idle" /\ pc'[t] # "remove" /\ \A u \in Threads \ {t} : pc'[u] = pc[u]
    BY Zenon, <1>0, <1>1b DEF ThrowTo, EnterSuspended, EnterSuspendedThrows, LeaveSuspended, Goto
  <2> QED
    BY Zenon, <1>1, <2>1, <2>2
<1>1c. ASSUME NEW t \in Threads, Leave(t) \/ LeaveClosed(t) PROVE GoneInv'
  <2>1. /\ UNCHANGED <<slots, state, closed, queue, armed, cur>>
        /\ isTerminated \subseteq isTerminated' /\ onThread' \subseteq onThread
    BY Zenon, <1>1c DEF Leave, LeaveClosed, GoOffThread
  <2>2. pc[t] # "idle" /\ pc'[t] # "remove" /\ \A u \in Threads \ {t} : pc'[u] = pc[u]
    BY Zenon, <1>0, <1>1c DEF Leave, LeaveClosed, GoOffThread, Goto
  <2> QED
    BY Zenon, <1>1, <2>1, <2>2
<1>2. ASSUME NEW t \in Threads, Post(t) PROVE GoneInv'
  <2>1. UNCHANGED <<slots, state, closed, queue, armed, isTerminated, onThread>>
    BY Zenon, <1>2 DEF Post
  <2>2. /\ \A u \in Threads : pc'[u] # "idle" => pc[u] # "idle" /\ cur'[u] = cur[u]
        /\ \A u \in Threads : pc'[u] = "remove" => pc[u] = "remove"
    BY Zenon, <1>0, <1>2 DEF Post, Idle, Goto
  <2> QED
    BY Zenon, <2>1, <2>2, GoneFrame
<1>3. ASSUME NEW t \in Threads, SetResume(t) PROVE GoneInv'
  <2>1. UNCHANGED <<slots, state, closed, queue, isTerminated, onThread>>
    BY Zenon, <1>3 DEF SetResume
  <2>2. /\ \A u \in Threads : pc'[u] # "idle" => pc[u] # "idle" /\ cur'[u] = cur[u]
        /\ \A u \in Threads : pc'[u] = "remove" => pc[u] = "remove"
    BY Zenon, <1>0, <1>3 DEF SetResume, Idle, Goto
  <2>3. \A d \in Drivers : armed'[d] > 0 => armed[d] > 0 \/ d = cur[t]
    BY Zenon, <1>0, <1>3 DEF SetResume
  <2>4. cur[t] \in Known /\ Known' = Known
    BY Zenon, <1>3, <2>1 DEF GoneInv, SetResume, Known
  <2>5. \A d \in Drivers : queue'[d] > 0 \/ armed'[d] > 0 => d \in Known'
    BY Zenon, <2>1, <2>3, <2>4 DEF GoneInv
  <2> QED
    BY Zenon, <2>1, <2>2, <2>4, <2>5 DEF GoneInv, Running
<1>4. ASSUME NEW t \in Threads, Close(t) PROVE GoneInv'
  <2>1. /\ UNCHANGED <<slots, state, onThread, queue, armed, cur>> /\ pc[t] = "close"
        /\ isTerminated \subseteq isTerminated' /\ closed' = closed \cup {cur[t]}
    BY Zenon, <1>4 DEF Close
  <2>2. \A u \in Threads \ {t} : pc'[u] = pc[u]
    BY Zenon, <1>0, <1>4 DEF Close, Goto
  <2> QED
    BY Zenon, <2>1, <2>2 DEF GoneInv, Known, Running
<1>5. ASSUME NEW t \in Threads, RemoveDriver(t) PROVE GoneInv'
  <2>1. /\ UNCHANGED <<state, onThread, queue, armed, cur, isTerminated, closed>>
        /\ pc[t] = "remove" /\ slots' = slots \ {cur[t]}
    BY Zenon, <1>5 DEF RemoveDriver
  <2>2. pc'[t] # "remove" /\ \A u \in Threads \ {t} : pc'[u] = pc[u]
    BY Zenon, <1>0, <1>5 DEF RemoveDriver, Goto, AfterClose
  <2>3. Known' = Known
    BY Zenon, <2>1 DEF GoneInv, Known
  <2> QED
    BY Zenon, <2>1, <2>2, <2>3 DEF GoneInv, Running
<1>6. ASSUME NEW t \in Threads, ThreadFail(t) \/ ThreadFinish(t) PROVE GoneInv'
  <2>1. /\ \E s \in {"kFinished", "kFailed"} : Terminate(s, t)
        /\ UNCHANGED <<closed, queue, armed, cur>> /\ pc[t] # "idle"
    BY Zenon, <1>6 DEF ThreadFail, ThreadFinish
  <2>2. pc'[t] # "remove" /\ \A u \in Threads \ {t} : pc'[u] = pc[u]
    BY Zenon, <1>0, <1>6 DEF ThreadFail, ThreadFinish, Goto, AfterClose, AfterError
  <2> QED
    BY Zenon, <2>1, <2>2, TerminateGone
<1>7. ASSUME NEW t \in Threads, NEW d \in Drivers, StartThread(t, d) PROVE GoneInv'
  <2>1. /\ queue[d] > 0 /\ queue' = [queue EXCEPT ![d] = @ - 1]
        /\ UNCHANGED <<slots, state, closed, armed>> /\ isTerminated \subseteq isTerminated'
    BY Zenon, <1>7 DEF StartThread, RunClosed, EnterRuns, EnterRefused
  <2>2. /\ \A u \in Threads \ {t} : pc'[u] = pc[u] /\ cur'[u] = cur[u]
        /\ pc'[t] # "idle" => cur'[t] = d
        /\ pc'[t] # "remove"
    BY <1>0, <1>7 DEF StartThread, RunClosed, EnterRuns, EnterRefused, Goto
  <2>3. onThread' = onThread \/ (onThread' = onThread \cup {d} /\ Running)
    BY Zenon, <1>7 DEF StartThread, RunClosed, EnterRuns, EnterRefused, ShouldStop,
       TerminateRequested
  <2>4. d \in Known /\ Known \subseteq Known' /\ onThread' \subseteq Known'
    BY Zenon, <2>1, <2>3 DEF GoneInv, Known
  <2>5. \A e \in Drivers : queue'[e] > 0 => queue[e] > 0
    BY Zenon, <1>0, <2>1
  <2> QED
    BY Zenon, <2>1, <2>2, <2>3, <2>4, <2>5 DEF GoneInv, Running
<1>8. ASSUME NEW d \in Drivers, Resumed(d) \/ FutureError(d) \/ CloseByTask(d)
      PROVE  GoneInv'
  <2>1. /\ UNCHANGED <<slots, state, isTerminated, onThread, pc, cur>>
        /\ closed \subseteq closed'
    BY Zenon, <1>8 DEF Resumed, FutureError, CloseByTask
  <2>2. \A e \in Drivers : queue'[e] > 0 \/ armed'[e] > 0 => queue[e] > 0 \/ armed[e] > 0
    BY Zenon, <1>0, <1>8 DEF Resumed, FutureError, CloseByTask, Enqueue
  <2> QED
    BY Zenon, <2>1, <2>2, GoneFrame
<1>9. CASE StartDrivers
  <2>1. /\ UNCHANGED <<state, isTerminated, closed, onThread, armed, pc, cur>>
        /\ onThread = {} /\ \A t \in Threads : pc[t] = "idle"
        /\ \A d \in Drivers : queue[d] = 0 /\ armed[d] = 0
    BY Zenon, <1>9 DEF StartDrivers, IInv, StartInv
  <2>2. slots' = Drivers \/ UNCHANGED <<slots, queue>>
    BY Zenon, <1>9 DEF StartDrivers
  <2>3. \A d \in Drivers : queue'[d] > 0 \/ armed'[d] > 0 => d \in Known'
    BY <2>1, <2>2 DEF Known
  <2> QED
    BY Zenon, <2>1, <2>3 DEF GoneInv
<1>10. CASE Resume
  <2>1. UNCHANGED <<state, closed, armed, pc, cur>>
    BY Zenon, <1>10 DEF Resume
  <2>2. CASE ResumeRunning
    <3>1. UNCHANGED <<slots, isTerminated, onThread>>
      BY Zenon, <2>2 DEF ResumeRunning
    <3>2. \A d \in Drivers : queue'[d] > 0 => queue[d] > 0 \/ d \in slots
      BY Zenon, <2>2, <1>0 DEF ResumeRunning, Enqueue, ResumedDrivers, NotWaiting
    <3> QED
      BY Zenon, <2>1, <3>1, <3>2 DEF GoneInv, Known, Running
  <2>3. CASE ResumeTerminated
    <3>1. /\ slots' = slots \ PausedDrivers /\ onThread' = onThread \cup PausedDrivers
          /\ isTerminated' = isTerminated \cup PausedDrivers /\ queue' = queue
          /\ PausedDrivers \subseteq slots
      BY Zenon, <2>3 DEF ResumeTerminated, Detach, PausedDrivers
    <3>2. Known \subseteq Known' /\ onThread' \subseteq Known'
      BY Zenon, <2>1, <3>1 DEF GoneInv, Known
    <3> QED
      BY Zenon, <2>1, <3>1, <3>2 DEF GoneInv, Running
  <2> QED
    BY Zenon, <1>10, <2>2, <2>3 DEF Resume
<1>11. CASE \/ StartPlan \/ RequestPause \/ PauseTimeout \/ AbortRequested \/ PauseAcked
            \/ ReclaimDone \/ ReclaimThrows \/ AbortSetError \/ SetAllOutputConsumed
  <2>1. UNCHANGED <<slots, state, isTerminated, closed, onThread, queue, armed, pc, cur>>
    BY <1>11, Zenon DEF StartPlan, RequestPause, PauseTimeout, AbortRequested, PauseAcked,
       ReclaimDone, ReclaimThrows, AbortSetError, SetAllOutputConsumed
  <2> QED
    BY Zenon, <2>1, GoneFrame
<1>12. CASE \/ ReclaimFail \/ AbortFail \/ Cancel
            \/ \E s \in {"kFailed", "kFinished"} : ExtTerminate(s)
  <2>1. PICK s \in {"kFinished", "kCanceled", "kFailed"}, a \in {Reclaimer, External} :
           Terminate(s, a)
    BY Zenon, <1>12 DEF ReclaimFail, AbortFail, Cancel, ExtTerminate
  <2>2. UNCHANGED <<closed, queue, armed, pc, cur>>
    BY <1>12, Zenon DEF ReclaimFail, AbortFail, Cancel, ExtTerminate
  <2> QED
    BY Zenon, <2>1, <2>2, TerminateGone
<1>13. ~RequestYield /\ \A t \in Threads : ~SliceExpired(t) /\ ~RequeueCheck(t) /\ ~Requeue(t)
  BY Zenon, <1>0a DEF RequestYield, SliceExpired, RequeueCheck, Requeue, StopAt, NoYield
<1> QED
  BY Zenon, <1>1a, <1>1b, <1>1c, <1>2, <1>3, <1>4, <1>5, <1>6, <1>7, <1>8, <1>9, <1>10, <1>11,
     <1>12, <1>13
  DEF Next, ThreadStep, ReclaimStep

-----------------------------------------------------------------------------
(* A failed check, but for the two that can fail, is that a driver was in  *)
(* two places, or that nobody marked it when the task was terminated.      *)
LEMMA ChecksStep ==
    ASSUME NoYield, IInv, LeaveInv, QuietInv, StopInv, TokenInv, GoneInv, SuspendInv,
           ChecksHold, Next
    PROVE  ChecksHold'
<1>0. /\ ThreadInv /\ DetachInv /\ ThreadCount /\ slots \subseteq Drivers
      /\ queue \in [Drivers -> Nat] /\ armed \in [Drivers -> Nat]
      /\ numSuspensions \in [Drivers -> Nat]
  BY Zenon DEF IInv, TypeOK
<1>1. ASSUME failedChecks' = failedChecks, reclaimFailed => reclaimFailed' PROVE ChecksHold'
  BY Zenon, <1>1 DEF ChecksHold
<1>2. ASSUME NEW t \in Threads, ThreadStep(t) PROVE ChecksHold'
  <2>1. reclaimFailed' = reclaimFailed
    BY Zenon, <1>2 DEF ThreadStep, CheckStop, SliceExpired, Block, AtEnd, Throw, EnterSuspended,
       EnterSuspendedThrows, LeaveSuspended, ThreadSetError, ThreadFail, Close, RemoveDriver,
       ThreadFinish, Leave, LeaveClosed, Post, SetResume, RequeueCheck, Requeue, reclaimVars
  <2>2. failedChecks' \in {failedChecks, failedChecks \cup {"setResumeOnThread"}}
    <3>1. CASE SetResume(t)
      BY Zenon, <3>1 DEF SetResume
    <3>2. ~RequeueCheck(t)
      BY Zenon DEF RequeueCheck, StopInv, StopAt
    <3>3. CASE ~SetResume(t)
      <4>1. failedChecks' = failedChecks
        BY Zenon, <1>2, <3>2, <3>3 DEF ThreadStep, CheckStop, SliceExpired, Block, AtEnd, Throw,
           EnterSuspended, EnterSuspendedThrows, LeaveSuspended, ThreadSetError, ThreadFail,
           Close, RemoveDriver, ThreadFinish, Leave, LeaveClosed, Post, Requeue
      <4> QED
        BY Zenon, <4>1
    <3> QED
      BY Zenon, <3>1, <3>3
  <2> QED
    BY Zenon, <2>1, <2>2 DEF ChecksHold
<1>3. ASSUME NEW t \in Threads, NEW d \in Drivers, StartThread(t, d) PROVE ChecksHold'
  <2>1. queue[d] > 0 /\ reclaimFailed' = reclaimFailed
    BY Zenon, <1>3 DEF StartThread, RunClosed, EnterRuns, EnterRefused, reclaimVars
  <2>2. d \in isEnqueued /\ d \in Known
    BY Zenon, <2>1 DEF TokenInv, GoneInv
  <2>3. d \notin isTerminated /\ d \notin closed => d \notin onThread
    <3>1. SUFFICES ASSUME d \in slots, d \in onThread PROVE FALSE
      BY Zenon, <2>2 DEF Known
    <3>2. PICK u \in Threads : OnDriver(u) /\ cur[u] = d
      BY Zenon, <1>0, <3>1 DEF DetachInv
    <3> QED
      BY Zenon, <2>2, <3>2 DEF TokenInv, Holding
  <2>4. failedChecks' = failedChecks
    BY Zenon, <1>3, <2>2, <2>3 DEF StartThread, RunClosed, EnterRuns, EnterRefused
  <2> QED
    BY Zenon, <1>1, <2>1, <2>4
<1>4. ASSUME NEW d \in Drivers, Resumed(d) PROVE ChecksHold'
  <2>1. d \in hasBlockingFuture \ isEnqueued
    BY Zenon, <1>4 DEF Resumed, TokenInv
  <2>2. ~(numSuspensions[d] > 0)
    <3>1. SUFFICES ASSUME NEW t \in Threads, pc[t] = "suspended", cur[t] = d PROVE FALSE
      BY Zenon DEF SuspendInv
    <3>2. armed[d] = 0
      BY Zenon, <3>1 DEF TokenInv, Holding, OnDriver
    <3> QED
      BY <1>4, <3>2 DEF Resumed
  <2>3. UNCHANGED <<failedChecks, reclaimFailed>>
    BY Zenon, <1>4, <2>1, <2>2 DEF Resumed, reclaimVars
  <2> QED
    BY Zenon, <1>1, <2>3
<1>5. CASE Resume
  <2>1. reclaimFailed' = reclaimFailed
    BY Zenon, <1>5 DEF Resume
  <2>2. CASE ~Running
    <3>1. failedChecks' = failedChecks
      BY Zenon, <1>5, <2>2 DEF Resume, ResumeTerminated, GoneInv
    <3> QED
      BY Zenon, <1>1, <2>1, <3>1
  <2>3. CASE Running /\ reclaimFailed
    <3>1. failedChecks' \in {failedChecks, failedChecks \cup {"resumeOnThread"}}
      BY Zenon, <1>5, <2>3 DEF Resume, ResumeRunning
    <3> QED
      BY Zenon, <2>1, <2>3, <3>1 DEF ChecksHold
  <2>4. CASE Running /\ ~reclaimFailed
    <3>1. numThreads = 0
      BY Zenon, <1>5, <2>4 DEF Resume, QuietInv
    <3>2. ASSUME NEW d \in BadDrivers PROVE FALSE
      <4>1. d \in slots /\ numSuspensions[d] = 0 /\ d \in onThread
        BY Zenon DEF BadDrivers, NotWaiting, LeaveInv
      <4>2. PICK t \in Threads : OnDriver(t) /\ cur[t] = d
        BY Zenon, <1>0, <4>1 DEF DetachInv
      <4>3. ~Counted(t)
        BY <1>0, <3>1, CountedPositive
      <4>4. numSuspensions[d] > 0
        BY Zenon, <1>0, <4>2, <4>3 DEF OnDriver, ThreadInv
      <4> QED
        BY <4>1, <4>4
    <3>3. failedChecks' = failedChecks
      BY Zenon, <1>5, <2>4, <3>2 DEF Resume, ResumeRunning
    <3> QED
      BY Zenon, <1>1, <2>1, <3>3
  <2> QED
    BY Zenon, <2>2, <2>3, <2>4
<1>6. CASE \/ StartPlan \/ StartDrivers \/ RequestPause \/ AbortRequested
           \/ PauseAcked \/ ReclaimDone \/ AbortSetError
           \/ \E d \in Drivers : FutureError(d) \/ CloseByTask(d)
  <2>1. UNCHANGED <<failedChecks, reclaimFailed>>
    BY Zenon, <1>6 DEF StartPlan, StartDrivers, RequestPause, AbortRequested, PauseAcked,
       ReclaimDone, AbortSetError, FutureError, CloseByTask, reclaimVars
  <2> QED
    BY Zenon, <1>1, <2>1
<1>6a. CASE PauseTimeout \/ ReclaimThrows
  BY Zenon, <1>1, <1>6a DEF PauseTimeout, ReclaimThrows
<1>7. CASE \/ ReclaimFail \/ AbortFail \/ Cancel \/ SetAllOutputConsumed \/ RequestYield
           \/ \E s \in {"kFailed", "kFinished"} : ExtTerminate(s)
  <2>1. UNCHANGED <<failedChecks, reclaimFailed>>
    BY Zenon, <1>7 DEF ReclaimFail, AbortFail, Cancel, SetAllOutputConsumed, RequestYield,
       ExtTerminate, reclaimVars
  <2> QED
    BY Zenon, <1>1, <2>1
<1> QED
  BY Zenon, <1>2, <1>3, <1>4, <1>5, <1>6, <1>6a, <1>7 DEF Next, ReclaimStep

(* What the next theorem's step needs of a task whose drivers do not yield *)
PlacesInv ==
    NoYield => StopInv /\ TokenInv /\ GoneInv /\ SuspendInv /\ ChecksHold

(* Without yields the VELOX_CHECKs of enter(), of setResume's callback and *)
(* of resume() hold, except for the two known races, for any number of     *)
(* drivers and threads: a driver is in the executor's queue, on a thread   *)
(* or with its future, and in one of them.                                 *)
THEOREM DriverChecks == Spec => [](NoYield => ChecksHold)
<1>1. Init => WakeupInv /\ PlacesInv
  <2> SUFFICES ASSUME Init PROVE WakeupInv /\ PlacesInv
    BY Zenon
  <2>1. StopInv /\ TokenInv
    BY DEF Init, StopInv, StopAt, TokenInv, Holding, OnDriver, Counted, CountedPcs, ErrorPcs
  <2>2. GoneInv /\ SuspendInv /\ ChecksHold
    BY DEF Init, GoneInv, SuspendInv, ChecksHold, Known, Running
  <2> QED
    BY Zenon, <2>1, <2>2, WakeupInitially DEF PlacesInv
<1>2. IInv /\ WakeupInv /\ PlacesInv /\ [Next]_vars => WakeupInv' /\ PlacesInv'
  <2>1. ASSUME IInv, WakeupInv, PlacesInv, Next PROVE WakeupInv' /\ PlacesInv'
    <3>1. WakeupInv'
      BY Zenon, <2>1, CloseStep, LeaveStep, FreshStep, QueueStep, QuietStep, WakeStep DEF WakeupInv
    <3>2. NoYield => StopInv' /\ TokenInv' /\ GoneInv' /\ SuspendInv' /\ ChecksHold'
      BY Zenon, <2>1, TokenStep, GoneStep, SuspendStep, ChecksStep DEF WakeupInv, PlacesInv
    <3> QED
      BY Zenon, <3>1, <3>2 DEF PlacesInv, NoYield
  <2>2. ASSUME WakeupInv, PlacesInv, UNCHANGED vars PROVE WakeupInv' /\ PlacesInv'
    <3> USE DEF vars, startVars, stateVars, flagVars, numVars, onVars, enqVars, futureVars,
                closeVars, threadVars, reclaimVars
    <3>1. NoYield => StopInv' /\ TokenInv'
      BY Zenon, <2>2, TokenFrame DEF PlacesInv
    <3>2. NoYield => GoneInv' /\ SuspendInv' /\ ChecksHold'
      BY Zenon, <2>2 DEF PlacesInv, GoneInv, Known, Running, SuspendInv, ChecksHold
    <3> QED
      BY Zenon, <2>2, <3>1, <3>2, WakeupStutter DEF PlacesInv, NoYield
  <2> QED
    BY Zenon, <2>1, <2>2
<1>3. PlacesInv => (NoYield => ChecksHold)
  BY Zenon DEF PlacesInv
<1> QED
  BY <1>1, <1>2, <1>3, InductiveInvariant, PTL DEF Spec
=============================================================================
