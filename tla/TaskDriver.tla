----------------------------- MODULE TaskDriver -----------------------------
(***************************************************************************)
(* The thread life cycle of the Drivers of one ungrouped Task running in   *)
(* parallel mode: velox/exec/Driver.{h,cpp} and the thread and termination *)
(* half of velox/exec/Task.{h,cpp}.                                        *)
(*                                                                         *)
(* An executor thread runs Driver::run on a driver that was enqueued.  It  *)
(* enters the task, executes operators, and goes off thread when it is     *)
(* blocked, yields, is paused, fails, finishes or is terminated.  A memory *)
(* reclaimer pauses the task, reclaims and resumes it; users cancel it;    *)
(* its consumers report that all output was consumed.  A step is one       *)
(* critical section of Task::mutex_ or one access made outside of it.      *)
(***************************************************************************)
EXTENDS Integers, FiniteSets

CONSTANTS
    NumDrivers,         \* size of Task::drivers_
    Threads,            \* threads of the query executor
    OutputDrivers,      \* drivers of the output pipeline
    HasPartitionedOutput,   \* Task::hasPartitionedOutput()
    MaxSuspensions,     \* bound: depth of nested suspended sections
    MaxWakeups,         \* bound: wake-ups of a driver when a pause begins
    Events              \* which of AllEvents the environment produces

AllEvents == {"cancel", "throw", "futureError", "reclaim", "timeout",
              "reclaimError", "abort", "suspend", "yield"}

Drivers == 1..NumDrivers

ASSUME TaskAssumption ==
    /\ NumDrivers \in Nat \ {0}
    /\ OutputDrivers \subseteq Drivers /\ OutputDrivers # {}
    /\ HasPartitionedOutput \in BOOLEAN
    /\ MaxSuspensions \in Nat /\ MaxWakeups \in Nat
    /\ Events \subseteq AllEvents

ASSUME ThreadsFinite == IsFiniteSet(Threads)

(* The actors other than the threads that may close a detached driver.     *)
NoOne == "noOne"
Reclaimer == "reclaimer"
External == "external"

ASSUME ThreadsAssumption == Threads \cap {NoOne, Reclaimer, External} = {}

VARIABLES
    phase,              \* progress of Task::start
    state,              \* Task::state_
    exception,          \* Task::exception_ is set
    consumed,           \* Task::partitionedOutputConsumed_
    pauseRequested, toYield, numThreads,
    finishPromises,     \* owners of the promises in threadFinishPromises_
    numRunning, numFinished, numFinishedOutput,
    slots,              \* drivers whose entry of Task::drivers_ is not null
    isEnqueued, onThread, isTerminated, hasBlockingFuture,  \* ThreadState
    numSuspensions,     \* ThreadState::numSuspensions
    closed,             \* Driver::closed_
    numCloses,          \* number of times closeOperators() ran
    queue,              \* number of closures of a driver in the executor
    armed,              \* number of futures with a callback to a driver
    closer,             \* who is about to call closeByTask() on a driver
    pc, cur, stop, ctx, \* what each executor thread does, and to whom
    rpc, reclaimFailed, \* the thread that runs Task::MemoryReclaimer
    extCalls,           \* terminate() calls that outside threads still owe
    failedChecks        \* VELOX_CHECKs that have failed so far

startVars == <<phase, consumed, numFinishedOutput>>
stateVars == <<state, exception>>
countVars == <<numRunning, numFinished>>
flagVars == <<pauseRequested, toYield>>
numVars == <<numThreads, finishPromises>>
onVars == <<slots, onThread, isTerminated, closer>>
enqVars == <<isEnqueued, queue>>
futureVars == <<hasBlockingFuture, armed>>
closeVars == <<closed, numCloses>>
threadVars == <<pc, cur, stop, ctx>>
reclaimVars == <<rpc, reclaimFailed>>

vars == <<startVars, stateVars, countVars, flagVars, numVars, onVars, enqVars,
          futureVars, closeVars, numSuspensions, threadVars, reclaimVars,
          extCalls, failedChecks>>

Running == state = "kRunning"
TerminateRequested == ~Running     \* both are set in one critical section

(* Program counters of an executor thread.  In a Counted one, the thread   *)
(* is in numThreads_; in an OnThread one it is the thread of its driver.   *)
CountedPcs == {"run", "close", "remove", "finish",
               "leave", "leaveNull", "leave2"}
OnThreadPcs == CountedPcs \cup {"suspended"}
PostPcs == {"post", "setResume", "requeue", "requeue2"}
(* "error" and "error2" run Task::setError: on the driver's thread unless   *)
(* the context says that the driver had not been entered.                  *)
ErrorPcs == {"error", "error2"}
Pcs == {"idle"} \cup OnThreadPcs \cup PostPcs \cup ErrorPcs

StopReasons == {"kNone", "kPause", "kTerminate", "kAlreadyTerminated",
                "kYield", "kBlock", "kAtEnd"}
Contexts == {"none", "start", "throw", "cancel", "atEnd"}

Counted(t) == pc[t] \in CountedPcs
              \/ (pc[t] \in ErrorPcs /\ ctx[t] # "start")
OnDriver(t) == Counted(t) \/ pc[t] = "suspended"

-----------------------------------------------------------------------------
(* Task::shouldStopLocked: the reason, and the yield counter afterwards.   *)
ShouldStop ==
    IF pauseRequested THEN "kPause"
    ELSE IF TerminateRequested THEN "kTerminate"
    ELSE IF toYield > 0 THEN "kYield"
    ELSE "kNone"

ToYieldAfter == IF ShouldStop = "kYield" THEN toYield - 1 ELSE toYield

MutDecrementThreads ==
    numThreads' = numThreads - 1 /\ UNCHANGED finishPromises

(* --numThreads_, and allThreadsFinishedLocked() when it reaches zero.     *)
DecrementThreads ==
    /\ numThreads' = numThreads - 1
    /\ finishPromises' = IF numThreads - 1 = 0 THEN {} ELSE finishPromises

(* Task::makeFinishFutureLocked for owner o.                               *)
MakeFinishFuture(o) ==
    finishPromises' = IF numThreads = 0 THEN finishPromises
                      ELSE finishPromises \cup {o}

MutCheckIfFinished(finished, finishedOutput, allConsumed) ==
    /\ Running
    /\ finished = NumDrivers \/ finishedOutput = Cardinality(OutputDrivers)
    /\ ~HasPartitionedOutput \/ consumed

(* Task::checkIfFinishedLocked, after the counters took the given values.  *)
CheckIfFinished(finished, finishedOutput, allConsumed) ==
    /\ Running
    /\ finished = NumDrivers \/ finishedOutput = Cardinality(OutputDrivers)
    /\ ~HasPartitionedOutput \/ allConsumed

(* Driver::enqueue of the drivers in D, none of which is enqueued.         *)
Enqueue(D) ==
    /\ isEnqueued' = isEnqueued \cup D
    /\ queue' = [d \in Drivers |->
                    IF d \in D \ closed THEN queue[d] + 1 ELSE queue[d]]

(* Task::driverClosedLocked for the drivers in D of a terminated task.     *)
DriversClosed(D) == numFinished' = numFinished + Cardinality(D)

(* Detaches the drivers in D from the task: actor a is to close them.      *)
Detach(D, a) ==
    /\ onThread' = onThread \cup D
    /\ slots' = slots \ D
    /\ closer' = [d \in Drivers |-> IF d \in D THEN a ELSE closer[d]]
    /\ DriversClosed(D)

MutOffThreadNoPause == slots \ (onThread \cup isTerminated)
MutOffThreadAll == IF pauseRequested THEN {} ELSE slots \ isTerminated

(* Task::enterForTerminateLocked: the drivers terminate() may detach.      *)
OffThreadDrivers ==
    IF pauseRequested THEN {} ELSE slots \ (onThread \cup isTerminated)

(* The first critical section of Task::terminate(s), called by actor a.    *)
Terminate(s, a) ==
    \/ /\ ~Running
       /\ UNCHANGED <<stateVars, countVars, onVars>>
    \/ /\ Running
       /\ state' = s
       /\ exception' = (exception \/ s = "kCanceled")
       /\ numRunning' = 0
       /\ isTerminated' = isTerminated \cup (slots \cap onThread)
                                       \cup OffThreadDrivers
       /\ Detach(OffThreadDrivers, a)

(* The critical section of Task::setError: whether it goes on to terminate *)
SetErrorProceeds == Running /\ ~exception
SetError == exception' = (exception \/ Running)

-----------------------------------------------------------------------------
(* Task::start, in two critical sections.  The first plans the pipelines;  *)
(* the second creates the drivers and enqueues all of them.                *)
StartPlan ==
    /\ phase = "created"
    /\ phase' = IF Running THEN "planned" ELSE "started"
    /\ UNCHANGED <<consumed, numFinishedOutput, stateVars, countVars, flagVars,
                   numVars, onVars, enqVars, futureVars, closeVars,
                   numSuspensions, threadVars, reclaimVars, extCalls,
                   failedChecks>>

StartDrivers ==
    /\ phase = "planned"
    /\ phase' = "started"
    /\ IF Running
       THEN /\ slots' = Drivers
            /\ numRunning' = NumDrivers
            /\ Enqueue(Drivers)
            /\ UNCHANGED numFinished
       ELSE /\ numFinished' = NumDrivers
            /\ UNCHANGED <<slots, numRunning, enqVars>>
    /\ UNCHANGED <<consumed, numFinishedOutput, stateVars, flagVars, numVars,
                   onThread, isTerminated, closer, futureVars, closeVars,
                   numSuspensions, threadVars, reclaimVars, extCalls,
                   failedChecks>>

-----------------------------------------------------------------------------
(* Moves thread t to program counter p.                                    *)
Goto(t, p) == pc' = [pc EXCEPT ![t] = p]

(* Thread t returns to its pool.                                           *)
Idle(t) ==
    /\ Goto(t, "idle")
    /\ cur' = [cur EXCEPT ![t] = 0]
    /\ stop' = [stop EXCEPT ![t] = "kNone"]
    /\ ctx' = [ctx EXCEPT ![t] = "none"]

(* Thread t finished the closeByTask() calls of a terminate() it made.     *)
FreeToGo(t) == \A d \in Drivers : closer[d] # t

(* Driver::run up to the end of Task::enter.  A closed driver is not       *)
(* entered: the thread reports "Cancelled" to setError instead.            *)
RunClosed(t, d) ==
    /\ pc[t] = "idle" /\ queue[d] > 0 /\ d \in closed
    /\ queue' = [queue EXCEPT ![d] = @ - 1]
    /\ Goto(t, "error")
    /\ cur' = [cur EXCEPT ![t] = d]
    /\ stop' = [stop EXCEPT ![t] = "kTerminate"]
    /\ ctx' = [ctx EXCEPT ![t] = "start"]
    /\ UNCHANGED <<startVars, stateVars, countVars, flagVars, numVars, onVars,
                   isEnqueued, futureVars, closeVars, numSuspensions,
                   reclaimVars, extCalls, failedChecks>>

(* enter() lets the driver on thread.                                      *)
EnterRuns(t, d) ==
    /\ pc[t] = "idle" /\ queue[d] > 0 /\ d \notin closed
    /\ d \in isEnqueued /\ d \notin isTerminated /\ d \notin onThread
    /\ ShouldStop = "kNone"
    /\ queue' = [queue EXCEPT ![d] = @ - 1]
    /\ isEnqueued' = isEnqueued \ {d}
    /\ numThreads' = numThreads + 1
    /\ onThread' = onThread \cup {d}
    /\ hasBlockingFuture' = hasBlockingFuture \ {d}
    /\ Goto(t, "run")
    /\ cur' = [cur EXCEPT ![t] = d]
    /\ UNCHANGED <<startVars, stateVars, countVars, flagVars, finishPromises,
                   slots, isTerminated, closer, armed, closeVars,
                   numSuspensions, stop, ctx, reclaimVars, extCalls,
                   failedChecks>>

(* enter() turns the thread away: VELOX_CHECK(isEnqueued) fails, or the    *)
(* driver is terminated, on another thread (run() fails on that reason),   *)
(* or the task is paused, terminated or asked to yield.                    *)
EnterRefused(t, d) ==
    /\ pc[t] = "idle" /\ queue[d] > 0 /\ d \notin closed
    /\ queue' = [queue EXCEPT ![d] = @ - 1]
    /\ isEnqueued' = isEnqueued \ {d}
    /\ LET stopped == d \in isEnqueued /\ d \notin isTerminated
                                       /\ d \notin onThread
       IN  /\ stopped => ShouldStop # "kNone"
           /\ toYield' = IF stopped THEN ToYieldAfter ELSE toYield
           /\ isTerminated' = IF stopped /\ ShouldStop = "kTerminate"
                              THEN isTerminated \cup {d} ELSE isTerminated
           /\ IF stopped /\ ShouldStop = "kYield"
              THEN /\ Goto(t, "requeue")
                   /\ cur' = [cur EXCEPT ![t] = d]
                   /\ stop' = [stop EXCEPT ![t] = "kYield"]
                   /\ UNCHANGED ctx
              ELSE UNCHANGED threadVars
    /\ failedChecks' =
           IF d \notin isEnqueued THEN failedChecks \cup {"enterNotEnqueued"}
           ELSE IF d \notin isTerminated /\ d \in onThread
           THEN failedChecks \cup {"alreadyOnThread"}
           ELSE failedChecks
    /\ UNCHANGED <<startVars, stateVars, countVars, pauseRequested, numVars,
                   slots, onThread, closer, futureVars, closeVars,
                   numSuspensions, reclaimVars, extCalls>>

-----------------------------------------------------------------------------
(* The operator loop of Driver::runInternal.  Any of these steps may come  *)
(* after the loop's last shouldStop(), so only CheckStop reads the flags.  *)

(* shouldStop() returned a reason to go off thread.                        *)
CheckStop(t) ==
    /\ pc[t] = "run" /\ ShouldStop # "kNone"
    /\ toYield' = ToYieldAfter
    /\ stop' = [stop EXCEPT ![t] = ShouldStop]
    /\ Goto(t, "leave")
    /\ UNCHANGED <<startVars, stateVars, countVars, pauseRequested, numVars,
                   onVars, enqVars, futureVars, closeVars, numSuspensions,
                   cur, ctx, reclaimVars, extCalls, failedChecks>>

(* Driver::shouldYield(): the cpu time slice of the driver is used up.     *)
SliceExpired(t) ==
    /\ "yield" \in Events
    /\ pc[t] = "run"
    /\ stop' = [stop EXCEPT ![t] = "kYield"]
    /\ Goto(t, "leave")
    /\ UNCHANGED <<startVars, stateVars, countVars, flagVars, numVars, onVars,
                   enqVars, futureVars, closeVars, numSuspensions, cur, ctx,
                   reclaimVars, extCalls, failedChecks>>

(* Driver::blockDriver: an operator, or arbitration, blocks the driver.    *)
Block(t) ==
    /\ pc[t] = "run"
    /\ hasBlockingFuture' = hasBlockingFuture \cup {cur[t]}
    /\ stop' = [stop EXCEPT ![t] = "kBlock"]
    /\ Goto(t, "leave")
    /\ UNCHANGED <<startVars, stateVars, countVars, flagVars, numVars, onVars,
                   enqVars, armed, closeVars, numSuspensions, cur, ctx,
                   reclaimVars, extCalls, failedChecks>>

(* The sink is finished: the thread closes its driver, then leaves.        *)
AtEnd(t) ==
    /\ pc[t] = "run"
    /\ stop' = [stop EXCEPT ![t] = "kAtEnd"]
    /\ ctx' = [ctx EXCEPT ![t] = "atEnd"]
    /\ Goto(t, "close")
    /\ UNCHANGED <<startVars, stateVars, countVars, flagVars, numVars, onVars,
                   enqVars, futureVars, closeVars, numSuspensions, cur,
                   reclaimVars, extCalls, failedChecks>>

(* The catch clauses of runInternal: an exception goes to setError.        *)
ThrowTo(t) ==
    /\ stop' = [stop EXCEPT ![t] = "kAlreadyTerminated"]
    /\ ctx' = [ctx EXCEPT ![t] = "throw"]
    /\ Goto(t, "error")

Throw(t) ==
    /\ "throw" \in Events
    /\ pc[t] = "run"
    /\ ThrowTo(t)
    /\ UNCHANGED <<startVars, stateVars, countVars, flagVars, numVars, onVars,
                   enqVars, futureVars, closeVars, numSuspensions, cur,
                   reclaimVars, extCalls, failedChecks>>

MutOutermost(d, n) == TRUE

(* Only the outermost suspended section, which takes numSuspensions away   *)
(* from n, changes numThreads_.                                            *)
Outermost(d, n) == numSuspensions[d] = n

(* Task::enterSuspended, called to wait for memory arbitration.  A         *)
(* terminated task makes the caller throw; a pause does not stop it.       *)
EnterSuspended(t) ==
    LET d == cur[t] IN
    /\ "suspend" \in Events
    /\ pc[t] \in {"run", "suspended"}
    /\ d \notin isTerminated /\ ShouldStop # "kTerminate"
    /\ numSuspensions[d] < MaxSuspensions
    /\ numSuspensions' = [numSuspensions EXCEPT ![d] = @ + 1]
    /\ toYield' = ToYieldAfter
    /\ IF Outermost(d, 0) THEN DecrementThreads ELSE UNCHANGED numVars
    /\ Goto(t, "suspended")
    /\ UNCHANGED <<startVars, stateVars, countVars, pauseRequested, onVars,
                   enqVars, futureVars, closeVars, cur, stop, ctx, reclaimVars,
                   extCalls, failedChecks>>

EnterSuspendedThrows(t) ==
    LET d == cur[t] IN
    /\ "suspend" \in Events
    /\ pc[t] = "run"
    /\ d \in isTerminated \/ ShouldStop = "kTerminate"
    /\ isTerminated' = isTerminated \cup {d}
    /\ ThrowTo(t)
    /\ UNCHANGED <<startVars, stateVars, countVars, flagVars, numVars, slots,
                   onThread, closer, enqVars, futureVars, closeVars,
                   numSuspensions, cur, reclaimVars, extCalls, failedChecks>>

(* Task::leaveSuspended: the outermost section waits for the resume.       *)
LeaveSuspended(t) ==
    LET d == cur[t] IN
    /\ pc[t] = "suspended"
    /\ numSuspensions[d] > 1 \/ ~pauseRequested
    /\ isTerminated' = IF TerminateRequested THEN isTerminated \cup {d}
                       ELSE isTerminated
    /\ numSuspensions' = [numSuspensions EXCEPT ![d] = @ - 1]
    /\ IF Outermost(d, 1)
       THEN /\ numThreads' = numThreads + 1
            /\ Goto(t, "run")
       ELSE UNCHANGED <<numThreads, pc>>
    /\ UNCHANGED <<startVars, stateVars, countVars, flagVars, finishPromises,
                   slots, onThread, closer, enqVars, futureVars, closeVars,
                   cur, stop, ctx, reclaimVars, extCalls, failedChecks>>

-----------------------------------------------------------------------------
(* Task::setError on an executor thread: a critical section that records   *)
(* the exception, then terminate(kFailed).                                 *)
AfterError(t) == IF ctx[t] = "start" THEN "post" ELSE "close"

ThreadSetError(t) ==
    /\ pc[t] = "error"
    /\ SetError
    /\ Goto(t, IF SetErrorProceeds THEN "error2" ELSE AfterError(t))
    /\ UNCHANGED <<startVars, state, countVars, flagVars, numVars, onVars,
                   enqVars, futureVars, closeVars, numSuspensions, cur, stop,
                   ctx, reclaimVars, extCalls, failedChecks>>

ThreadFail(t) ==
    /\ pc[t] = "error2"
    /\ Terminate("kFailed", t)
    /\ Goto(t, AfterError(t))
    /\ UNCHANGED <<startVars, flagVars, numVars, enqVars, futureVars,
                   closeVars, numSuspensions, cur, stop, ctx, reclaimVars,
                   extCalls, failedChecks>>

(* Driver::close up to closed_ = true.  After an exception ~CancelGuard    *)
(* marks the driver terminated first.                                      *)
AfterClose(t) == CASE ctx[t] = "throw" -> "leaveNull"
                   [] ctx[t] = "cancel" -> "leave2"
                   [] OTHER -> "leave"

Close(t) ==
    LET d == cur[t] IN
    /\ pc[t] = "close" /\ FreeToGo(t)
    /\ isTerminated' = IF ctx[t] = "throw" THEN isTerminated \cup {d}
                       ELSE isTerminated
    /\ closed' = closed \cup {d}
    /\ IF d \in closed
       THEN Goto(t, AfterClose(t)) /\ UNCHANGED numCloses
       ELSE /\ Goto(t, "remove")
            /\ numCloses' = [numCloses EXCEPT ![d] = @ + 1]
    /\ UNCHANGED <<startVars, stateVars, countVars, flagVars, numVars, slots,
                   onThread, closer, enqVars, futureVars, numSuspensions, cur,
                   stop, ctx, reclaimVars, extCalls, failedChecks>>

(* Task::removeDriver.  A driver that is not found counts as "finished".   *)
RemoveDriver(t) ==
    LET d == cur[t]
        found == d \in slots
        isOutput == d \in OutputDrivers
    IN
    /\ pc[t] = "remove"
    /\ slots' = slots \ {d}
    /\ numFinished' = IF found THEN numFinished + 1 ELSE numFinished
    /\ numRunning' = IF found /\ Running THEN numRunning - 1 ELSE numRunning
    /\ numFinishedOutput' = IF found /\ isOutput THEN numFinishedOutput + 1
                            ELSE numFinishedOutput
    /\ Goto(t, IF ~found \/ CheckIfFinished(numFinished', numFinishedOutput',
                                            consumed)
               THEN "finish" ELSE AfterClose(t))
    /\ UNCHANGED <<phase, consumed, stateVars, flagVars, numVars, onThread,
                   isTerminated, closer, enqVars, futureVars, closeVars,
                   numSuspensions, cur, stop, ctx, reclaimVars, extCalls,
                   failedChecks>>

(* removeDriver goes on to terminate(kFinished).                           *)
ThreadFinish(t) ==
    /\ pc[t] = "finish"
    /\ Terminate("kFinished", t)
    /\ Goto(t, AfterClose(t))
    /\ UNCHANGED <<startVars, flagVars, numVars, enqVars, futureVars,
                   closeVars, numSuspensions, cur, stop, ctx, reclaimVars,
                   extCalls, failedChecks>>

-----------------------------------------------------------------------------
(* Task::leave takes the driver off its thread.                            *)
GoOffThread(t) ==
    /\ DecrementThreads
    /\ onThread' = onThread \ {cur[t]}
    /\ Goto(t, "post")

(* The first critical section of leave(): a terminated driver is closed    *)
(* before it goes off thread.                                              *)
Leave(t) ==
    LET d == cur[t]
        terminated == d \in isTerminated \/ ShouldStop = "kTerminate"
    IN
    /\ pc[t] = "leave" /\ FreeToGo(t)
    /\ toYield' = IF d \in isTerminated THEN toYield ELSE ToYieldAfter
    /\ IF terminated
       THEN /\ isTerminated' = isTerminated \cup {d}
            /\ Goto(t, "error")
            /\ ctx' = [ctx EXCEPT ![t] = "cancel"]
            /\ UNCHANGED <<numVars, onThread>>
       ELSE GoOffThread(t) /\ UNCHANGED <<isTerminated, ctx>>
    /\ UNCHANGED <<startVars, stateVars, countVars, pauseRequested, slots,
                   closer, enqVars, futureVars, closeVars, numSuspensions,
                   cur, stop, reclaimVars, extCalls, failedChecks>>

(* The driver is closed: the last critical section of leave().             *)
LeaveClosed(t) ==
    /\ pc[t] \in {"leaveNull", "leave2"} /\ FreeToGo(t)
    /\ GoOffThread(t)
    /\ UNCHANGED <<startVars, stateVars, countVars, flagVars, slots,
                   isTerminated, closer, enqVars, futureVars, closeVars,
                   numSuspensions, cur, stop, ctx, reclaimVars, extCalls,
                   failedChecks>>

-----------------------------------------------------------------------------
(* Driver::run after runInternal.  The driver is off thread, so the other  *)
(* actors may do anything to it between these steps.                       *)
Post(t) ==
    /\ pc[t] = "post" /\ FreeToGo(t)
    /\ IF stop[t] = "kBlock" /\ ShouldStop # "kTerminate"
       THEN Goto(t, "setResume") /\ UNCHANGED <<cur, stop, ctx>>
       ELSE IF stop[t] = "kYield"
       THEN Goto(t, "requeue") /\ UNCHANGED <<cur, stop, ctx>>
       ELSE Idle(t)
    /\ toYield' = IF stop[t] = "kBlock" THEN ToYieldAfter ELSE toYield
    /\ UNCHANGED <<startVars, stateVars, countVars, pauseRequested, numVars,
                   onVars, enqVars, futureVars, closeVars, numSuspensions,
                   reclaimVars, extCalls, failedChecks>>

(* BlockingState::setResume checks that the driver is off thread and sets  *)
(* the callback of the future.                                             *)
SetResume(t) ==
    LET d == cur[t] IN
    /\ pc[t] = "setResume"
    /\ IF d \in onThread
       THEN /\ failedChecks' = failedChecks \cup {"setResumeOnThread"}
            /\ UNCHANGED armed
       ELSE armed' = [armed EXCEPT ![d] = @ + 1] /\ UNCHANGED failedChecks
    /\ Idle(t)
    /\ UNCHANGED <<startVars, stateVars, countVars, flagVars, numVars, onVars,
                   enqVars, hasBlockingFuture, closeVars, numSuspensions,
                   reclaimVars, extCalls>>

(* Driver::enqueue of a yielding driver, made without the task mutex: the  *)
(* check of isEnqueued, then its assignment.                               *)
RequeueCheck(t) ==
    /\ pc[t] = "requeue"
    /\ IF cur[t] \in isEnqueued
       THEN /\ failedChecks' = failedChecks \cup {"enqueuedTwice"}
            /\ Idle(t)
       ELSE /\ Goto(t, "requeue2")
            /\ UNCHANGED <<failedChecks, cur, stop, ctx>>
    /\ UNCHANGED <<startVars, stateVars, countVars, flagVars, numVars, onVars,
                   enqVars, futureVars, closeVars, numSuspensions, reclaimVars,
                   extCalls>>

Requeue(t) ==
    /\ pc[t] = "requeue2"
    /\ Enqueue({cur[t]})
    /\ Idle(t)
    /\ UNCHANGED <<startVars, stateVars, countVars, flagVars, numVars, onVars,
                   futureVars, closeVars, numSuspensions, reclaimVars,
                   extCalls, failedChecks>>

-----------------------------------------------------------------------------
(* The callback of setResume.  A failed VELOX_CHECK in it, like a future   *)
(* realized with an error, ends in setError.                               *)
CallbackFails(d) ==
    /\ SetError
    /\ extCalls' = IF SetErrorProceeds THEN extCalls \cup {"kFailed"}
                   ELSE extCalls

Resumed(d) ==
    /\ armed[d] > 0
    /\ armed' = [armed EXCEPT ![d] = @ - 1]
    /\ IF numSuspensions[d] > 0 \/ d \notin hasBlockingFuture
       THEN /\ CallbackFails(d)
            /\ failedChecks' = failedChecks \cup {"notBlocked"}
            /\ UNCHANGED <<hasBlockingFuture, enqVars>>
       ELSE /\ hasBlockingFuture' = hasBlockingFuture \ {d}
            /\ IF ~pauseRequested /\ d \in isEnqueued
               THEN /\ CallbackFails(d)
                    /\ failedChecks' = failedChecks \cup {"enqueuedTwice"}
                    /\ UNCHANGED enqVars
               ELSE /\ Enqueue(IF pauseRequested THEN {} ELSE {d})
                    /\ UNCHANGED <<exception, extCalls, failedChecks>>
    /\ UNCHANGED <<startVars, state, countVars, flagVars, numVars, onVars,
                   closeVars, numSuspensions, threadVars, reclaimVars>>

FutureError(d) ==
    /\ "futureError" \in Events
    /\ armed[d] > 0
    /\ armed' = [armed EXCEPT ![d] = @ - 1]
    /\ CallbackFails(d)
    /\ UNCHANGED <<startVars, state, countVars, flagVars, numVars, onVars,
                   enqVars, hasBlockingFuture, closeVars, numSuspensions,
                   threadVars, reclaimVars, failedChecks>>

(* Driver::closeByTask on a driver detached by terminate() or resume().    *)
CloseByTask(d) ==
    /\ closer[d] # NoOne
    /\ closer' = [closer EXCEPT ![d] = NoOne]
    /\ closed' = closed \cup {d}
    /\ numCloses' = [numCloses EXCEPT ![d] = @ + 1]
    /\ UNCHANGED <<startVars, stateVars, countVars, flagVars, numVars, slots,
                   onThread, isTerminated, enqVars, futureVars, numSuspensions,
                   threadVars, reclaimVars, extCalls, failedChecks>>

-----------------------------------------------------------------------------
(* Task::MemoryReclaimer.  ArbitrationParticipant runs one reclaim or      *)
(* abort of a task at a time, and aborts the task when a reclaim throws.   *)
RequestPause ==
    /\ "reclaim" \in Events
    /\ rpc = "idle"
    /\ \A d \in Drivers : queue[d] + armed[d] <= MaxWakeups
    /\ pauseRequested' = TRUE
    /\ MakeFinishFuture("pause")
    /\ rpc' = "waiting"
    /\ UNCHANGED <<startVars, stateVars, countVars, toYield, numThreads,
                   onVars, enqVars, futureVars, closeVars, numSuspensions,
                   threadVars, reclaimFailed, extCalls, failedChecks>>

(* The wait for the pause ended, with or without the future realized.      *)
PauseAcked ==
    /\ rpc = "waiting" /\ "pause" \notin finishPromises
    /\ rpc' = IF TerminateRequested THEN "resume" ELSE "reclaiming"
    /\ UNCHANGED <<startVars, stateVars, countVars, flagVars, numVars, onVars,
                   enqVars, futureVars, closeVars, numSuspensions, threadVars,
                   reclaimFailed, extCalls, failedChecks>>

PauseTimeout ==
    /\ "timeout" \in Events
    /\ rpc = "waiting" /\ "pause" \in finishPromises
    /\ rpc' = "resume"
    /\ reclaimFailed' = TRUE
    /\ UNCHANGED <<startVars, stateVars, countVars, flagVars, numVars, onVars,
                   enqVars, futureVars, closeVars, numSuspensions, threadVars,
                   extCalls, failedChecks>>

ReclaimDone ==
    /\ rpc = "reclaiming"
    /\ rpc' = "resume"
    /\ UNCHANGED <<startVars, stateVars, countVars, flagVars, numVars, onVars,
                   enqVars, futureVars, closeVars, numSuspensions, threadVars,
                   reclaimFailed, extCalls, failedChecks>>

(* An operator throws from reclaim(): setError, then rethrow.              *)
ReclaimThrows ==
    /\ "reclaimError" \in Events
    /\ rpc = "reclaiming"
    /\ SetError
    /\ rpc' = IF SetErrorProceeds THEN "fail" ELSE "resume"
    /\ reclaimFailed' = TRUE
    /\ UNCHANGED <<startVars, state, countVars, flagVars, numVars, onVars,
                   enqVars, futureVars, closeVars, numSuspensions, threadVars,
                   extCalls, failedChecks>>

ReclaimFail ==
    /\ rpc = "fail"
    /\ Terminate("kFailed", Reclaimer)
    /\ rpc' = "resume"
    /\ UNCHANGED <<startVars, flagVars, numVars, enqVars, futureVars,
                   closeVars, numSuspensions, threadVars, reclaimFailed,
                   extCalls, failedChecks>>

(* Task::resume.  A running task has its drivers enqueued in the order of  *)
(* drivers_, up to the first one that fails the VELOX_CHECK (reclaimTask   *)
(* logs that exception); a terminated one has its off thread drivers       *)
(* closed, which terminate() left alone because of the pause.              *)
MutNotWaiting == {d \in slots : d \notin isEnqueued}
NotWaiting == {d \in slots : numSuspensions[d] = 0 /\ d \notin isEnqueued}
BadDrivers == NotWaiting \cap (onThread \cup isTerminated)
MutResumedDrivers == {}
ResumedDrivers ==
    {d \in NotWaiting \ hasBlockingFuture : \A b \in BadDrivers : d < b}

ResumeRunning ==
    /\ Enqueue(ResumedDrivers)
    /\ failedChecks' = IF BadDrivers = {} THEN failedChecks
                       ELSE failedChecks \cup {"resumeOnThread"}
    /\ UNCHANGED <<numFinished, onVars>>

MutPausedDrivers == {}
PausedDrivers == slots \ (onThread \cup isTerminated)

ResumeTerminated ==
    /\ Detach(PausedDrivers, Reclaimer)
    /\ isTerminated' = isTerminated \cup PausedDrivers
    /\ failedChecks' = IF slots \cap onThread \subseteq isTerminated
                       THEN failedChecks
                       ELSE failedChecks \cup {"resumeNotTerminated"}
    /\ UNCHANGED enqVars

Resume ==
    /\ rpc = "resume" /\ FreeToGo(Reclaimer)
    /\ pauseRequested' = FALSE
    /\ IF Running THEN ResumeRunning ELSE ResumeTerminated
    /\ rpc' = IF reclaimFailed THEN "abort" ELSE "idle"
    /\ UNCHANGED <<startVars, stateVars, numRunning, toYield, numVars,
                   futureVars, closeVars, numSuspensions, threadVars,
                   reclaimFailed, extCalls>>

(* Task::MemoryReclaimer::abort: of a victim of the arbitrator, or after   *)
(* reclaim() threw.  A participant is aborted once.                        *)
AbortRequested ==
    /\ "abort" \in Events
    /\ rpc = "idle"
    /\ rpc' = "abort"
    /\ UNCHANGED <<startVars, stateVars, countVars, flagVars, numVars, onVars,
                   enqVars, futureVars, closeVars, numSuspensions, threadVars,
                   reclaimFailed, extCalls, failedChecks>>

AbortSetError ==
    /\ rpc = "abort" /\ FreeToGo(Reclaimer)
    /\ SetError
    /\ rpc' = IF SetErrorProceeds THEN "abortFail" ELSE "aborted"
    /\ UNCHANGED <<startVars, state, countVars, flagVars, numVars, onVars,
                   enqVars, futureVars, closeVars, numSuspensions, threadVars,
                   reclaimFailed, extCalls, failedChecks>>

AbortFail ==
    /\ rpc = "abortFail"
    /\ Terminate("kFailed", Reclaimer)
    /\ rpc' = "aborted"
    /\ UNCHANGED <<startVars, flagVars, numVars, enqVars, futureVars,
                   closeVars, numSuspensions, threadVars, reclaimFailed,
                   extCalls, failedChecks>>

-----------------------------------------------------------------------------
(* Task::requestCancel; requestAbort differs in the name of the state.     *)
Cancel ==
    /\ "cancel" \in Events
    /\ Running
    /\ Terminate("kCanceled", External)
    /\ UNCHANGED <<startVars, flagVars, numVars, enqVars, futureVars,
                   closeVars, numSuspensions, threadVars, reclaimVars,
                   extCalls, failedChecks>>

(* Task::setAllOutputConsumed, called by the output buffer.                *)
SetAllOutputConsumed ==
    /\ HasPartitionedOutput /\ ~consumed
    /\ phase = "started"
    /\ consumed' = TRUE
    /\ extCalls' = IF CheckIfFinished(numFinished, numFinishedOutput, TRUE)
                   THEN extCalls \cup {"kFinished"} ELSE extCalls
    /\ UNCHANGED <<phase, numFinishedOutput, stateVars, countVars, flagVars,
                   numVars, onVars, enqVars, futureVars, closeVars,
                   numSuspensions, threadVars, reclaimVars, failedChecks>>

(* The terminate() that ends a setError or setAllOutputConsumed call.      *)
ExtTerminate(s) ==
    /\ s \in extCalls
    /\ extCalls' = extCalls \ {s}
    /\ Terminate(s, External)
    /\ UNCHANGED <<startVars, flagVars, numVars, enqVars, futureVars,
                   closeVars, numSuspensions, threadVars, reclaimVars,
                   failedChecks>>

(* Task::requestYield and Task::yieldIfDue.                                *)
RequestYield ==
    /\ "yield" \in Events
    /\ toYield # numThreads
    /\ toYield' = numThreads
    /\ UNCHANGED <<startVars, stateVars, countVars, pauseRequested, numVars,
                   onVars, enqVars, futureVars, closeVars, numSuspensions,
                   threadVars, reclaimVars, extCalls, failedChecks>>

-----------------------------------------------------------------------------
Init ==
    /\ phase = "created"
    /\ state = "kRunning" /\ exception = FALSE /\ consumed = FALSE
    /\ pauseRequested = FALSE /\ toYield = 0
    /\ numThreads = 0 /\ finishPromises = {}
    /\ numRunning = 0 /\ numFinished = 0 /\ numFinishedOutput = 0
    /\ slots = {} /\ isEnqueued = {} /\ onThread = {} /\ isTerminated = {}
    /\ hasBlockingFuture = {} /\ closed = {}
    /\ armed = [d \in Drivers |-> 0]
    /\ numSuspensions = [d \in Drivers |-> 0]
    /\ numCloses = [d \in Drivers |-> 0]
    /\ queue = [d \in Drivers |-> 0]
    /\ closer = [d \in Drivers |-> NoOne]
    /\ pc = [t \in Threads |-> "idle"]
    /\ cur = [t \in Threads |-> 0]
    /\ stop = [t \in Threads |-> "kNone"]
    /\ ctx = [t \in Threads |-> "none"]
    /\ rpc = "idle" /\ reclaimFailed = FALSE
    /\ extCalls = {} /\ failedChecks = {}

(* What a thread does once it has picked up a closure.                     *)
ThreadStep(t) ==
    \/ CheckStop(t) \/ SliceExpired(t) \/ Block(t) \/ AtEnd(t) \/ Throw(t)
    \/ EnterSuspended(t) \/ EnterSuspendedThrows(t) \/ LeaveSuspended(t)
    \/ ThreadSetError(t) \/ ThreadFail(t) \/ Close(t) \/ RemoveDriver(t)
    \/ ThreadFinish(t) \/ Leave(t) \/ LeaveClosed(t) \/ Post(t)
    \/ SetResume(t) \/ RequeueCheck(t) \/ Requeue(t)

StartThread(t, d) == RunClosed(t, d) \/ EnterRuns(t, d) \/ EnterRefused(t, d)

(* The reclaimer goes on with what it began.                               *)
ReclaimStep ==
    \/ PauseAcked \/ ReclaimDone \/ ReclaimThrows \/ ReclaimFail \/ Resume
    \/ AbortSetError \/ AbortFail

Next ==
    \/ StartPlan \/ StartDrivers
    \/ \E t \in Threads : ThreadStep(t) \/ \E d \in Drivers : StartThread(t, d)
    \/ \E d \in Drivers : Resumed(d) \/ FutureError(d) \/ CloseByTask(d)
    \/ RequestPause \/ PauseTimeout \/ AbortRequested \/ ReclaimStep
    \/ Cancel \/ SetAllOutputConsumed \/ RequestYield
    \/ \E s \in {"kFailed", "kFinished"} : ExtTerminate(s)

Spec == Init /\ [][Next]_vars

-----------------------------------------------------------------------------
(* The fields of Task and ThreadState keep their types: toYield_ and the   *)
(* counts of finished drivers are never decremented below zero.            *)
TypeOK ==
    /\ phase \in {"created", "planned", "started"}
    /\ state \in {"kRunning", "kFinished", "kCanceled", "kFailed"}
    /\ exception \in BOOLEAN /\ consumed \in BOOLEAN
    /\ pauseRequested \in BOOLEAN /\ reclaimFailed \in BOOLEAN
    /\ toYield \in Nat
    /\ numThreads \in Int /\ numRunning \in Int
    /\ numFinished \in Nat /\ numFinishedOutput \in Nat
    /\ finishPromises \subseteq {"pause"}
    /\ slots \subseteq Drivers /\ isEnqueued \subseteq Drivers
    /\ onThread \subseteq Drivers /\ isTerminated \subseteq Drivers
    /\ hasBlockingFuture \subseteq Drivers /\ closed \subseteq Drivers
    /\ armed \in [Drivers -> Nat]
    /\ numSuspensions \in [Drivers -> Nat]
    /\ numCloses \in [Drivers -> Nat]
    /\ queue \in [Drivers -> Nat]
    /\ closer \in [Drivers -> Threads \cup {NoOne, Reclaimer, External}]
    /\ pc \in [Threads -> Pcs]
    /\ cur \in [Threads -> Drivers \cup {0}]
    /\ \A t \in Threads : pc[t] # "idle" => cur[t] \in Drivers
    /\ stop \in [Threads -> StopReasons]
    /\ ctx \in [Threads -> Contexts]
    /\ rpc \in {"idle", "waiting", "reclaiming", "fail", "resume", "abort",
                "abortFail", "aborted"}
    /\ extCalls \subseteq {"kFailed", "kFinished"}

(* numThreads_ is the number of threads inside the task that are not       *)
(* suspended, whatever the order of enter, leave, enterSuspended and       *)
(* leaveSuspended: the pause and the task completion wait for it to be 0.  *)
ThreadCount == numThreads = Cardinality({t \in Threads : Counted(t)})

(* At most one thread executes a driver, and it is the driver's thread     *)
(* (ThreadState::thread); no driver is executed once it was closed by      *)
(* somebody else, whatever pauses, yields and terminations race.           *)
ExclusiveDriver ==
    /\ \A t \in Threads : OnDriver(t) =>
          /\ cur[t] \in onThread /\ closer[cur[t]] = NoOne
          /\ pc[t] \in {"run", "suspended"} => cur[t] \notin closed
          /\ numSuspensions[cur[t]] > 0 <=> pc[t] = "suspended"
    /\ \A t, u \in Threads :
          OnDriver(t) /\ OnDriver(u) /\ cur[t] = cur[u] => t = u

(* While operators are being reclaimed no thread executes one of them, and *)
(* nobody is about to close one (the checks of                             *)
(* Operator::MemoryReclaimer::reclaim); the pause is still in force.       *)
ReclaimExclusive ==
    rpc = "reclaiming" =>
        /\ pauseRequested
        /\ \A t \in Threads : ~Counted(t)
        /\ \A d \in Drivers : closer[d] = NoOne
        /\ \A d \in slots : d \in onThread => numSuspensions[d] > 0

(* Every driver is closed, and once: not both by its thread                *)
(* (Driver::close) and by the task (Driver::closeByTask); after the        *)
(* termination every driver left in drivers_ is on a thread that will      *)
(* close it, unless a pause holds: then resume() closes it.                *)
ClosedOnce ==
    /\ \A d \in Drivers : numCloses[d] <= 1
    /\ ~Running /\ ~pauseRequested =>
          \A d \in slots : \E t \in Threads : OnDriver(t) /\ cur[t] = d

(* A driver of a running task that is not paused is never forgotten: it    *)
(* waits for a thread, is on one, has a callback on its future, or a       *)
(* thread is about to enqueue it or to set the callback.  A failed reclaim *)
(* may leave a driver behind, but then the task is being aborted, as a     *)
(* task with an exception is being terminated.                             *)
NoStrandedDriver ==
    Running /\ ~exception /\ ~pauseRequested /\ ~reclaimFailed =>
        \A d \in slots :
            \/ d \in isEnqueued /\ queue[d] > 0
            \/ d \in onThread
            \/ armed[d] > 0
            \/ \E t \in Threads : cur[t] = d /\ pc[t] \in PostPcs

(* The VELOX_CHECKs of enter(), of setResume's callback and of resume()    *)
(* hold when no driver yields, except that resume() may find a driver on   *)
(* thread after a pause that timed out, and that setResume() may meet a    *)
(* driver that terminate() has just taken.                                 *)
ChecksHold ==
    /\ failedChecks \subseteq {"resumeOnThread", "setResumeOnThread"}
    /\ "resumeOnThread" \in failedChecks => reclaimFailed

-----------------------------------------------------------------------------
(* Operators return and locks are fair, so a thread inside Driver::run     *)
(* goes on; so do the callers of terminate() and the reclaimer.  Nothing   *)
(* is assumed of blocking futures, timeouts, errors and users.             *)
Fairness ==
    /\ WF_vars(StartPlan) /\ WF_vars(StartDrivers)
    /\ \A t \in Threads : WF_vars(ThreadStep(t))
    /\ \A d \in Drivers : WF_vars(CloseByTask(d))
    /\ WF_vars(ReclaimStep)
    /\ \A s \in {"kFailed", "kFinished"} : WF_vars(ExtTerminate(s))

FairSpec == Spec /\ Fairness

AllClosed ==
    /\ slots = {} /\ numThreads = 0
    /\ \A d \in Drivers : closer[d] = NoOne

(* A terminated task has all of its drivers closed and all of its threads  *)
(* out, unless the reclaimer pauses it again and again: leaveSuspended()   *)
(* polls the pause flag and may find it set every time.                    *)
TerminationCompletes == <>[]~pauseRequested => (~Running ~> AllClosed)

(* A requested pause is acknowledged without a timeout: every thread goes  *)
(* off thread or into a suspended section, and none comes back.            *)
PauseAnswered == rpc = "waiting" ~> rpc # "waiting"

(* When all the drivers have finished and all the output was consumed, in  *)
(* either order, somebody notices and terminates the task.                 *)
FinishDetected == consumed /\ numFinished = NumDrivers ~> ~Running
=============================================================================
