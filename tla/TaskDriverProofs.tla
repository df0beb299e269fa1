-------------------------- MODULE TaskDriverProofs --------------------------
(* The theorems about TaskDriver, for any number of drivers and threads:   *)
(* types, the exclusion and the count of the threads, the pause, and the   *)
(* closing of the drivers.                                                 *)
EXTENDS TaskDriverInv, FiniteSetTheorems, TLAPS

-----------------------------------------------------------------------------
(* There are finitely many drivers.                                        *)
LEMMA DriversFinite == IsFiniteSet(Drivers)
  BY TaskAssumption, FS_Interval DEF Drivers

(* numThreads_ is a natural number.                                        *)
LEMMA NumThreadsNat == ASSUME ThreadCount PROVE numThreads \in Nat
  BY Zenon, ThreadsFinite, FS_Subset, FS_CardinalityType DEF ThreadCount

(* A set of drivers has a cardinality.                                     *)
LEMMA CardinalityOfDrivers ==
    ASSUME NEW D, D \subseteq Drivers PROVE Cardinality(D) \in Nat
  BY Zenon, DriversFinite, FS_Subset, FS_CardinalityType

(* numThreads_ stays a number when a thread leaves.                        *)
LEMMA DecrementType ==
    ASSUME TypeOK, DecrementThreads
    PROVE  numThreads' \in Int /\ finishPromises' \subseteq {"pause"}
  <1>1. CASE numThreads - 1 = 0
    BY <1>1 DEF TypeOK, DecrementThreads
  <1>2. CASE numThreads - 1 # 0
    BY <1>2 DEF TypeOK, DecrementThreads
  <1> QED
    BY Zenon, <1>1, <1>2

(* toYield_ stays a number when it is decremented.                         *)
LEMMA YieldType == ASSUME TypeOK PROVE ToYieldAfter \in Nat
  BY DEF TypeOK, ToYieldAfter, ShouldStop

(* Driver::enqueue keeps the types.                                        *)
LEMMA EnqueueType ==
    ASSUME TypeOK, NEW D, D \subseteq Drivers, Enqueue(D)
    PROVE  isEnqueued' \subseteq Drivers /\ queue' \in [Drivers -> Nat]
  BY DEF TypeOK, Enqueue

(* What terminate() detaches are drivers.                                  *)
LEMMA DetachType ==
    ASSUME TypeOK, NEW D, D \subseteq slots, NEW a, Detach(D, a),
           a \in Threads \cup {NoOne, Reclaimer, External}
    PROVE  /\ numFinished' \in Nat
           /\ slots' \subseteq Drivers /\ onThread' \subseteq Drivers
           /\ closer' \in [Drivers -> Threads \cup {NoOne, Reclaimer, External}]
  <1>1. D \subseteq Drivers
    BY Zenon DEF TypeOK
  <1>2. Cardinality(D) \in Nat
    BY Zenon, <1>1, CardinalityOfDrivers
  <1> QED
    BY <1>1, <1>2 DEF TypeOK, Detach, DriversClosed

(* terminate keeps the types.                                              *)
LEMMA TerminateType ==
    ASSUME TypeOK, NEW s \in {"kFinished", "kCanceled", "kFailed"}, NEW a,
           a \in Threads \cup {NoOne, Reclaimer, External}, Terminate(s, a)
    PROVE  /\ state' \in {"kRunning", "kFinished", "kCanceled", "kFailed"}
           /\ exception' \in BOOLEAN /\ numRunning' \in Int
           /\ numFinished' \in Nat
           /\ slots' \subseteq Drivers /\ onThread' \subseteq Drivers
           /\ isTerminated' \subseteq Drivers
           /\ closer' \in [Drivers -> Threads \cup {NoOne, Reclaimer, External}]
  <1>1. CASE UNCHANGED <<stateVars, countVars, onVars>>
    BY Zenon, <1>1 DEF TypeOK, stateVars, countVars, onVars
  <1>2. CASE /\ state' = s
             /\ exception' = (exception \/ s = "kCanceled")
             /\ numRunning' = 0
             /\ isTerminated' = isTerminated \cup (slots \cap onThread)
                                             \cup OffThreadDrivers
             /\ Detach(OffThreadDrivers, a)
    <2>1. OffThreadDrivers \subseteq slots
      BY Zenon DEF OffThreadDrivers
    <2>2. exception' \in BOOLEAN
      BY Zenon, <1>2
    <2>3. /\ numFinished' \in Nat
          /\ slots' \subseteq Drivers /\ onThread' \subseteq Drivers
          /\ closer' \in [Drivers -> Threads \cup {NoOne, Reclaimer, External}]
      BY Zenon, <1>2, <2>1, DetachType
    <2>4. isTerminated' \subseteq Drivers
      <3>1. slots \subseteq Drivers /\ isTerminated \subseteq Drivers
        BY Zenon DEF TypeOK
      <3> QED
        BY Zenon, <1>2, <2>1, <3>1
    <2> QED
      BY <1>2, <2>2, <2>3, <2>4
  <1> QED
    BY Zenon, <1>1, <1>2 DEF Terminate

(* Every step keeps the types.                                             *)
LEMMA TypeStep == ASSUME IInv, Next PROVE TypeOK'
  <1> USE DEF IInv, TypeOK, Pcs, OnThreadPcs, CountedPcs, PostPcs, ErrorPcs,
             StopReasons, Contexts, startVars, stateVars, countVars, flagVars, numVars, onVars,
             enqVars, futureVars, closeVars, threadVars, reclaimVars
  <1>1. ASSUME NEW t \in Threads, CheckStop(t) PROVE TypeOK'
    BY <1>1 DEF CheckStop, Goto, ShouldStop, ToYieldAfter
  <1>2. ASSUME NEW t \in Threads, SliceExpired(t) PROVE TypeOK'
    BY <1>2 DEF SliceExpired, Goto
  <1>3. ASSUME NEW t \in Threads, Block(t) PROVE TypeOK'
    BY <1>3 DEF Block, Goto
  <1>4. ASSUME NEW t \in Threads, AtEnd(t) PROVE TypeOK'
    BY <1>4 DEF AtEnd, Goto
  <1>5. ASSUME NEW t \in Threads, Throw(t) PROVE TypeOK'
    BY <1>5 DEF Throw, Goto, ThrowTo
  <1>6. ASSUME NEW t \in Threads, EnterSuspended(t) PROVE TypeOK'
    <2>1. numThreads' \in Int /\ finishPromises' \subseteq {"pause"}
      <3>1. DecrementThreads \/ UNCHANGED numVars
        BY Zenon, <1>6 DEF EnterSuspended
      <3> QED
        BY <3>1, DecrementType, Zenon
    <2> QED
      BY <1>6, <2>1, YieldType DEF EnterSuspended, Goto
  <1>7. ASSUME NEW t \in Threads, EnterSuspendedThrows(t) PROVE TypeOK'
    BY <1>7 DEF EnterSuspendedThrows, Goto, ThrowTo
  <1>8. ASSUME NEW t \in Threads, LeaveSuspended(t) PROVE TypeOK'
    BY <1>8 DEF LeaveSuspended, Goto, Outermost, ThreadInv, OnDriver
  <1>9. ASSUME NEW t \in Threads, ThreadSetError(t) PROVE TypeOK'
    BY <1>9 DEF ThreadSetError, Goto, SetError, AfterError
  <1>10. ASSUME NEW t \in Threads, ThreadFail(t) PROVE TypeOK'
    BY <1>10, TerminateType DEF ThreadFail, Goto, AfterError
  <1>11. ASSUME NEW t \in Threads, Close(t) PROVE TypeOK'
    BY <1>11 DEF Close, Goto, AfterClose
  <1>12. ASSUME NEW t \in Threads, RemoveDriver(t) PROVE TypeOK'
    BY <1>12 DEF RemoveDriver, Goto, AfterClose
  <1>13. ASSUME NEW t \in Threads, ThreadFinish(t) PROVE TypeOK'
    BY <1>13, TerminateType DEF ThreadFinish, Goto, AfterClose
  <1>14. ASSUME NEW t \in Threads, Leave(t)
       PROVE  TypeOK'
    <2>1. CASE cur[t] \in isTerminated \/ ShouldStop = "kTerminate"
      <3>1. /\ isTerminated' = isTerminated \cup {cur[t]}
            /\ pc' = [pc EXCEPT ![t] = "error"]
            /\ ctx' = [ctx EXCEPT ![t] = "cancel"]
            /\ UNCHANGED <<numVars, onThread>>
        BY Zenon, <1>14, <2>1 DEF Leave, Goto
      <3>2. toYield' \in Nat /\ pc[t] = "leave"
        BY Zenon, <1>14, YieldType DEF Leave
      <3> QED
        BY <1>14, <3>1, <3>2 DEF Leave
    <2>2. CASE ~(cur[t] \in isTerminated \/ ShouldStop = "kTerminate")
      BY <1>14, <2>2, YieldType, DecrementType DEF Leave, GoOffThread, Goto
    <2> QED
      BY Zenon, <2>1, <2>2
  <1>15. ASSUME NEW t \in Threads, LeaveClosed(t) PROVE TypeOK'
    BY <1>15, DecrementType DEF LeaveClosed, Goto, GoOffThread
  <1>16. ASSUME NEW t \in Threads, Post(t) PROVE TypeOK'
    BY <1>16 DEF Post, Goto, Idle, ToYieldAfter, ShouldStop
  <1>17. ASSUME NEW t \in Threads, SetResume(t) PROVE TypeOK'
    BY <1>17 DEF SetResume, Goto, Idle
  <1>18. ASSUME NEW t \in Threads, RequeueCheck(t) PROVE TypeOK'
    BY <1>18 DEF RequeueCheck, Goto, Idle
  <1>19. ASSUME NEW t \in Threads, Requeue(t) PROVE TypeOK'
    BY <1>19, EnqueueType DEF Requeue, Goto, Idle
  <1>20. ASSUME NEW t \in Threads, NEW d \in Drivers, RunClosed(t, d)
       PROVE  TypeOK'
    BY <1>20 DEF RunClosed, Goto
  <1>21. ASSUME NEW t \in Threads, NEW d \in Drivers, EnterRuns(t, d)
       PROVE  TypeOK'
    BY <1>21 DEF EnterRuns, Goto, ShouldStop
  <1>22. ASSUME NEW t \in Threads, NEW d \in Drivers, EnterRefused(t, d)
       PROVE  TypeOK'
    BY <1>22 DEF EnterRefused, Goto, ToYieldAfter, ShouldStop
  <1>23. ASSUME NEW d \in Drivers, Resumed(d)
       PROVE  TypeOK'
    <2>1. isEnqueued' \subseteq Drivers /\ queue' \in [Drivers -> Nat]
      BY Zenon, <1>23, EnqueueType DEF Resumed
    <2>2. exception' \in BOOLEAN /\ extCalls' \subseteq {"kFailed", "kFinished"}
      <3>1. CallbackFails(d) \/ UNCHANGED <<exception, extCalls>>
        BY Zenon, <1>23 DEF Resumed
      <3> QED
        BY <3>1, Zenon DEF CallbackFails, SetError
    <2>3. hasBlockingFuture' \subseteq Drivers
      BY Zenon, <1>23 DEF Resumed
    <2>4. armed' \in [Drivers -> Nat]
      BY <1>23 DEF Resumed
    <2> QED
      BY <1>23, <2>1, <2>2, <2>3, <2>4 DEF Resumed
  <1>24. ASSUME NEW d \in Drivers, FutureError(d) PROVE TypeOK'
    BY <1>24 DEF FutureError, CallbackFails, SetError
  <1>25. ASSUME NEW d \in Drivers, CloseByTask(d) PROVE TypeOK'
    BY <1>25 DEF CloseByTask
  <1>26. CASE StartPlan
    BY <1>26 DEF StartPlan
  <1>27. CASE StartDrivers
    <2>1. slots' \subseteq Drivers /\ numRunning' \in Int /\ numFinished' \in Nat
      BY <1>27, TaskAssumption DEF StartDrivers
    <2>2. isEnqueued' \subseteq Drivers /\ queue' \in [Drivers -> Nat]
      <3>1. Enqueue(Drivers) \/ UNCHANGED enqVars
        BY Zenon, <1>27 DEF StartDrivers
      <3> QED
        BY <3>1, EnqueueType, Zenon
    <2>3. /\ phase' = "started"
          /\ UNCHANGED <<consumed, numFinishedOutput, stateVars, flagVars,
                         numVars, onThread, isTerminated, closer, futureVars,
                         closeVars, numSuspensions, threadVars, reclaimVars,
                         extCalls>>
      BY Zenon, <1>27 DEF StartDrivers
    <2> QED
      BY <2>1, <2>2, <2>3
  <1>28. CASE RequestPause
    BY Zenon, <1>28 DEF RequestPause, MakeFinishFuture
  <1>29. CASE PauseTimeout
    BY Zenon, <1>29 DEF PauseTimeout
  <1>30. CASE AbortRequested
    BY <1>30 DEF AbortRequested
  <1>31. CASE PauseAcked
    BY <1>31 DEF PauseAcked
  <1>32. CASE ReclaimDone
    BY <1>32 DEF ReclaimDone
  <1>33. CASE ReclaimThrows
    BY Zenon, <1>33 DEF ReclaimThrows, SetError
  <1>34. CASE ReclaimFail
    BY Zenon, <1>34, TerminateType DEF ReclaimFail
  <1>35. CASE Resume
    <2>1. CASE Running
      <3>1. ResumedDrivers \subseteq Drivers
        BY Zenon DEF ResumedDrivers, NotWaiting
      <3>2. isEnqueued' \subseteq Drivers /\ queue' \in [Drivers -> Nat]
        BY <1>35, <2>1, <3>1, EnqueueType DEF Resume, ResumeRunning
      <3>3. UNCHANGED <<numFinished, onVars>>
        BY <1>35, <2>1 DEF Resume, ResumeRunning
      <3> QED
        BY <1>35, <3>2, <3>3, Zenon DEF Resume
    <2>2. CASE ~Running
      <3>1. Detach(PausedDrivers, Reclaimer) /\ UNCHANGED enqVars
        BY <1>35, <2>2 DEF Resume, ResumeTerminated
      <3>2. PausedDrivers \subseteq slots /\ PausedDrivers \subseteq Drivers
        BY Zenon DEF PausedDrivers
      <3>3. /\ numFinished' \in Nat
            /\ slots' \subseteq Drivers /\ onThread' \subseteq Drivers
            /\ closer' \in [Drivers -> Threads \cup {NoOne, Reclaimer, External}]
        BY <3>1, <3>2, DetachType, Zenon
      <3>4. isTerminated' \subseteq Drivers
        BY <1>35, <2>2, <3>2 DEF Resume, ResumeTerminated
      <3> QED
        BY <1>35, <3>1, <3>3, <3>4, Zenon DEF Resume
    <2> QED
      BY <2>1, <2>2
  <1>36. CASE AbortSetError
    BY <1>36 DEF AbortSetError, SetError
  <1>37. CASE AbortFail
    BY <1>37, TerminateType DEF AbortFail
  <1>38. CASE Cancel
    BY <1>38, TerminateType DEF Cancel
  <1>39. CASE SetAllOutputConsumed
    <2>1. consumed' = TRUE /\ extCalls' \subseteq {"kFailed", "kFinished"}
      BY Zenon, <1>39 DEF SetAllOutputConsumed
    <2>2. UNCHANGED <<phase, numFinishedOutput, stateVars, countVars, flagVars,
                      numVars, onVars, enqVars, futureVars, closeVars,
                      numSuspensions, threadVars, reclaimVars>>
      BY Zenon, <1>39 DEF SetAllOutputConsumed
    <2> QED
      BY <2>1, <2>2
  <1>40. CASE RequestYield
    BY <1>40, NumThreadsNat DEF RequestYield
  <1>41. ASSUME NEW s \in {"kFailed", "kFinished"}, ExtTerminate(s)
       PROVE  TypeOK'
    BY <1>41, TerminateType DEF ExtTerminate
  <1> HIDE DEF IInv, TypeOK
  <1> QED
    BY Zenon, <1>1, <1>2, <1>3, <1>4, <1>5, <1>6, <1>7, <1>8, <1>9, <1>10, <1>11,
       <1>12, <1>13, <1>14, <1>15, <1>16, <1>17, <1>18, <1>19, <1>20, <1>21,
       <1>22, <1>23, <1>24, <1>25, <1>26, <1>27, <1>28, <1>29, <1>30, <1>31,
       <1>32, <1>33, <1>34, <1>35, <1>36, <1>37, <1>38, <1>39, <1>40, <1>41
    DEF Next, ThreadStep, StartThread, ReclaimStep

-----------------------------------------------------------------------------
(* The types that the thread invariants need.                              *)
LEMMA TypeThreadTypes == ASSUME TypeOK PROVE ThreadTypes
  BY Zenon DEF TypeOK, ThreadTypes

(* A step that leaves the threads alone keeps what is known of them.       *)
LEMMA ThreadFrame ==
    ASSUME ThreadInv, UNCHANGED <<pc, ctx, cur, onThread, closer, closed,
                                  numSuspensions>>
    PROVE  ThreadInv'
  BY Zenon DEF ThreadInv, OnDriver, Counted

(* Every step keeps what is known of a thread by its place in the code.    *)
LEMMA ThreadStepInv == ASSUME IInv, Next PROVE ThreadInv'
  <1>0. ThreadTypes /\ ThreadInv
    BY Zenon, TypeThreadTypes DEF IInv
  <1>0a. DetachInv
    BY Zenon DEF IInv
  <1> USE DEF onVars, closeVars, threadVars
  <1>1. ASSUME NEW d \in Drivers,
             Resumed(d) \/ FutureError(d)
       PROVE  ThreadInv'
    <2>1. UNCHANGED <<pc, ctx, cur, onThread, closer, closed,
                      numSuspensions>>
      BY Zenon, <1>1 DEF Resumed, FutureError, Enqueue, CallbackFails, SetError
    <2> QED
      BY Zenon, <1>0, <2>1, ThreadFrame
  <1>2. ASSUME
             StartPlan \/ StartDrivers \/ RequestPause \/ PauseTimeout \/
             AbortRequested \/ PauseAcked \/ ReclaimDone
       PROVE  ThreadInv'
    <2>1. UNCHANGED <<pc, ctx, cur, onThread, closer, closed,
                      numSuspensions>>
      BY Zenon, <1>2
      DEF StartPlan, StartDrivers, RequestPause, PauseTimeout, AbortRequested,
          PauseAcked, ReclaimDone, Enqueue
    <2> QED
      BY Zenon, <1>0, <2>1, ThreadFrame
  <1>3. ASSUME
             ReclaimThrows \/ AbortSetError \/ SetAllOutputConsumed \/
             RequestYield
       PROVE  ThreadInv'
    <2>1. UNCHANGED <<pc, ctx, cur, onThread, closer, closed,
                      numSuspensions>>
      BY <1>3, Zenon
      DEF ReclaimThrows, AbortSetError, SetAllOutputConsumed, RequestYield,
          SetError
    <2> QED
      BY Zenon, <1>0, <2>1, ThreadFrame
  <1> USE <1>0 DEF ThreadTypes, ThreadInv, OnDriver, Counted, CountedPcs,
                   ErrorPcs
  <1>4. ASSUME NEW t \in Threads, CheckStop(t) PROVE ThreadInv'
    BY <1>4 DEF CheckStop, Goto, ShouldStop, ToYieldAfter
  <1>5. ASSUME NEW t \in Threads, SliceExpired(t) PROVE ThreadInv'
    BY <1>5 DEF SliceExpired, Goto
  <1>6. ASSUME NEW t \in Threads, Block(t) PROVE ThreadInv'
    BY <1>6 DEF Block, Goto
  <1>7. ASSUME NEW t \in Threads, AtEnd(t) PROVE ThreadInv'
    BY <1>7 DEF AtEnd, Goto
  <1>8. ASSUME NEW t \in Threads, Throw(t) PROVE ThreadInv'
    BY <1>8 DEF Throw, Goto, ThrowTo
  <1>9. ASSUME NEW t \in Threads, EnterSuspended(t) PROVE ThreadInv'
    BY <1>9
    DEF EnterSuspended, Goto, ToYieldAfter, ShouldStop, DecrementThreads,
        Outermost
  <1>10. ASSUME NEW t \in Threads, EnterSuspendedThrows(t) PROVE ThreadInv'
    BY <1>10 DEF EnterSuspendedThrows, Goto, ThrowTo
  <1>11. ASSUME NEW t \in Threads, LeaveSuspended(t) PROVE ThreadInv'
    BY <1>11 DEF LeaveSuspended, Goto, Outermost
  <1>12. ASSUME NEW t \in Threads, ThreadSetError(t) PROVE ThreadInv'
    BY <1>12 DEF ThreadSetError, Goto, SetError, AfterError
  <1>13. ASSUME NEW t \in Threads, ThreadFail(t) PROVE ThreadInv'
    BY <1>13, ThreadsAssumption
    DEF ThreadFail, Goto, Terminate, Detach, OffThreadDrivers, AfterError,
        NoOne, Reclaimer, External
  <1>14. ASSUME NEW t \in Threads, Close(t) PROVE ThreadInv'
    BY <1>14 DEF Close, Goto, AfterClose
  <1>15. ASSUME NEW t \in Threads, RemoveDriver(t) PROVE ThreadInv'
    BY <1>15 DEF RemoveDriver, Goto, AfterClose
  <1>16. ASSUME NEW t \in Threads, ThreadFinish(t) PROVE ThreadInv'
    BY <1>16, ThreadsAssumption
    DEF ThreadFinish, Goto, AfterClose, Terminate, Detach, OffThreadDrivers,
        NoOne, Reclaimer, External
  <1>17. ASSUME NEW t \in Threads, Leave(t) PROVE ThreadInv'
    BY <1>17
    DEF Leave, Goto, GoOffThread, DecrementThreads, ToYieldAfter, ShouldStop
  <1>18. ASSUME NEW t \in Threads, LeaveClosed(t) PROVE ThreadInv'
    BY <1>18 DEF LeaveClosed, Goto, GoOffThread, DecrementThreads
  <1>19. ASSUME NEW t \in Threads, Post(t) PROVE ThreadInv'
    BY <1>19 DEF Post, Goto, Idle, ToYieldAfter, ShouldStop
  <1>20. ASSUME NEW t \in Threads, SetResume(t) PROVE ThreadInv'
    BY <1>20 DEF SetResume, Goto, Idle
  <1>21. ASSUME NEW t \in Threads, RequeueCheck(t) PROVE ThreadInv'
    BY <1>21 DEF RequeueCheck, Goto, Idle
  <1>22. ASSUME NEW t \in Threads, Requeue(t) PROVE ThreadInv'
    BY <1>22 DEF Requeue, Goto, Idle, Enqueue
  <1>23. ASSUME NEW t \in Threads, NEW d \in Drivers, RunClosed(t, d)
       PROVE  ThreadInv'
    BY <1>23 DEF RunClosed, Goto
  <1>24. ASSUME NEW t \in Threads, NEW d \in Drivers, EnterRuns(t, d)
       PROVE  ThreadInv'
    BY <1>24, <1>0a DEF EnterRuns, Goto, ShouldStop, DetachInv
  <1>25. ASSUME NEW t \in Threads, NEW d \in Drivers, EnterRefused(t, d)
       PROVE  ThreadInv'
    BY <1>25 DEF EnterRefused, Goto, ToYieldAfter, ShouldStop
  <1>26. ASSUME NEW d \in Drivers, CloseByTask(d) PROVE ThreadInv'
    BY <1>26 DEF CloseByTask
  <1>27. CASE ReclaimFail
    BY <1>27, ThreadsAssumption
    DEF ReclaimFail, Terminate, Detach, OffThreadDrivers, NoOne, Reclaimer,
        External
  <1>28. CASE Resume
    BY <1>28
    DEF Resume, ResumeRunning, ResumeTerminated, PausedDrivers, Enqueue,
        Detach
  <1>29. CASE AbortFail
    BY <1>29, ThreadsAssumption
    DEF AbortFail, Terminate, Detach, OffThreadDrivers, NoOne, Reclaimer,
        External
  <1>30. CASE Cancel
    BY <1>30, ThreadsAssumption
    DEF Cancel, Terminate, Detach, OffThreadDrivers, NoOne, Reclaimer,
        External
  <1>31. ASSUME NEW s \in {"kFailed", "kFinished"}, ExtTerminate(s)
       PROVE  ThreadInv'
    BY <1>31, ThreadsAssumption
    DEF ExtTerminate, Terminate, Detach, OffThreadDrivers, NoOne, Reclaimer,
        External
  <1> HIDE <1>0 DEF ThreadInv
  <1> QED
    BY Zenon, <1>1, <1>2, <1>3, <1>4, <1>5, <1>6, <1>7, <1>8, <1>9, <1>10, <1>11,
       <1>12, <1>13, <1>14, <1>15, <1>16, <1>17, <1>18, <1>19, <1>20, <1>21,
       <1>22, <1>23, <1>24, <1>25, <1>26, <1>27, <1>28, <1>29, <1>30, <1>31
    DEF Next, ThreadStep, StartThread, ReclaimStep

-----------------------------------------------------------------------------
(* A step that moves no thread and no count.                               *)
LEMMA CountFrame ==
    ASSUME ThreadCount, UNCHANGED <<pc, ctx, numThreads>>
    PROVE  ThreadCount'
  BY Zenon DEF ThreadCount, Counted

(* A step after which the same threads are counted.                        *)
LEMMA CountSame ==
    ASSUME ThreadCount, numThreads' = numThreads,
           \A t \in Threads : Counted(t)' <=> Counted(t)
    PROVE  ThreadCount'
  BY Zenon DEF ThreadCount

(* A thread that enters, or is no longer suspended.                        *)
LEMMA CountAdd ==
    ASSUME ThreadCount, NEW t \in Threads, ~Counted(t), Counted(t)',
           \A u \in Threads \ {t} : Counted(u)' <=> Counted(u),
           numThreads' = numThreads + 1
    PROVE  ThreadCount'
  <1>1. IsFiniteSet(CountedThreads) /\ t \notin CountedThreads
    BY Zenon, ThreadsFinite, FS_Subset DEF CountedThreads
  <1>2. CountedThreads' = CountedThreads \cup {t}
    BY Zenon DEF CountedThreads
  <1>3. Cardinality(CountedThreads') = Cardinality(CountedThreads) + 1
    BY Zenon, <1>1, <1>2, FS_AddElement
  <1> QED
    BY Zenon, <1>3 DEF ThreadCount, CountedThreads

(* A thread that leaves, or suspends.                                      *)
LEMMA CountRemove ==
    ASSUME ThreadCount, NEW t \in Threads, Counted(t), ~Counted(t)',
           \A u \in Threads \ {t} : Counted(u)' <=> Counted(u),
           numThreads' = numThreads - 1
    PROVE  ThreadCount'
  <1>1. IsFiniteSet(CountedThreads) /\ t \in CountedThreads
    BY Zenon, ThreadsFinite, FS_Subset DEF CountedThreads
  <1>2. CountedThreads' = CountedThreads \ {t}
    BY Zenon DEF CountedThreads
  <1>3. Cardinality(CountedThreads') = Cardinality(CountedThreads) - 1
    BY Zenon, <1>1, <1>2, FS_RemoveElement
  <1> QED
    BY Zenon, <1>3 DEF ThreadCount, CountedThreads

(* Every step counts the threads right.                                    *)
LEMMA CountStep == ASSUME IInv, Next PROVE ThreadCount'
  <1>0. ThreadTypes /\ ThreadInv /\ ThreadCount
    BY Zenon, TypeThreadTypes DEF IInv
  <1> USE DEF numVars, threadVars
  <1>1. ASSUME NEW d \in Drivers,
             Resumed(d) \/ FutureError(d) \/ CloseByTask(d)
       PROVE  ThreadCount'
    <2>1. UNCHANGED <<pc, ctx, numThreads>>
      BY Zenon, <1>1 DEF Resumed, FutureError, CloseByTask
    <2> QED
      BY Zenon, <1>0, <2>1, CountFrame
  <1>2. ASSUME
             StartPlan \/ StartDrivers \/ RequestPause \/ PauseTimeout \/
             AbortRequested \/ PauseAcked \/ ReclaimDone
       PROVE  ThreadCount'
    <2>1. UNCHANGED <<pc, ctx, numThreads>>
      BY Zenon, <1>2
      DEF StartPlan, StartDrivers, RequestPause, PauseTimeout, AbortRequested,
          PauseAcked, ReclaimDone
    <2> QED
      BY Zenon, <1>0, <2>1, CountFrame
  <1>3. ASSUME
             ReclaimThrows \/ ReclaimFail \/ Resume \/ AbortSetError \/
             AbortFail \/ Cancel \/ SetAllOutputConsumed
       PROVE  ThreadCount'
    <2>1. UNCHANGED <<pc, ctx, numThreads>>
      BY <1>3, Zenon
      DEF ReclaimThrows, ReclaimFail, Resume, AbortSetError, AbortFail,
          Cancel, SetAllOutputConsumed
    <2> QED
      BY Zenon, <1>0, <2>1, CountFrame
  <1>4. ASSUME
             RequestYield
       PROVE  ThreadCount'
    <2>1. UNCHANGED <<pc, ctx, numThreads>>
      BY Zenon, <1>4 DEF RequestYield
    <2> QED
      BY Zenon, <1>0, <2>1, CountFrame
  <1>5. ASSUME NEW s \in {"kFailed", "kFinished"},
             ExtTerminate(s)
       PROVE  ThreadCount'
    <2>1. UNCHANGED <<pc, ctx, numThreads>>
      BY Zenon, <1>5 DEF ExtTerminate
    <2> QED
      BY Zenon, <1>0, <2>1, CountFrame
  <1> USE <1>0 DEF ThreadTypes, Counted, CountedPcs, ErrorPcs
  <1>6. ASSUME NEW t \in Threads, CheckStop(t) PROVE ThreadCount'
    BY Zenon, <1>6, CountSame DEF CheckStop, Goto
  <1>7. ASSUME NEW t \in Threads, SliceExpired(t) PROVE ThreadCount'
    BY Zenon, <1>7, CountSame DEF SliceExpired, Goto
  <1>8. ASSUME NEW t \in Threads, Block(t) PROVE ThreadCount'
    BY Zenon, <1>8, CountSame DEF Block, Goto
  <1>9. ASSUME NEW t \in Threads, AtEnd(t) PROVE ThreadCount'
    BY Zenon, <1>9, CountSame DEF AtEnd, Goto
  <1>10. ASSUME NEW t \in Threads, Throw(t) PROVE ThreadCount'
    BY Zenon, <1>10, CountSame DEF Throw, Goto, ThrowTo
  <1>11. ASSUME NEW t \in Threads, EnterSuspended(t)
       PROVE  ThreadCount'
    <2>1. numSuspensions[cur[t]] = 0 <=> pc[t] = "run"
      BY <1>11 DEF EnterSuspended, ThreadInv, OnDriver
    <2>2. CASE pc[t] = "run"
      BY Zenon, <1>11, <2>1, <2>2, CountRemove
      DEF EnterSuspended, Outermost, DecrementThreads, Goto
    <2>3. CASE pc[t] = "suspended"
      BY Zenon, <1>11, <2>1, <2>3, CountSame DEF EnterSuspended, Outermost, Goto
    <2> QED
      BY Zenon, <1>11, <2>2, <2>3 DEF EnterSuspended
  <1>12. ASSUME NEW t \in Threads, EnterSuspendedThrows(t) PROVE ThreadCount'
    BY Zenon, <1>12, CountSame DEF EnterSuspendedThrows, Goto, ThrowTo
  <1>13. ASSUME NEW t \in Threads, LeaveSuspended(t)
       PROVE  ThreadCount'
    <2>1. CASE Outermost(cur[t], 1)
      BY Zenon, <1>13, <2>1, CountAdd DEF LeaveSuspended, Goto
    <2>2. CASE ~Outermost(cur[t], 1)
      BY Zenon, <1>13, <2>2, CountSame DEF LeaveSuspended
    <2> QED
      BY Zenon, <2>1, <2>2
  <1>14. ASSUME NEW t \in Threads, ThreadSetError(t) PROVE ThreadCount'
    BY Zenon, <1>14, CountSame DEF ThreadSetError, Goto, AfterError
  <1>15. ASSUME NEW t \in Threads, ThreadFail(t) PROVE ThreadCount'
    BY Zenon, <1>15, CountSame DEF ThreadFail, Goto, AfterError
  <1>16. ASSUME NEW t \in Threads, Close(t) PROVE ThreadCount'
    BY Zenon, <1>16, CountSame DEF Close, Goto, AfterClose
  <1>17. ASSUME NEW t \in Threads, RemoveDriver(t) PROVE ThreadCount'
    BY Zenon, <1>17, CountSame DEF RemoveDriver, Goto, AfterClose
  <1>18. ASSUME NEW t \in Threads, ThreadFinish(t) PROVE ThreadCount'
    BY Zenon, <1>18, CountSame DEF ThreadFinish, Goto, AfterClose
  <1>19. ASSUME NEW t \in Threads, Leave(t)
       PROVE  ThreadCount'
    <2>1. CASE cur[t] \in isTerminated \/ ShouldStop = "kTerminate"
      BY Zenon, <1>19, <2>1, CountSame DEF Leave, Goto
    <2>2. CASE ~(cur[t] \in isTerminated \/ ShouldStop = "kTerminate")
      BY Zenon, <1>19, <2>2, CountRemove DEF Leave, GoOffThread, DecrementThreads, Goto
    <2> QED
      BY Zenon, <2>1, <2>2
  <1>20. ASSUME NEW t \in Threads, LeaveClosed(t)
       PROVE  ThreadCount'
    BY Zenon, <1>20, CountRemove DEF LeaveClosed, GoOffThread, DecrementThreads, Goto
  <1>21. ASSUME NEW t \in Threads, Post(t) PROVE ThreadCount'
    BY <1>21, CountSame DEF Post, Goto, Idle
  <1>22. ASSUME NEW t \in Threads, SetResume(t) PROVE ThreadCount'
    BY Zenon, <1>22, CountSame DEF SetResume, Goto, Idle
  <1>23. ASSUME NEW t \in Threads, RequeueCheck(t) PROVE ThreadCount'
    BY <1>23, CountSame DEF RequeueCheck, Goto, Idle
  <1>24. ASSUME NEW t \in Threads, Requeue(t) PROVE ThreadCount'
    BY Zenon, <1>24, CountSame DEF Requeue, Goto, Idle
  <1>25. ASSUME NEW t \in Threads, NEW d \in Drivers, RunClosed(t, d)
       PROVE  ThreadCount'
    BY Zenon, <1>25, CountSame DEF RunClosed, Goto
  <1>26. ASSUME NEW t \in Threads, NEW d \in Drivers, EnterRuns(t, d)
       PROVE  ThreadCount'
    BY Zenon, <1>26, CountAdd DEF EnterRuns, Goto
  <1>27. ASSUME NEW t \in Threads, NEW d \in Drivers, EnterRefused(t, d)
       PROVE  ThreadCount'
    BY Zenon, <1>27, CountSame DEF EnterRefused, Goto
  <1> HIDE <1>0
  <1> QED
    BY Zenon, <1>1, <1>2, <1>3, <1>4, <1>5, <1>6, <1>7, <1>8, <1>9, <1>10, <1>11,
       <1>12, <1>13, <1>14, <1>15, <1>16, <1>17, <1>18, <1>19, <1>20, <1>21,
       <1>22, <1>23, <1>24, <1>25, <1>26, <1>27
    DEF Next, ThreadStep, StartThread, ReclaimStep

-----------------------------------------------------------------------------
(* A step that moves no thread and closes no driver.                       *)
LEMMA DetachFrame ==
    ASSUME DetachInv, UNCHANGED <<pc, ctx, cur, onThread, closer, slots, state>>
    PROVE  DetachInv'
  BY Zenon DEF DetachInv, OnDriver, Counted, Running

(* Every step keeps the drivers on thread in the hands of one closer.      *)
LEMMA DetachStep == ASSUME IInv, Next PROVE DetachInv'
  <1>0. ThreadTypes /\ ThreadInv /\ DetachInv
    BY Zenon, TypeThreadTypes DEF IInv
  <1>0a. StartInv
    BY Zenon DEF IInv
  <1> USE DEF onVars, stateVars, threadVars
  <1>1. ASSUME NEW d \in Drivers,
             Resumed(d) \/ FutureError(d)
       PROVE  DetachInv'
    <2>1. UNCHANGED <<pc, ctx, cur, onThread, closer, slots, state>>
      BY Zenon, <1>1 DEF Resumed, FutureError, Enqueue, CallbackFails, SetError
    <2> QED
      BY Zenon, <1>0, <2>1, DetachFrame
  <1>2. ASSUME
             StartPlan \/ RequestPause \/ PauseTimeout \/ AbortRequested \/
             PauseAcked \/ ReclaimDone \/ ReclaimThrows
       PROVE  DetachInv'
    <2>1. UNCHANGED <<pc, ctx, cur, onThread, closer, slots, state>>
      BY Zenon, <1>2
      DEF StartPlan, RequestPause, PauseTimeout, AbortRequested, PauseAcked,
          ReclaimDone, ReclaimThrows, SetError
    <2> QED
      BY Zenon, <1>0, <2>1, DetachFrame
  <1>3. ASSUME
             AbortSetError \/ SetAllOutputConsumed \/ RequestYield
       PROVE  DetachInv'
    <2>1. UNCHANGED <<pc, ctx, cur, onThread, closer, slots, state>>
      BY <1>3, Zenon
      DEF AbortSetError, SetAllOutputConsumed, RequestYield, SetError
    <2> QED
      BY Zenon, <1>0, <2>1, DetachFrame
  <1> USE <1>0 DEF ThreadTypes, ThreadInv, DetachInv, OnDriver, Counted,
                   Running, CountedPcs, ErrorPcs
  <1>4. ASSUME NEW t \in Threads, CheckStop(t) PROVE DetachInv'
    BY Zenon, <1>4 DEF CheckStop, Goto, ShouldStop, ToYieldAfter
  <1>5. ASSUME NEW t \in Threads, SliceExpired(t) PROVE DetachInv'
    BY Zenon, <1>5 DEF SliceExpired, Goto
  <1>6. ASSUME NEW t \in Threads, Block(t) PROVE DetachInv'
    BY Zenon, <1>6 DEF Block, Goto
  <1>7. ASSUME NEW t \in Threads, AtEnd(t) PROVE DetachInv'
    BY Zenon, <1>7 DEF AtEnd, Goto
  <1>8. ASSUME NEW t \in Threads, Throw(t) PROVE DetachInv'
    BY Zenon, <1>8 DEF Throw, Goto, ThrowTo
  <1>9. ASSUME NEW t \in Threads, EnterSuspended(t) PROVE DetachInv'
    BY Zenon, <1>9
    DEF EnterSuspended, Goto, ToYieldAfter, ShouldStop, DecrementThreads,
        Outermost
  <1>10. ASSUME NEW t \in Threads, EnterSuspendedThrows(t) PROVE DetachInv'
    BY Zenon, <1>10 DEF EnterSuspendedThrows, Goto, ThrowTo
  <1>11. ASSUME NEW t \in Threads, LeaveSuspended(t) PROVE DetachInv'
    BY <1>11 DEF LeaveSuspended, Goto, Outermost
  <1>12. ASSUME NEW t \in Threads, ThreadSetError(t) PROVE DetachInv'
    BY <1>12 DEF ThreadSetError, Goto, SetError, AfterError
  <1>13. ASSUME NEW t \in Threads, ThreadFail(t) PROVE DetachInv'
    BY <1>13
    DEF ThreadFail, Goto, Terminate, Detach, OffThreadDrivers, AfterError
  <1>14. ASSUME NEW t \in Threads, Close(t) PROVE DetachInv'
    BY <1>14 DEF Close, Goto, AfterClose
  <1>15. ASSUME NEW t \in Threads, RemoveDriver(t) PROVE DetachInv'
    BY Zenon, <1>15 DEF RemoveDriver, Goto, AfterClose
  <1>16. ASSUME NEW t \in Threads, ThreadFinish(t) PROVE DetachInv'
    BY <1>16
    DEF ThreadFinish, Goto, AfterClose, Terminate, Detach, OffThreadDrivers
  <1>17. ASSUME NEW t \in Threads, Leave(t) PROVE DetachInv'
    BY <1>17
    DEF Leave, Goto, GoOffThread, DecrementThreads, ToYieldAfter, ShouldStop
  <1>18. ASSUME NEW t \in Threads, LeaveClosed(t) PROVE DetachInv'
    BY Zenon, <1>18 DEF LeaveClosed, Goto, GoOffThread, DecrementThreads
  <1>19. ASSUME NEW t \in Threads, Post(t) PROVE DetachInv'
    BY <1>19 DEF Post, Goto, Idle, ToYieldAfter, ShouldStop
  <1>20. ASSUME NEW t \in Threads, SetResume(t) PROVE DetachInv'
    BY Zenon, <1>20 DEF SetResume, Goto, Idle
  <1>21. ASSUME NEW t \in Threads, RequeueCheck(t) PROVE DetachInv'
    BY <1>21 DEF RequeueCheck, Goto, Idle
  <1>22. ASSUME NEW t \in Threads, Requeue(t) PROVE DetachInv'
    BY Zenon, <1>22 DEF Requeue, Goto, Idle, Enqueue
  <1>23. ASSUME NEW t \in Threads, NEW d \in Drivers, RunClosed(t, d)
       PROVE  DetachInv'
    BY Zenon, <1>23 DEF RunClosed, Goto
  <1>24. ASSUME NEW t \in Threads, NEW d \in Drivers, EnterRuns(t, d)
       PROVE  DetachInv'
    BY <1>24 DEF EnterRuns, Goto, ShouldStop
  <1>25. ASSUME NEW t \in Threads, NEW d \in Drivers, EnterRefused(t, d)
       PROVE  DetachInv'
    BY <1>25 DEF EnterRefused, Goto, ToYieldAfter, ShouldStop
  <1>26. ASSUME NEW d \in Drivers, CloseByTask(d) PROVE DetachInv'
    BY Zenon, <1>26 DEF CloseByTask
  <1>27. CASE StartDrivers
    BY Zenon, <1>27, <1>0a DEF StartDrivers, Enqueue, StartInv
  <1>28. CASE ReclaimFail
    BY <1>28 DEF ReclaimFail, Terminate, Detach, OffThreadDrivers
  <1>29. CASE Resume
    <2>1. CASE Running
      <3>1. UNCHANGED <<pc, ctx, cur, onThread, closer, slots, state>>
        BY Zenon, <1>29, <2>1 DEF Resume, ResumeRunning
      <3> QED
        BY Zenon, <3>1, DetachFrame
    <2>2. CASE ~Running
      BY <1>29, <2>2 DEF Resume, ResumeTerminated, PausedDrivers, Detach
    <2> QED
      BY Zenon, <2>1, <2>2
  <1>30. CASE AbortFail
    BY <1>30 DEF AbortFail, Terminate, Detach, OffThreadDrivers
  <1>31. CASE Cancel
    BY <1>31 DEF Cancel, Terminate, Detach, OffThreadDrivers
  <1>32. ASSUME NEW s \in {"kFailed", "kFinished"}, ExtTerminate(s)
       PROVE  DetachInv'
    BY <1>32 DEF ExtTerminate, Terminate, Detach, OffThreadDrivers
  <1> HIDE <1>0 DEF DetachInv, ThreadInv
  <1> QED
    BY Zenon, <1>1, <1>2, <1>3, <1>4, <1>5, <1>6, <1>7, <1>8, <1>9, <1>10, <1>11,
       <1>12, <1>13, <1>14, <1>15, <1>16, <1>17, <1>18, <1>19, <1>20, <1>21,
       <1>22, <1>23, <1>24, <1>25, <1>26, <1>27, <1>28, <1>29, <1>30, <1>31,
       <1>32
    DEF Next, ThreadStep, StartThread, ReclaimStep

-----------------------------------------------------------------------------
(* While a thread is in the task the count is not zero.                    *)
LEMMA CountedPositive ==
    ASSUME ThreadCount, NEW t \in Threads, Counted(t) PROVE numThreads > 0
  <1>1. IsFiniteSet(CountedThreads) /\ CountedThreads # {}
    BY Zenon, ThreadsFinite, FS_Subset DEF CountedThreads
  <1> QED
    BY <1>1, FS_EmptySet, FS_CardinalityType DEF ThreadCount, CountedThreads

(* terminate() leaves the drivers of a paused task to resume().            *)
LEMMA PausedTerminate ==
    ASSUME ThreadTypes, NEW s, NEW a, Terminate(s, a), pauseRequested
    PROVE  closer' = closer
  BY Zenon DEF ThreadTypes, Terminate, OffThreadDrivers, Detach, onVars

(* A step that leaves the pause and the threads alone.                     *)
LEMMA PauseFrame ==
    ASSUME PauseInv, UNCHANGED <<rpc, pauseRequested, finishPromises, numThreads,
                                 closer>>
    PROVE  PauseInv'
  BY Zenon DEF PauseInv

(* Every step keeps an acknowledged pause without threads.                 *)
LEMMA PauseStep == ASSUME IInv, Next PROVE PauseInv'
  <1>0. ThreadTypes /\ PauseInv
    BY Zenon, TypeThreadTypes DEF IInv
  <1>0a. ThreadCount
    BY Zenon DEF IInv
  <1>0b. ThreadInv /\ DetachInv
    BY Zenon DEF IInv
  <1> USE DEF numVars, flagVars, reclaimVars, onVars
  <1>1. ASSUME NEW t \in Threads,
             CheckStop(t) \/ SliceExpired(t) \/ Block(t) \/ AtEnd(t)
       PROVE  PauseInv'
    <2>1. UNCHANGED <<rpc, pauseRequested, finishPromises, numThreads, closer>>
      BY Zenon, <1>1 DEF CheckStop, SliceExpired, Block, AtEnd, Goto
    <2> QED
      BY Zenon, <1>0, <2>1, PauseFrame
  <1>2. ASSUME NEW t \in Threads,
             Throw(t) \/ EnterSuspendedThrows(t) \/ ThreadSetError(t) \/
             Close(t)
       PROVE  PauseInv'
    <2>1. UNCHANGED <<rpc, pauseRequested, finishPromises, numThreads, closer>>
      BY Zenon, <1>2
      DEF Throw, EnterSuspendedThrows, ThreadSetError, Close, Goto, ThrowTo,
          SetError
    <2> QED
      BY Zenon, <1>0, <2>1, PauseFrame
  <1>3. ASSUME NEW t \in Threads,
             RemoveDriver(t) \/ Post(t) \/ SetResume(t) \/ RequeueCheck(t)
       PROVE  PauseInv'
    <2>1. UNCHANGED <<rpc, pauseRequested, finishPromises, numThreads, closer>>
      BY Zenon, <1>3 DEF RemoveDriver, Post, SetResume, RequeueCheck, Goto, Idle
    <2> QED
      BY Zenon, <1>0, <2>1, PauseFrame
  <1>4. ASSUME NEW t \in Threads,
             Requeue(t)
       PROVE  PauseInv'
    <2>1. UNCHANGED <<rpc, pauseRequested, finishPromises, numThreads, closer>>
      BY Zenon, <1>4 DEF Requeue, Goto, Idle
    <2> QED
      BY Zenon, <1>0, <2>1, PauseFrame
  <1>5. ASSUME NEW t \in Threads, NEW d \in Drivers,
             RunClosed(t, d) \/ EnterRefused(t, d)
       PROVE  PauseInv'
    <2>1. UNCHANGED <<rpc, pauseRequested, finishPromises, numThreads, closer>>
      BY Zenon, <1>5 DEF RunClosed, EnterRefused, Goto
    <2> QED
      BY Zenon, <1>0, <2>1, PauseFrame
  <1>6. ASSUME NEW d \in Drivers,
             Resumed(d) \/ FutureError(d)
       PROVE  PauseInv'
    <2>1. UNCHANGED <<rpc, pauseRequested, finishPromises, numThreads, closer>>
      BY Zenon, <1>6 DEF Resumed, FutureError, CallbackFails, SetError
    <2> QED
      BY Zenon, <1>0, <2>1, PauseFrame
  <1>7. ASSUME
             StartPlan \/ StartDrivers \/ SetAllOutputConsumed \/ RequestYield
       PROVE  PauseInv'
    <2>1. UNCHANGED <<rpc, pauseRequested, finishPromises, numThreads, closer>>
      BY <1>7, Zenon
      DEF StartPlan, StartDrivers, SetAllOutputConsumed, RequestYield
    <2> QED
      BY Zenon, <1>0, <2>1, PauseFrame
  <1> USE <1>0 DEF ThreadTypes, PauseInv
  <1>8. ASSUME NEW t \in Threads, EnterSuspended(t) PROVE PauseInv'
    BY <1>8, <1>0a, <1>0b, CountedPositive
    DEF EnterSuspended, Goto, ShouldStop, DecrementThreads, Outermost,
        Counted, CountedPcs, ThreadInv, OnDriver
  <1>9. ASSUME NEW t \in Threads, LeaveSuspended(t) PROVE PauseInv'
    BY <1>9, <1>0b DEF LeaveSuspended, Goto, Outermost, ThreadInv, OnDriver
  <1>10. ASSUME NEW t \in Threads, ThreadFail(t) PROVE PauseInv'
    BY Zenon, <1>10, PausedTerminate DEF ThreadFail, Goto
  <1>11. ASSUME NEW t \in Threads, ThreadFinish(t) PROVE PauseInv'
    BY Zenon, <1>11, PausedTerminate DEF ThreadFinish, Goto
  <1>12. ASSUME NEW t \in Threads, Leave(t) PROVE PauseInv'
    BY <1>12, <1>0a, CountedPositive
    DEF Leave, Goto, GoOffThread, DecrementThreads, ShouldStop, Counted,
        CountedPcs
  <1>13. ASSUME NEW t \in Threads, LeaveClosed(t) PROVE PauseInv'
    BY <1>13, <1>0a, CountedPositive
    DEF LeaveClosed, Goto, GoOffThread, DecrementThreads, Counted, CountedPcs
  <1>14. ASSUME NEW t \in Threads, NEW d \in Drivers, EnterRuns(t, d)
       PROVE  PauseInv'
    BY Zenon, <1>14 DEF EnterRuns, Goto, ShouldStop
  <1>15. ASSUME NEW d \in Drivers, CloseByTask(d) PROVE PauseInv'
    BY Zenon, <1>15 DEF CloseByTask
  <1>16. CASE RequestPause
    BY Zenon, <1>16 DEF RequestPause, MakeFinishFuture
  <1>17. CASE PauseTimeout
    BY Zenon, <1>17 DEF PauseTimeout
  <1>18. CASE AbortRequested
    BY Zenon, <1>18 DEF AbortRequested
  <1>19. CASE PauseAcked
    BY Zenon, <1>19, <1>0b DEF PauseAcked, DetachInv, TerminateRequested
  <1>20. CASE ReclaimDone
    BY Zenon, <1>20 DEF ReclaimDone
  <1>21. CASE ReclaimThrows
    BY Zenon, <1>21 DEF ReclaimThrows, SetError
  <1>22. CASE ReclaimFail
    BY Zenon, <1>22, PausedTerminate DEF ReclaimFail
  <1>23. CASE Resume
    BY Zenon, <1>23 DEF Resume
  <1>24. CASE AbortSetError
    BY Zenon, <1>24 DEF AbortSetError, SetError
  <1>25. CASE AbortFail
    BY Zenon, <1>25, PausedTerminate DEF AbortFail
  <1>26. CASE Cancel
    BY Zenon, <1>26, PausedTerminate DEF Cancel
  <1>27. ASSUME NEW s \in {"kFailed", "kFinished"}, ExtTerminate(s)
       PROVE  PauseInv'
    BY Zenon, <1>27, PausedTerminate DEF ExtTerminate
  <1> HIDE <1>0 DEF PauseInv
  <1> QED
    BY Zenon, <1>1, <1>2, <1>3, <1>4, <1>5, <1>6, <1>7, <1>8, <1>9, <1>10, <1>11,
       <1>12, <1>13, <1>14, <1>15, <1>16, <1>17, <1>18, <1>19, <1>20, <1>21,
       <1>22, <1>23, <1>24, <1>25, <1>26, <1>27
    DEF Next, ThreadStep, StartThread, ReclaimStep

-----------------------------------------------------------------------------
(* A step that starts no driver.                                           *)
LEMMA StartFrame ==
    ASSUME StartInv, UNCHANGED <<phase, slots, onThread, pc, queue, armed>>
    PROVE  StartInv'
  BY Zenon DEF StartInv

(* Every step keeps the drivers of a task that has not started untouched.  *)
LEMMA StartStep == ASSUME IInv, Next PROVE StartInv'
  <1>0. ThreadTypes /\ StartInv
    BY Zenon, TypeThreadTypes DEF IInv
  <1> USE DEF startVars, onVars, threadVars, enqVars, futureVars
  <1>1. ASSUME NEW d \in Drivers,
             CloseByTask(d)
       PROVE  StartInv'
    <2>1. UNCHANGED <<phase, slots, onThread, pc, queue, armed>>
      BY Zenon, <1>1 DEF CloseByTask
    <2> QED
      BY Zenon, <1>0, <2>1, StartFrame
  <1>2. ASSUME
             RequestPause \/ PauseTimeout \/ AbortRequested \/ PauseAcked \/
             ReclaimDone \/ ReclaimThrows \/ AbortSetError
       PROVE  StartInv'
    <2>1. UNCHANGED <<phase, slots, onThread, pc, queue, armed>>
      BY Zenon, <1>2
      DEF RequestPause, PauseTimeout, AbortRequested, PauseAcked, ReclaimDone,
          ReclaimThrows, AbortSetError, SetError
    <2> QED
      BY Zenon, <1>0, <2>1, StartFrame
  <1>3. ASSUME
             SetAllOutputConsumed \/ RequestYield
       PROVE  StartInv'
    <2>1. UNCHANGED <<phase, slots, onThread, pc, queue, armed>>
      BY <1>3, Zenon DEF SetAllOutputConsumed, RequestYield
    <2> QED
      BY Zenon, <1>0, <2>1, StartFrame
  <1> USE <1>0 DEF ThreadTypes, StartInv
  <1>4. ASSUME NEW t \in Threads, CheckStop(t) PROVE StartInv'
    BY Zenon, <1>4 DEF CheckStop, Goto, ShouldStop, ToYieldAfter
  <1>5. ASSUME NEW t \in Threads, SliceExpired(t) PROVE StartInv'
    BY Zenon, <1>5 DEF SliceExpired, Goto
  <1>6. ASSUME NEW t \in Threads, Block(t) PROVE StartInv'
    BY Zenon, <1>6 DEF Block, Goto
  <1>7. ASSUME NEW t \in Threads, AtEnd(t) PROVE StartInv'
    BY Zenon, <1>7 DEF AtEnd, Goto
  <1>8. ASSUME NEW t \in Threads, Throw(t) PROVE StartInv'
    BY Zenon, <1>8 DEF Throw, Goto, ThrowTo
  <1>9. ASSUME NEW t \in Threads, EnterSuspended(t) PROVE StartInv'
    BY Zenon, <1>9
    DEF EnterSuspended, Goto, ToYieldAfter, ShouldStop, DecrementThreads,
        Outermost
  <1>10. ASSUME NEW t \in Threads, EnterSuspendedThrows(t) PROVE StartInv'
    BY Zenon, <1>10 DEF EnterSuspendedThrows, Goto, ThrowTo
  <1>11. ASSUME NEW t \in Threads, LeaveSuspended(t) PROVE StartInv'
    BY Zenon, <1>11 DEF LeaveSuspended, Goto, Outermost
  <1>12. ASSUME NEW t \in Threads, ThreadSetError(t) PROVE StartInv'
    BY Zenon, <1>12 DEF ThreadSetError, Goto, SetError, AfterError
  <1>13. ASSUME NEW t \in Threads, ThreadFail(t) PROVE StartInv'
    BY Zenon, <1>13
    DEF ThreadFail, Goto, Terminate, Detach, OffThreadDrivers, AfterError
  <1>14. ASSUME NEW t \in Threads, Close(t) PROVE StartInv'
    BY Zenon, <1>14 DEF Close, Goto, AfterClose
  <1>15. ASSUME NEW t \in Threads, RemoveDriver(t) PROVE StartInv'
    BY Zenon, <1>15 DEF RemoveDriver, Goto, AfterClose
  <1>16. ASSUME NEW t \in Threads, ThreadFinish(t) PROVE StartInv'
    BY Zenon, <1>16
    DEF ThreadFinish, Goto, AfterClose, Terminate, Detach, OffThreadDrivers
  <1>17. ASSUME NEW t \in Threads, Leave(t) PROVE StartInv'
    BY Zenon, <1>17
    DEF Leave, Goto, GoOffThread, DecrementThreads, ToYieldAfter, ShouldStop
  <1>18. ASSUME NEW t \in Threads, LeaveClosed(t) PROVE StartInv'
    BY Zenon, <1>18 DEF LeaveClosed, Goto, GoOffThread, DecrementThreads
  <1>19. ASSUME NEW t \in Threads, Post(t) PROVE StartInv'
    BY Zenon, <1>19 DEF Post, Goto, Idle, ToYieldAfter, ShouldStop
  <1>20. ASSUME NEW t \in Threads, SetResume(t) PROVE StartInv'
    BY Zenon, <1>20 DEF SetResume, Goto, Idle
  <1>21. ASSUME NEW t \in Threads, RequeueCheck(t) PROVE StartInv'
    BY Zenon, <1>21 DEF RequeueCheck, Goto, Idle
  <1>22. ASSUME NEW t \in Threads, Requeue(t) PROVE StartInv'
    BY Zenon, <1>22 DEF Requeue, Goto, Idle, Enqueue
  <1>23. ASSUME NEW t \in Threads, NEW d \in Drivers, RunClosed(t, d)
       PROVE  StartInv'
    BY <1>23 DEF RunClosed, Goto
  <1>24. ASSUME NEW t \in Threads, NEW d \in Drivers, EnterRuns(t, d)
       PROVE  StartInv'
    BY <1>24 DEF EnterRuns, Goto, ShouldStop
  <1>25. ASSUME NEW t \in Threads, NEW d \in Drivers, EnterRefused(t, d)
       PROVE  StartInv'
    BY <1>25 DEF EnterRefused, Goto, ToYieldAfter, ShouldStop
  <1>26. ASSUME NEW d \in Drivers, Resumed(d) PROVE StartInv'
    BY <1>26 DEF Resumed, Enqueue, CallbackFails, SetError
  <1>27. ASSUME NEW d \in Drivers, FutureError(d) PROVE StartInv'
    BY <1>27 DEF FutureError, CallbackFails, SetError
  <1>28. CASE StartPlan
    BY Zenon, <1>28 DEF StartPlan
  <1>29. CASE StartDrivers
    BY Zenon, <1>29 DEF StartDrivers, Enqueue
  <1>30. CASE ReclaimFail
    BY Zenon, <1>30 DEF ReclaimFail, Terminate, Detach, OffThreadDrivers
  <1>31. CASE Resume
    BY Zenon, <1>31
    DEF Resume, ResumeRunning, ResumeTerminated, PausedDrivers, Enqueue,
        Detach, ResumedDrivers, NotWaiting
  <1>32. CASE AbortFail
    BY Zenon, <1>32 DEF AbortFail, Terminate, Detach, OffThreadDrivers
  <1>33. CASE Cancel
    BY Zenon, <1>33 DEF Cancel, Terminate, Detach, OffThreadDrivers
  <1>34. ASSUME NEW s \in {"kFailed", "kFinished"}, ExtTerminate(s)
       PROVE  StartInv'
    BY Zenon, <1>34 DEF ExtTerminate, Terminate, Detach, OffThreadDrivers
  <1> HIDE <1>0 DEF StartInv
  <1> QED
    BY Zenon, <1>1, <1>2, <1>3, <1>4, <1>5, <1>6, <1>7, <1>8, <1>9, <1>10, <1>11,
       <1>12, <1>13, <1>14, <1>15, <1>16, <1>17, <1>18, <1>19, <1>20, <1>21,
       <1>22, <1>23, <1>24, <1>25, <1>26, <1>27, <1>28, <1>29, <1>30, <1>31,
       <1>32, <1>33, <1>34
    DEF Next, ThreadStep, StartThread, ReclaimStep

-----------------------------------------------------------------------------
(* The created task.                                                       *)
LEMMA InitInv == ASSUME Init PROVE IInv
  <1>1. TypeOK
    <2>1. /\ armed \in [Drivers -> Nat] /\ numSuspensions \in [Drivers -> Nat]
          /\ numCloses \in [Drivers -> Nat] /\ queue \in [Drivers -> Nat]
          /\ closer \in [Drivers -> Threads \cup {NoOne, Reclaimer, External}]
      BY Zenon DEF Init
    <2>2. /\ pc \in [Threads -> Pcs] /\ cur \in [Threads -> Drivers \cup {0}]
          /\ stop \in [Threads -> StopReasons] /\ ctx \in [Threads -> Contexts]
          /\ \A t \in Threads : pc[t] # "idle" => cur[t] \in Drivers
      BY Zenon DEF Init, Pcs, StopReasons, Contexts
    <2>3. /\ phase \in {"created", "planned", "started"}
          /\ state \in {"kRunning", "kFinished", "kCanceled", "kFailed"}
          /\ rpc \in {"idle", "waiting", "reclaiming", "fail", "resume",
                      "abort", "abortFail", "aborted"}
          /\ exception \in BOOLEAN /\ consumed \in BOOLEAN
          /\ pauseRequested \in BOOLEAN /\ reclaimFailed \in BOOLEAN
      BY Zenon DEF Init
    <2>4. /\ toYield \in Nat /\ numThreads \in Int /\ numRunning \in Int
          /\ numFinished \in Nat /\ numFinishedOutput \in Nat
      BY DEF Init
    <2>5. /\ slots \subseteq Drivers /\ isEnqueued \subseteq Drivers
          /\ onThread \subseteq Drivers /\ isTerminated \subseteq Drivers
          /\ hasBlockingFuture \subseteq Drivers /\ closed \subseteq Drivers
          /\ finishPromises \subseteq {"pause"}
          /\ extCalls \subseteq {"kFailed", "kFinished"}
      BY Zenon DEF Init
    <2> QED
      BY Zenon, <2>1, <2>2, <2>3, <2>4, <2>5 DEF TypeOK
  <1>2. ThreadInv /\ DetachInv /\ PauseInv /\ StartInv
    BY Zenon DEF Init, ThreadInv, DetachInv, PauseInv, StartInv, OnDriver, Counted,
           CountedPcs, ErrorPcs
  <1>3. ThreadCount
    <2>1. {t \in Threads : Counted(t)} = {}
      BY Zenon DEF Init, Counted, CountedPcs, ErrorPcs
    <2> QED
      BY Zenon, <2>1, FS_EmptySet DEF Init, ThreadCount
  <1> QED
    BY Zenon, <1>1, <1>2, <1>3 DEF IInv

(* A step that changes nothing.                                            *)
LEMMA StutterInv == ASSUME IInv, UNCHANGED vars PROVE IInv'
  <1> USE DEF vars, startVars, stateVars, countVars, flagVars, numVars, onVars,
             enqVars, futureVars, closeVars, threadVars, reclaimVars
  <1>1. TypeOK'
    BY DEF IInv, TypeOK
  <1>2. ThreadInv' /\ ThreadCount'
    BY Zenon DEF IInv, ThreadInv, ThreadCount, OnDriver, Counted
  <1>3. DetachInv' /\ PauseInv' /\ StartInv'
    BY Zenon DEF IInv, DetachInv, PauseInv, StartInv, OnDriver, Counted, Running
  <1> QED
    BY Zenon, <1>1, <1>2, <1>3 DEF IInv

(* The inductive invariant holds in every reachable state of the task.     *)
THEOREM InductiveInvariant == Spec => []IInv
  <1>1. Init => IInv
    BY Zenon, InitInv
  <1>2. IInv /\ [Next]_vars => IInv'
    <2>1. ASSUME IInv, Next PROVE IInv'
      BY Zenon, <2>1, TypeStep, ThreadStepInv, CountStep, DetachStep, PauseStep,
         StartStep DEF IInv
    <2> QED
      BY Zenon, <2>1, StutterInv
  <1> QED
    BY <1>1, <1>2, PTL DEF Spec

(* Type correctness of the task's thread state.                            *)
THEOREM TypeCorrect == Spec => []TypeOK
  <1>1. IInv => TypeOK
    BY Zenon DEF IInv
  <1> QED
    BY <1>1, InductiveInvariant, PTL

(* numThreads_ counts the threads that are inside the task and not         *)
(* suspended, through every enter, leave and suspension.                   *)
THEOREM ThreadCountCorrect == Spec => []ThreadCount
  <1>1. IInv => ThreadCount
    BY Zenon DEF IInv
  <1> QED
    BY <1>1, InductiveInvariant, PTL

(* A driver is executed by one thread, which ThreadState::thread names,    *)
(* even when the driver was enqueued twice.                                *)
THEOREM DriverExclusion == Spec => []ExclusiveDriver
  <1>1. IInv => ExclusiveDriver
    BY Zenon DEF IInv, ThreadInv, ExclusiveDriver
  <1> QED
    BY <1>1, InductiveInvariant, PTL

(* Operators are reclaimed only while no thread executes them and nobody   *)
(* is closing them, whatever cancels, errors and timeouts race the pause.  *)
THEOREM ReclaimExclusion == Spec => []ReclaimExclusive
  <1>1. ASSUME IInv PROVE ReclaimExclusive
    <2> SUFFICES ASSUME rpc = "reclaiming"
                 PROVE  /\ pauseRequested
                        /\ \A t \in Threads : ~Counted(t)
                        /\ \A d \in Drivers : closer[d] = NoOne
                        /\ \A d \in slots :
                              d \in onThread => numSuspensions[d] > 0
      BY Zenon DEF ReclaimExclusive
    <2>1. /\ pauseRequested /\ numThreads = 0
          /\ \A d \in Drivers : closer[d] = NoOne
      BY Zenon, <1>1 DEF IInv, PauseInv
    <2>2. ThreadCount /\ ThreadInv /\ DetachInv
      BY Zenon, <1>1 DEF IInv
    <2>3. \A t \in Threads : ~Counted(t)
      BY <2>1, <2>2, CountedPositive
    <2>4. \A d \in slots : d \in onThread => numSuspensions[d] > 0
      <3> SUFFICES ASSUME NEW d \in slots, d \in onThread
                   PROVE  numSuspensions[d] > 0
        BY Zenon
      <3>1. PICK t \in Threads : OnDriver(t) /\ cur[t] = d
        BY Zenon, <2>2 DEF DetachInv
      <3>2. pc[t] = "suspended"
        BY Zenon, <2>3, <3>1 DEF OnDriver
      <3> QED
        BY Zenon, <2>2, <3>1, <3>2 DEF ThreadInv
    <2> QED
      BY Zenon, <2>1, <2>3, <2>4
  <1> QED
    BY <1>1, InductiveInvariant, PTL

-----------------------------------------------------------------------------
(* A driver that is being closed by the task has not been closed; one that *)
(* is closed and still in drivers_ is about to be removed by its thread.   *)
CloseInv ==
    /\ \A d \in Drivers : numCloses[d] = IF d \in closed THEN 1 ELSE 0
    /\ \A d \in Drivers : closer[d] # NoOne => d \notin closed
    /\ \A d \in slots : d \in closed =>
          \E t \in Threads : cur[t] = d /\ pc[t] = "remove"
    /\ phase # "started" => closed = {}

(* A driver in drivers_ that was marked terminated is on thread, and after *)
(* the termination, unless a pause holds, all of them are.  A thread that  *)
(* goes off thread with a closed driver has removed it.                    *)
LeaveInv ==
    /\ \A d \in slots : d \in isTerminated => d \in onThread
    /\ ~Running /\ ~pauseRequested => slots \subseteq onThread
    /\ \A t \in Threads :
          pc[t] \in {"finish", "leaveNull", "leave2"} => cur[t] \notin slots

(* No driver is marked before there are drivers.                           *)
FreshInv == phase # "started" => isTerminated = {}

-----------------------------------------------------------------------------
(* Steps that close, detach and remove nobody.                             *)
LEMMA CloseFrame ==
    ASSUME CloseInv, UNCHANGED <<numCloses, closed, closer, slots, cur, phase>>,
           \A t \in Threads : pc[t] = "remove" => pc'[t] = "remove"
    PROVE  CloseInv'
  BY Zenon DEF CloseInv

(* Steps of one thread that closes, detaches and removes nobody and may    *)
(* take or drop a driver.                                                  *)
LEMMA CloseFrameThread ==
    ASSUME CloseInv, NEW t \in Threads, pc[t] # "remove",
           UNCHANGED <<numCloses, closed, closer, slots, phase>>,
           \A u \in Threads \ {t} : pc'[u] = pc[u] /\ cur'[u] = cur[u]
    PROVE  CloseInv'
<1>1. /\ \A d \in Drivers : numCloses'[d] = IF d \in closed' THEN 1 ELSE 0
      /\ \A d \in Drivers : closer'[d] # NoOne => d \notin closed'
      /\ phase' # "started" => closed' = {}
  BY Zenon DEF CloseInv
<1>2. ASSUME NEW d \in slots', d \in closed'
      PROVE  \E u \in Threads : cur'[u] = d /\ pc'[u] = "remove"
  <2>1. PICK u \in Threads : cur[u] = d /\ pc[u] = "remove"
    BY Zenon, <1>2 DEF CloseInv
  <2>2. u \in Threads \ {t}
    BY Zenon, <2>1
  <2> QED
    BY Zenon, <2>1, <2>2
<1> QED
  BY Zenon, <1>1, <1>2 DEF CloseInv

(* What a thread at Driver::close knows of its driver: it is the thread's  *)
(* own, and once it was closed it is no longer in drivers_.                *)
LEMMA AtClose ==
    ASSUME ThreadTypes, ThreadInv, CloseInv, NEW t \in Threads, Close(t)
    PROVE  /\ OnDriver(t) /\ cur[t] \in Drivers /\ cur[t] \in onThread
           /\ closer[cur[t]] = NoOne
           /\ cur[t] \in closed => cur[t] \notin slots
<1>1. pc[t] = "close"
  BY Zenon DEF Close
<1>2. OnDriver(t) /\ cur[t] \in Drivers
  BY Zenon, <1>1 DEF OnDriver, Counted, CountedPcs, ThreadTypes
<1>3. cur[t] \in onThread /\ closer[cur[t]] = NoOne
  BY Zenon, <1>2 DEF ThreadInv
<1>4. ASSUME cur[t] \in closed, cur[t] \in slots PROVE FALSE
  <2>1. PICK u \in Threads : cur[u] = cur[t] /\ pc[u] = "remove"
    BY Zenon, <1>4 DEF CloseInv
  <2>2. OnDriver(u)
    BY Zenon, <2>1 DEF OnDriver, Counted, CountedPcs
  <2>3. u = t
    BY Zenon, <1>2, <2>1, <2>2 DEF ThreadInv
  <2> QED
    BY Zenon, <1>1, <2>1, <2>3
<1> QED
  BY Zenon, <1>2, <1>3, <1>4

(* The drivers that terminate() and resume() detach are off thread, so     *)
(* their threads have not closed them.                                     *)
LEMMA DetachKeepsClose ==
    ASSUME ThreadTypes, ThreadInv, CloseInv, NEW D \in SUBSET (slots \ onThread), NEW a,
           Detach(D, a), UNCHANGED <<numCloses, closed, cur, phase>>,
           \A t \in Threads : pc[t] = "remove" => pc'[t] = "remove"
    PROVE  CloseInv'
<1>1. \A d \in D : d \notin closed
  BY DEF ThreadInv, CloseInv, OnDriver, Counted, CountedPcs
<1> QED
  BY <1>1 DEF ThreadTypes, CloseInv, Detach

(* terminate(), whoever calls it.                                          *)
LEMMA TerminateKeepsClose ==
    ASSUME ThreadTypes, ThreadInv, CloseInv, NEW s, NEW a, Terminate(s, a),
           UNCHANGED <<numCloses, closed, cur, phase>>,
           \A t \in Threads : pc[t] = "remove" => pc'[t] = "remove"
    PROVE  CloseInv'
<1>1. CASE ~Running
  <2>1. UNCHANGED <<closer, slots>>
    BY Zenon, <1>1 DEF Terminate, onVars
  <2> QED
    BY Zenon, <2>1, CloseFrame
<1>2. CASE Running
  <2>1. Detach(OffThreadDrivers, a)
    BY Zenon, <1>2 DEF Terminate
  <2>2. OffThreadDrivers \in SUBSET (slots \ onThread)
    BY Zenon DEF OffThreadDrivers
  <2> QED
    BY Zenon, <2>1, <2>2, DetachKeepsClose
<1> QED
  BY Zenon, <1>1, <1>2

(* One step per action: only Driver::close and closeByTask count a close,  *)
(* and neither finds the driver closed or in the hands of the other.       *)
LEMMA CloseStep == ASSUME IInv, CloseInv, Next PROVE CloseInv'
<1>0. ThreadTypes /\ ThreadInv /\ DetachInv /\ StartInv
  BY Zenon, TypeThreadTypes DEF IInv
<1>0a. closed \subseteq Drivers /\ numCloses \in [Drivers -> Nat]
  BY Zenon DEF IInv, TypeOK
<1> USE DEF onVars, startVars, closeVars, threadVars
<1>1. ASSUME NEW t \in Threads,
             CheckStop(t) \/ SliceExpired(t) \/ Block(t) \/ AtEnd(t) \/ Throw(t)
      PROVE  CloseInv'
  <2>1. /\ UNCHANGED <<numCloses, closed, closer, slots, cur, phase>>
        /\ \A u \in Threads : pc[u] = "remove" => pc'[u] = "remove"
    BY Zenon, <1>0, <1>1
    DEF CheckStop, SliceExpired, Block, AtEnd, Throw, ThrowTo, Goto, ThreadTypes
  <2> QED
    BY Zenon, <2>1, CloseFrame
<1>2. ASSUME NEW t \in Threads,
             EnterSuspended(t) \/ EnterSuspendedThrows(t) \/ LeaveSuspended(t)
      PROVE  CloseInv'
  <2>1. /\ UNCHANGED <<numCloses, closed, closer, slots, cur, phase>>
        /\ \A u \in Threads : pc[u] = "remove" => pc'[u] = "remove"
    BY Zenon, <1>0, <1>2
    DEF EnterSuspended, EnterSuspendedThrows, LeaveSuspended, ThrowTo, Goto,
        ThreadTypes
  <2> QED
    BY Zenon, <2>1, CloseFrame
<1>3. ASSUME NEW t \in Threads, ThreadSetError(t) \/ Leave(t) \/ LeaveClosed(t)
      PROVE  CloseInv'
  <2>1. /\ UNCHANGED <<numCloses, closed, closer, slots, cur, phase>>
        /\ \A u \in Threads : pc[u] = "remove" => pc'[u] = "remove"
    BY Zenon, <1>0, <1>3 DEF ThreadSetError, Leave, LeaveClosed, GoOffThread, Goto,
        ThreadTypes
  <2> QED
    BY Zenon, <2>1, CloseFrame
<1>4. ASSUME NEW t \in Threads,
             Post(t) \/ SetResume(t) \/ RequeueCheck(t) \/ Requeue(t)
      PROVE  CloseInv'
  <2>1. /\ UNCHANGED <<numCloses, closed, closer, slots, phase>>
        /\ pc[t] # "remove"
        /\ \A u \in Threads \ {t} : pc'[u] = pc[u] /\ cur'[u] = cur[u]
    BY Zenon, <1>0, <1>4 DEF Post, SetResume, RequeueCheck, Requeue, Idle, Goto, ThreadTypes
  <2> QED
    BY Zenon, <2>1, CloseFrameThread
<1>5. ASSUME NEW t \in Threads, NEW d \in Drivers, StartThread(t, d)
      PROVE  CloseInv'
  <2>1. /\ UNCHANGED <<numCloses, closed, closer, slots, phase>>
        /\ pc[t] # "remove"
        /\ \A u \in Threads \ {t} : pc'[u] = pc[u] /\ cur'[u] = cur[u]
    <3>1. CASE RunClosed(t, d)
      BY Zenon, <1>0, <3>1 DEF RunClosed, Goto, ThreadTypes
    <3>2. CASE EnterRuns(t, d)
      BY Zenon, <1>0, <3>2 DEF EnterRuns, Goto, ThreadTypes
    <3>3. CASE EnterRefused(t, d)
      BY Zenon, <1>0, <3>3 DEF EnterRefused, Goto, ThreadTypes
    <3> QED
      BY Zenon, <1>5, <3>1, <3>2, <3>3 DEF StartThread
  <2> QED
    BY Zenon, <2>1, CloseFrameThread
<1>6. ASSUME NEW t \in Threads, ThreadFail(t) \/ ThreadFinish(t) PROVE CloseInv'
  <2>1. /\ UNCHANGED <<numCloses, closed, cur, phase>>
        /\ \A u \in Threads : pc[u] = "remove" => pc'[u] = "remove"
        /\ \E s : Terminate(s, t)
    BY Zenon, <1>0, <1>6 DEF ThreadFail, ThreadFinish, Goto, ThreadTypes
  <2> QED
    BY Zenon, <1>0, <2>1, TerminateKeepsClose
<1>7. ASSUME NEW t \in Threads, Close(t) PROVE CloseInv'
  <2>1. OnDriver(t) /\ cur[t] \in Drivers
    BY Zenon, <1>0, <1>7, AtClose
  <2>2. closer[cur[t]] = NoOne
    BY Zenon, <1>0, <1>7, AtClose
  <2>3. cur[t] \in closed => cur[t] \notin slots
    BY Zenon, <1>0, <1>7, AtClose
  <2>4. UNCHANGED <<closer, slots, cur, phase>>
    BY Zenon, <1>7 DEF Close
  <2>5. CASE cur[t] \in closed
    <3>1. closed' = closed /\ numCloses' = numCloses
      BY Zenon, <1>7, <2>5 DEF Close
    <3>2. \A u \in Threads : pc[u] = "remove" => pc'[u] = "remove"
      BY Zenon, <1>0, <1>7, <2>5 DEF Close, Goto, ThreadTypes
    <3> QED
      BY Zenon, <2>4, <3>1, <3>2, CloseFrame
  <2>6. CASE cur[t] \notin closed
    <3>1. /\ closed' = closed \cup {cur[t]}
          /\ numCloses' = [numCloses EXCEPT ![cur[t]] = @ + 1]
          /\ pc' = [pc EXCEPT ![t] = "remove"]
      BY Zenon, <1>7, <2>6 DEF Close, Goto
    <3>2. phase = "started"
      BY Zenon, <1>0, <1>7 DEF StartInv, Close
    <3> QED
      BY <1>0, <1>0a, <2>1, <2>2, <2>4, <2>6, <3>1, <3>2 DEF CloseInv, ThreadTypes
  <2> QED
    BY Zenon, <2>5, <2>6
<1>8. ASSUME NEW t \in Threads, RemoveDriver(t) PROVE CloseInv'
  <2>1. /\ UNCHANGED <<numCloses, closed, closer, cur, phase>>
        /\ slots' = slots \ {cur[t]}
        /\ \A u \in Threads \ {t} : pc'[u] = pc[u]
    BY Zenon, <1>0, <1>8 DEF RemoveDriver, Goto, ThreadTypes
  <2> QED
    BY <2>1 DEF CloseInv
<1>9. ASSUME NEW d \in Drivers, Resumed(d) \/ FutureError(d) PROVE CloseInv'
  <2>1. UNCHANGED <<numCloses, closed, closer, slots, cur, phase, pc>>
    BY Zenon, <1>9 DEF Resumed, FutureError
  <2> QED
    BY Zenon, <2>1, CloseFrame
<1>10. ASSUME NEW d \in Drivers, CloseByTask(d) PROVE CloseInv'
  <2>1. d \notin slots /\ phase = "started"
    BY Zenon, <1>0, <1>10 DEF DetachInv, CloseByTask, StartInv
  <2>2. d \notin closed
    BY Zenon, <1>10 DEF CloseByTask, CloseInv
  <2>3. /\ UNCHANGED <<slots, cur, phase, pc>>
        /\ closer' = [closer EXCEPT ![d] = NoOne]
        /\ closed' = closed \cup {d}
        /\ numCloses' = [numCloses EXCEPT ![d] = @ + 1]
    BY Zenon, <1>10 DEF CloseByTask
  <2> QED
    BY <1>0, <1>0a, <2>1, <2>2, <2>3 DEF CloseInv, ThreadTypes
<1>11. CASE StartPlan \/ StartDrivers
  <2>1. UNCHANGED <<numCloses, closed, closer, cur, pc>> /\ closed = {}
    BY Zenon, <1>11 DEF StartPlan, StartDrivers, CloseInv
  <2> QED
    BY Zenon, <2>1 DEF CloseInv
<1>12. CASE RequestPause \/ PauseTimeout \/ AbortRequested \/ PauseAcked \/
            ReclaimDone \/ ReclaimThrows \/ AbortSetError
  <2>1. UNCHANGED <<numCloses, closed, closer, slots, cur, phase, pc>>
    BY Zenon, <1>12 DEF RequestPause, PauseTimeout, AbortRequested, PauseAcked,
                 ReclaimDone, ReclaimThrows, AbortSetError
  <2> QED
    BY Zenon, <2>1, CloseFrame
<1>13. CASE SetAllOutputConsumed \/ RequestYield
  <2>1. UNCHANGED <<numCloses, closed, closer, slots, cur, phase, pc>>
    BY <1>13, Zenon DEF SetAllOutputConsumed, RequestYield
  <2> QED
    BY Zenon, <2>1, CloseFrame
<1>14. CASE Resume
  <2>1. UNCHANGED <<numCloses, closed, cur, phase, pc>>
    BY Zenon, <1>14 DEF Resume
  <2>2. CASE Running
    <3>1. UNCHANGED <<closer, slots>>
      BY Zenon, <1>14, <2>2 DEF Resume, ResumeRunning
    <3> QED
      BY Zenon, <2>1, <3>1, CloseFrame
  <2>3. CASE ~Running
    <3>1. Detach(PausedDrivers, Reclaimer)
      BY Zenon, <1>14, <2>3 DEF Resume, ResumeTerminated
    <3>2. PausedDrivers \in SUBSET (slots \ onThread)
      BY Zenon DEF PausedDrivers
    <3> QED
      BY Zenon, <1>0, <2>1, <3>1, <3>2, DetachKeepsClose
  <2> QED
    BY Zenon, <2>2, <2>3
<1>15. CASE ReclaimFail \/ AbortFail \/ Cancel
            \/ \E s \in {"kFailed", "kFinished"} : ExtTerminate(s)
  <2>1. /\ UNCHANGED <<numCloses, closed, cur, phase, pc>>
        /\ \E s, a : Terminate(s, a)
    BY Zenon, <1>15 DEF ReclaimFail, AbortFail, Cancel, ExtTerminate
  <2> QED
    BY Zenon, <1>0, <2>1, TerminateKeepsClose
<1> QED
  BY Zenon, <1>1, <1>2, <1>3, <1>4, <1>5, <1>6, <1>7, <1>8, <1>9, <1>10, <1>11,
     <1>12, <1>13, <1>14, <1>15
  DEF Next, ThreadStep, ReclaimStep
-----------------------------------------------------------------------------
(* Steps that neither take a driver off its thread nor mark one.           *)
LEMMA LeaveFrame ==
    ASSUME LeaveInv, UNCHANGED <<slots, isTerminated, state, pauseRequested, cur>>,
           onThread \subseteq onThread',
           \A t \in Threads : pc'[t] \in {"finish", "leaveNull", "leave2"} =>
                pc[t] \in {"finish", "leaveNull", "leave2"}
    PROVE  LeaveInv'
  BY Zenon DEF LeaveInv, Running

(* The driver of a thread is marked terminated.                            *)
LEMMA MarkKeepsLeave ==
    ASSUME LeaveInv, UNCHANGED <<slots, state, pauseRequested, cur, onThread>>,
           NEW d \in onThread, isTerminated' \subseteq isTerminated \cup {d},
           \A t \in Threads : pc'[t] \in {"finish", "leaveNull", "leave2"} =>
                cur[t] \notin slots
    PROVE  LeaveInv'
  BY Zenon DEF LeaveInv, Running

(* terminate() marks what is on thread and detaches the rest, unless the   *)
(* task is paused.                                                         *)
LEMMA TerminateKeepsLeave ==
    ASSUME LeaveInv, pauseRequested \in BOOLEAN, NEW s, NEW a, Terminate(s, a),
           UNCHANGED <<pauseRequested, cur>>,
           \A t \in Threads : pc'[t] \in {"finish", "leaveNull", "leave2"} =>
                cur[t] \notin slots
    PROVE  LeaveInv'
<1>1. CASE ~Running
  <2>1. UNCHANGED <<slots, isTerminated, state, onThread>>
    BY Zenon, <1>1 DEF Terminate, onVars, stateVars
  <2> QED
    BY Zenon, <2>1 DEF LeaveInv, Running
<1>2. CASE Running
  <2>1. /\ slots' = slots \ OffThreadDrivers
        /\ onThread' = onThread \cup OffThreadDrivers
        /\ isTerminated' = isTerminated \cup (slots \cap onThread) \cup OffThreadDrivers
    BY Zenon, <1>2 DEF Terminate, Detach
  <2>2. ~pauseRequested => OffThreadDrivers = slots \ (onThread \cup isTerminated)
    BY Zenon DEF OffThreadDrivers
  <2>3. \A d \in slots' : d \in isTerminated' => d \in onThread'
    BY Zenon, <2>1 DEF LeaveInv
  <2>4. ~pauseRequested => slots' \subseteq onThread'
    BY Zenon, <2>1, <2>2 DEF LeaveInv
  <2>5. \A t \in Threads : pc'[t] \in {"finish", "leaveNull", "leave2"} =>
                cur'[t] \notin slots'
    BY Zenon, <2>1
  <2> QED
    BY Zenon, <2>3, <2>4, <2>5 DEF LeaveInv
<1> QED
  BY Zenon, <1>1, <1>2

(* Before Task::start has made the drivers no thread runs, and terminate() *)
(* and resume() find no driver to mark.                                    *)
LEMMA FreshStep == ASSUME IInv, FreshInv, Next PROVE FreshInv'
<1> SUFFICES ASSUME phase' # "started" PROVE isTerminated' = {}
  BY Zenon DEF FreshInv
<1>0. ThreadTypes /\ StartInv
  BY Zenon, TypeThreadTypes DEF IInv
<1> USE DEF onVars, stateVars, startVars
<1>1. ASSUME NEW t \in Threads, ThreadStep(t) PROVE isTerminated' = {}
  <2>1. pc[t] # "idle" /\ phase' = phase
    BY Zenon, <1>1 DEF ThreadStep, CheckStop, SliceExpired, Block, AtEnd, Throw,
       EnterSuspended, EnterSuspendedThrows, LeaveSuspended, ThreadSetError,
       ThreadFail, Close, RemoveDriver, ThreadFinish, Leave, LeaveClosed, Post,
       SetResume, RequeueCheck, Requeue, ErrorPcs, CheckIfFinished
  <2> QED
    BY Zenon, <1>0, <2>1 DEF StartInv
<1>2. ASSUME NEW t \in Threads, NEW d \in Drivers, StartThread(t, d)
      PROVE  isTerminated' = {}
  <2>1. queue[d] > 0 /\ phase' = phase
    BY Zenon, <1>2 DEF StartThread, RunClosed, EnterRuns, EnterRefused
  <2> QED
    BY <1>0, <2>1 DEF StartInv
<1>3. ASSUME NEW d \in Drivers, Resumed(d) \/ FutureError(d) \/ CloseByTask(d)
      PROVE  isTerminated' = {}
  BY Zenon, <1>3 DEF Resumed, FutureError, CloseByTask, FreshInv
<1>4. CASE StartPlan \/ StartDrivers \/ RequestPause \/ PauseTimeout
           \/ AbortRequested \/ PauseAcked \/ ReclaimDone \/ ReclaimThrows
           \/ AbortSetError
  BY Zenon, <1>4 DEF StartPlan, StartDrivers, RequestPause, PauseTimeout, AbortRequested,
     PauseAcked, ReclaimDone, ReclaimThrows, AbortSetError, FreshInv
<1>5. CASE SetAllOutputConsumed \/ RequestYield
  <2>1. UNCHANGED <<phase, isTerminated>>
    BY <1>5, Zenon DEF SetAllOutputConsumed, RequestYield
  <2> QED
    BY Zenon, <2>1 DEF FreshInv
<1>6. CASE Resume
  <2>1. phase' = phase
    BY Zenon, <1>6 DEF Resume
  <2>2. isTerminated' \subseteq isTerminated \cup slots
    BY Zenon, <1>6 DEF Resume, ResumeRunning, ResumeTerminated, PausedDrivers
  <2> QED
    BY Zenon, <1>0, <2>1, <2>2 DEF StartInv, FreshInv
<1>7. CASE ReclaimFail \/ AbortFail \/ Cancel
           \/ \E s \in {"kFailed", "kFinished"} : ExtTerminate(s)
  <2>1. phase' = phase /\ \E s, a : Terminate(s, a)
    BY Zenon, <1>7 DEF ReclaimFail, AbortFail, Cancel, ExtTerminate
  <2>2. isTerminated' \subseteq isTerminated \cup slots
    BY Zenon, <2>1 DEF Terminate, OffThreadDrivers
  <2> QED
    BY Zenon, <1>0, <2>1, <2>2 DEF StartInv, FreshInv
<1> QED
  BY Zenon, <1>1, <1>2, <1>3, <1>4, <1>5, <1>6, <1>7 DEF Next, ReclaimStep

(* One step per action: a driver goes off thread in leave() only while the *)
(* task runs or is paused, or after its thread removed it.                 *)
LEMMA LeaveStep == ASSUME IInv, CloseInv, LeaveInv, FreshInv, Next PROVE LeaveInv'
<1>0. ThreadTypes /\ ThreadInv /\ DetachInv /\ StartInv
  BY Zenon, TypeThreadTypes DEF IInv
<1>0a. pauseRequested \in BOOLEAN /\ isTerminated \subseteq Drivers
  BY Zenon DEF IInv, TypeOK
<1> DEFINE Going == {"finish", "leaveNull", "leave2"}
<1>0b. \A t \in Threads : pc[t] \in Going => cur[t] \notin slots
  BY Zenon DEF LeaveInv
<1> USE DEF onVars, stateVars, flagVars, threadVars
<1>1. ASSUME NEW t \in Threads,
             CheckStop(t) \/ SliceExpired(t) \/ Block(t) \/ AtEnd(t) \/ Throw(t)
      PROVE  LeaveInv'
  <2>1. /\ UNCHANGED <<slots, isTerminated, state, pauseRequested, cur, onThread>>
        /\ \A u \in Threads : pc'[u] \in Going => pc[u] \in Going
    BY Zenon, <1>0, <1>1
    DEF CheckStop, SliceExpired, Block, AtEnd, Throw, ThrowTo, Goto, ThreadTypes
  <2> QED
    BY Zenon, <2>1, LeaveFrame
<1>2. ASSUME NEW t \in Threads, EnterSuspended(t) \/ ThreadSetError(t) PROVE LeaveInv'
  <2>1. /\ UNCHANGED <<slots, isTerminated, state, pauseRequested, cur, onThread>>
        /\ \A u \in Threads : pc'[u] \in Going => pc[u] \in Going
    BY Zenon, <1>0, <1>2 DEF EnterSuspended, ThreadSetError, AfterError, Goto, ThreadTypes
  <2> QED
    BY Zenon, <2>1, LeaveFrame
<1>3. ASSUME NEW t \in Threads, EnterSuspendedThrows(t) \/ LeaveSuspended(t)
      PROVE  LeaveInv'
  <2>1. cur[t] \in onThread
    BY Zenon, <1>0, <1>3 DEF EnterSuspendedThrows, LeaveSuspended, ThreadInv, OnDriver,
                      Counted, CountedPcs
  <2>2. /\ UNCHANGED <<slots, state, pauseRequested, cur, onThread>>
        /\ isTerminated' \subseteq isTerminated \cup {cur[t]}
        /\ \A u \in Threads : pc'[u] \in Going => pc[u] \in Going
    BY Zenon, <1>0, <1>3
    DEF EnterSuspendedThrows, LeaveSuspended, ThrowTo, Goto, ThreadTypes
  <2> QED
    BY Zenon, <1>0b, <2>1, <2>2, MarkKeepsLeave
<1>4. ASSUME NEW t \in Threads, Close(t) PROVE LeaveInv'
  <2>1. OnDriver(t) /\ cur[t] \in onThread
    BY Zenon, <1>0, <1>4, AtClose
  <2>2. cur[t] \in closed => cur[t] \notin slots
    BY Zenon, <1>0, <1>4, AtClose
  <2>3. /\ UNCHANGED <<slots, state, pauseRequested, cur, onThread>>
        /\ isTerminated' \subseteq isTerminated \cup {cur[t]}
    BY Zenon, <1>4 DEF Close
  <2>4. \A u \in Threads : pc'[u] \in Going => cur[u] \notin slots
    BY Zenon, <1>0, <1>0b, <1>4, <2>2 DEF Close, Goto, ThreadTypes
  <2> QED
    BY Zenon, <2>1, <2>3, <2>4, MarkKeepsLeave
<1>5. ASSUME NEW t \in Threads, RemoveDriver(t) PROVE LeaveInv'
  <2>1. /\ UNCHANGED <<isTerminated, state, pauseRequested, cur, onThread>>
        /\ slots' = slots \ {cur[t]}
        /\ \A u \in Threads \ {t} : pc'[u] = pc[u]
    BY Zenon, <1>0, <1>5 DEF RemoveDriver, Goto, ThreadTypes
  <2> QED
    BY Zenon, <2>1 DEF LeaveInv, Running
<1>6. ASSUME NEW t \in Threads, ThreadFail(t) \/ ThreadFinish(t) PROVE LeaveInv'
  <2>1. UNCHANGED <<pauseRequested, cur>> /\ \E s : Terminate(s, t)
    BY Zenon, <1>6 DEF ThreadFail, ThreadFinish
  <2>2. \A u \in Threads : pc'[u] \in Going => cur[u] \notin slots
    <3>1. CASE ThreadFail(t)
      BY Zenon, <1>0, <1>0b, <3>1 DEF ThreadFail, AfterError, Goto, ThreadTypes
    <3>2. CASE ThreadFinish(t)
      BY Zenon, <1>0, <1>0b, <3>2 DEF ThreadFinish, Goto, ThreadTypes
    <3> QED
      BY Zenon, <1>6, <3>1, <3>2
  <2> QED
    BY Zenon, <1>0a, <2>1, <2>2, TerminateKeepsLeave
<1>7. ASSUME NEW t \in Threads, Leave(t) PROVE LeaveInv'
  <2>1. cur[t] \in onThread
    BY Zenon, <1>0, <1>7 DEF Leave, ThreadInv, OnDriver, Counted, CountedPcs
  <2>2. UNCHANGED <<slots, state, pauseRequested, cur>>
    BY Zenon, <1>7 DEF Leave
  <2>3. \A u \in Threads : pc'[u] \in Going => pc[u] \in Going
    BY Zenon, <1>0, <1>7 DEF Leave, GoOffThread, Goto, ThreadTypes
  <2>4. CASE cur[t] \in isTerminated \/ ShouldStop = "kTerminate"
    <3>1. onThread' = onThread /\ isTerminated' = isTerminated \cup {cur[t]}
      BY Zenon, <1>7, <2>4 DEF Leave
    <3> QED
      BY Zenon, <1>0b, <2>1, <2>2, <2>3, <3>1, MarkKeepsLeave
  <2>5. CASE ~(cur[t] \in isTerminated \/ ShouldStop = "kTerminate")
    <3>1. onThread' = onThread \ {cur[t]} /\ isTerminated' = isTerminated
      BY Zenon, <1>7, <2>5 DEF Leave, GoOffThread
    <3>2. Running \/ pauseRequested
      BY Zenon, <2>5 DEF ShouldStop, TerminateRequested
    <3> QED
      BY Zenon, <1>0b, <2>2, <2>3, <2>5, <3>1, <3>2 DEF LeaveInv, Running
  <2> QED
    BY Zenon, <2>4, <2>5
<1>8. ASSUME NEW t \in Threads, LeaveClosed(t) PROVE LeaveInv'
  <2>1. /\ UNCHANGED <<slots, isTerminated, state, pauseRequested, cur>>
        /\ onThread' = onThread \ {cur[t]}
        /\ pc[t] \in Going
        /\ \A u \in Threads : pc'[u] \in Going => pc[u] \in Going
    BY Zenon, <1>0, <1>8 DEF LeaveClosed, GoOffThread, Goto, ThreadTypes
  <2>2. cur[t] \notin slots
    BY Zenon, <1>0b, <2>1
  <2> QED
    BY Zenon, <1>0b, <2>1, <2>2 DEF LeaveInv, Running
<1>9. ASSUME NEW t \in Threads,
             Post(t) \/ SetResume(t) \/ RequeueCheck(t) \/ Requeue(t)
      PROVE  LeaveInv'
  <2>1. /\ UNCHANGED <<slots, isTerminated, state, pauseRequested, onThread>>
        /\ pc'[t] \notin Going
        /\ \A u \in Threads \ {t} : pc'[u] = pc[u] /\ cur'[u] = cur[u]
    BY Zenon, <1>0, <1>9 DEF Post, SetResume, RequeueCheck, Requeue, Idle, Goto, ThreadTypes
  <2> QED
    BY Zenon, <2>1 DEF LeaveInv, Running
<1>10. ASSUME NEW t \in Threads, NEW d \in Drivers, RunClosed(t, d) \/ EnterRuns(t, d)
       PROVE  LeaveInv'
  <2>1. /\ UNCHANGED <<slots, isTerminated, state, pauseRequested>>
        /\ onThread \subseteq onThread'
        /\ pc'[t] \notin Going
        /\ \A u \in Threads \ {t} : pc'[u] = pc[u] /\ cur'[u] = cur[u]
    BY Zenon, <1>0, <1>10 DEF RunClosed, EnterRuns, Goto, ThreadTypes
  <2> QED
    BY Zenon, <2>1 DEF LeaveInv, Running
<1>11. ASSUME NEW t \in Threads, NEW d \in Drivers, EnterRefused(t, d)
       PROVE  LeaveInv'
  <2>1. /\ UNCHANGED <<slots, state, pauseRequested, onThread>>
        /\ pc'[t] \notin Going
        /\ \A u \in Threads \ {t} : pc'[u] = pc[u] /\ cur'[u] = cur[u]
    BY Zenon, <1>0, <1>11 DEF EnterRefused, Goto, ThreadTypes
  <2>2. isTerminated' = isTerminated
          \/ (isTerminated' = isTerminated \cup {d} /\ ShouldStop = "kTerminate")
    BY Zenon, <1>11 DEF EnterRefused
  <2>3. ShouldStop = "kTerminate" => ~Running /\ ~pauseRequested
    BY Zenon DEF ShouldStop, TerminateRequested
  <2> QED
    BY Zenon, <2>1, <2>2, <2>3 DEF LeaveInv, Running
<1>12. ASSUME NEW d \in Drivers, Resumed(d) \/ FutureError(d) \/ CloseByTask(d)
       PROVE  LeaveInv'
  <2>1. UNCHANGED <<slots, isTerminated, state, pauseRequested, cur, onThread, pc>>
    BY Zenon, <1>12 DEF Resumed, FutureError, CloseByTask
  <2> QED
    BY Zenon, <2>1, LeaveFrame
<1>13. CASE StartPlan
  <2>1. UNCHANGED <<slots, isTerminated, state, pauseRequested, cur, onThread, pc>>
    BY Zenon, <1>13 DEF StartPlan
  <2> QED
    BY Zenon, <2>1, LeaveFrame
<1>14. CASE StartDrivers
  <2>1. UNCHANGED <<isTerminated, state, pauseRequested, cur, onThread, pc>>
    BY Zenon, <1>14 DEF StartDrivers
  <2>2. phase # "started" /\ \A t \in Threads : pc[t] = "idle"
    BY Zenon, <1>0, <1>14 DEF StartDrivers, StartInv
  <2>3. CASE ~Running
    BY Zenon, <1>14, <2>1, <2>3, LeaveFrame DEF StartDrivers
  <2>4. CASE Running
    BY Zenon, <2>1, <2>2, <2>4 DEF LeaveInv, FreshInv, Running
  <2> QED
    BY Zenon, <2>3, <2>4
<1>15. CASE PauseTimeout \/ AbortRequested \/ PauseAcked \/ ReclaimDone
            \/ ReclaimThrows \/ AbortSetError
  <2>1. UNCHANGED <<slots, isTerminated, state, pauseRequested, cur, onThread, pc>>
    BY Zenon, <1>15 DEF PauseTimeout, AbortRequested, PauseAcked, ReclaimDone,
                 ReclaimThrows, AbortSetError
  <2> QED
    BY Zenon, <2>1, LeaveFrame
<1>16. CASE SetAllOutputConsumed \/ RequestYield
  <2>1. UNCHANGED <<slots, isTerminated, state, pauseRequested, cur, onThread, pc>>
    BY <1>16, Zenon DEF SetAllOutputConsumed, RequestYield
  <2> QED
    BY Zenon, <2>1, LeaveFrame
<1>17. CASE RequestPause
  <2>1. UNCHANGED <<slots, isTerminated, state, cur, onThread, pc>> /\ pauseRequested'
    BY Zenon, <1>17 DEF RequestPause
  <2> QED
    BY Zenon, <2>1 DEF LeaveInv, Running
<1>18. CASE Resume
  <2>1. UNCHANGED <<state, cur, pc>>
    BY Zenon, <1>18 DEF Resume
  <2>2. CASE Running
    <3>1. UNCHANGED <<slots, isTerminated, onThread>>
      BY Zenon, <1>18, <2>2 DEF Resume, ResumeRunning
    <3> QED
      BY Zenon, <2>1, <2>2, <3>1 DEF LeaveInv, Running
  <2>3. CASE ~Running
    <3>1. /\ slots' = slots \ PausedDrivers
          /\ onThread' = onThread \cup PausedDrivers
          /\ isTerminated' = isTerminated \cup PausedDrivers
      BY Zenon, <1>18, <2>3 DEF Resume, ResumeTerminated, Detach
    <3> QED
      BY Zenon, <2>1, <3>1 DEF LeaveInv, Running, PausedDrivers
  <2> QED
    BY Zenon, <2>2, <2>3
<1>19. CASE ReclaimFail \/ AbortFail \/ Cancel
            \/ \E s \in {"kFailed", "kFinished"} : ExtTerminate(s)
  <2>1. /\ UNCHANGED <<pauseRequested, cur, pc>>
        /\ \E s, a : Terminate(s, a)
    BY Zenon, <1>19 DEF ReclaimFail, AbortFail, Cancel, ExtTerminate
  <2> QED
    BY Zenon, <1>0a, <1>0b, <2>1, TerminateKeepsLeave
<1> HIDE DEF Going
<1> QED
  BY Zenon, <1>1, <1>2, <1>3, <1>4, <1>5, <1>6, <1>7, <1>8, <1>9, <1>10, <1>11,
     <1>12, <1>13, <1>14, <1>15, <1>16, <1>17, <1>18, <1>19
  DEF Next, ThreadStep, StartThread, ReclaimStep

-----------------------------------------------------------------------------
(* Every driver is closed at most once, by its thread or by the task, and  *)
(* after the termination of a task that is not paused the drivers that are *)
(* left have a thread that will close them.                                *)
THEOREM DriversClosedOnce == Spec => []ClosedOnce
<1>1. Init => CloseInv /\ LeaveInv /\ FreshInv
  BY DEF Init, CloseInv, LeaveInv, FreshInv, Running
<1>2. IInv /\ CloseInv /\ LeaveInv /\ FreshInv /\ [Next]_vars
        => CloseInv' /\ LeaveInv' /\ FreshInv'
  <2>1. ASSUME IInv, CloseInv, LeaveInv, FreshInv, Next
        PROVE  CloseInv' /\ LeaveInv' /\ FreshInv'
    BY Zenon, <2>1, CloseStep, LeaveStep, FreshStep
  <2>2. ASSUME CloseInv, LeaveInv, FreshInv, UNCHANGED vars
        PROVE  CloseInv' /\ LeaveInv' /\ FreshInv'
    BY Zenon, <2>2 DEF vars, startVars, stateVars, flagVars, onVars, closeVars,
                threadVars, CloseInv, LeaveInv, FreshInv, Running
  <2> QED
    BY Zenon, <2>1, <2>2
<1>3. IInv /\ CloseInv /\ LeaveInv => ClosedOnce
  BY DEF IInv, TypeOK, DetachInv, CloseInv, LeaveInv, ClosedOnce
<1> QED
  BY <1>1, <1>2, <1>3, InductiveInvariant, PTL DEF Spec
============================================================================
