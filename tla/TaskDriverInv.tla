--------------------------- MODULE TaskDriverInv ----------------------------
(* The inductive invariant behind the theorems about TaskDriver.           *)
EXTENDS TaskDriver

CountedThreads == {t \in Threads : Counted(t)}

(* The thread that executes a driver has it to itself.                     *)
ThreadInv ==
    /\ \A t \in Threads : OnDriver(t) =>
          /\ cur[t] \in onThread /\ closer[cur[t]] = NoOne
          /\ pc[t] \in {"run", "suspended"} => cur[t] \notin closed
          /\ numSuspensions[cur[t]] > 0 <=> pc[t] = "suspended"
    /\ \A t, u \in Threads :
          OnDriver(t) /\ OnDriver(u) /\ cur[t] = cur[u] => t = u
    /\ \A d \in Drivers : d \notin onThread => numSuspensions[d] = 0

(* Only the termination detaches drivers, and detached ones stay "on       *)
(* thread"; a driver of drivers_ that is on thread has a thread.           *)
DetachInv ==
    /\ \A d \in Drivers : closer[d] # NoOne => d \in onThread \ slots
    /\ \A d \in Drivers : closer[d] # NoOne => ~Running
    /\ \A d \in slots : d \in onThread =>
          \E t \in Threads : OnDriver(t) /\ cur[t] = d

(* From the moment the pause is acknowledged no thread is counted.         *)
PauseInv ==
    /\ rpc \in {"waiting", "reclaiming", "fail", "resume"} => pauseRequested
    /\ rpc = "waiting" /\ "pause" \notin finishPromises => numThreads = 0
    /\ rpc = "reclaiming" =>
          /\ numThreads = 0
          /\ \A d \in Drivers : closer[d] = NoOne

(* Nothing runs before the drivers are there.                              *)
StartInv ==
    phase # "started" =>
        /\ slots = {} /\ onThread = {}
        /\ \A t \in Threads : pc[t] = "idle"
        /\ \A d \in Drivers : queue[d] = 0 /\ armed[d] = 0

IInv ==
    TypeOK /\ ThreadInv /\ ThreadCount /\ DetachInv /\ PauseInv /\ StartInv

(* The part of TypeOK that the other steps need.                           *)
ThreadTypes ==
    /\ numThreads \in Int
    /\ slots \subseteq Drivers /\ onThread \subseteq Drivers
    /\ numSuspensions \in [Drivers -> Nat]
    /\ closer \in [Drivers -> Threads \cup {NoOne, Reclaimer, External}]
    /\ pc \in [Threads -> Pcs] /\ ctx \in [Threads -> Contexts]
    /\ cur \in [Threads -> Drivers \cup {0}]
    /\ \A t \in Threads : pc[t] # "idle" => cur[t] \in Drivers
=============================================================================
