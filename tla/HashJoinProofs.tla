--------------------------- MODULE HashJoinProofs ---------------------------
(* The rounds of a hash join that spills: no check of the bridge fails,     *)
(* and nobody waits at the bridge of a cancelled join, for any number of    *)
(* builders and probers, any inputs and any levels of spilling.             *)
EXTENDS HashJoin, FiniteSetTheorems, TLAPS

(* Rows that have a key, all rows, and what the bridge hands over.         *)
Row == [builder : Builders, key : Keys, probed : BOOLEAN]
AnyRow == [builder : Builders, key : Keys \cup {Null}, probed : BOOLEAN]
Results == [null : BOOLEAN, restored : Ids \cup {None}, ids : SUBSET Ids]

(* The operators.                                                          *)
BuildTypes ==
    [state : {"running", "waitForBuild", "merge", "post", "waitForProbe", "finish"},
     input : Seq(AnyRow), level : Nat \ {0}, table : SUBSET Row,
     disk : SUBSET Row, spilled : BOOLEAN, null : BOOLEAN, spiller : BOOLEAN]

ProbeFields == {"state", "input", "pending", "table", "ids", "disk", "spilled",
                "reader", "noMoreSpillInput", "last", "level", "skip"}

(* Types, while the task runs: nothing is closed or cancelled.             *)
PartsTypes ==
    /\ DOMAIN parts \subseteq Ids
    /\ \A i \in DOMAIN parts : parts[i] \subseteq Row

Types ==
    /\ join \in Joins /\ ~cancelled
    /\ build \in [Builders -> BuildTypes]
    /\ DOMAIN probe = Probers
    /\ \A p \in Probers : DOMAIN probe[p] = ProbeFields
    /\ result \in Results \cup {None} /\ restoring \in Ids \cup {None}
    /\ shards \in Seq(SUBSET Row) /\ table \subseteq Row
    /\ PartsTypes

(* The level at which the rows of a round are spilled.                     *)
LevelOf(r) == IF r = None THEN 1 ELSE r[1] + 1

(* A builder that has not come through the barrier of its round.           *)
Building(b) ==
    \/ build[b].state \in {"running", "merge"}
    \/ build[b].state = "waitForBuild" /\ b \in buildPeers

(* Who waits at the barrier, and who has found all others there.           *)
BarrierInv ==
    /\ \A b \in buildPeers : b \in Builders /\ build[b].state = "waitForBuild"
    /\ \A b \in Builders : build[b].state = "merge" => buildPeers = Builders \ {b}

(* What is known of a builder, before and after it has passed the barrier. *)
BuildOK(b) ==
    /\ build[b].spiller => join.spill /\ build[b].level <= MaxLevel
    /\ Building(b) =>
          /\ result = None
          /\ build[b].level = LevelOf(restoring)
          /\ build[b].spilled =>
                join.spill /\ build[b].level <= MaxLevel /\ build[b].table = {}
          /\ ~build[b].spilled => build[b].disk = {}
          /\ restoring = None => table = {} /\ DOMAIN parts = {}
          /\ restoring # None => build[b].input \in Seq(Row) /\ ~build[b].null
    /\ ~Building(b) /\ restoring # None => BuildAwake(b) /\ ~build[b].spiller

(* The builders spill together, and the first round starts for all.        *)
Together ==
    \A b, c \in Builders :
        Building(b) /\ (build[b].spilled \/ restoring = None) =>
            Building(c) /\ (build[b].spilled => build[c].spilled)

BuildInv == BarrierInv /\ (\A b \in Builders : BuildOK(b)) /\ Together

(* The builders that ask the bridge for a shard next.                      *)
Awake == {b \in Builders : BuildAwake(b)}

(* One partition is being restored: a shard for each builder to come, and  *)
(* the others are not deeper.                                              *)
RestoreInv ==
    /\ restoring = None => shards = <<>>
    /\ restoring # None =>
          /\ join.spill /\ result = None
          /\ Len(shards) = Cardinality(Awake)
          /\ restoring \notin DOMAIN parts
          /\ \A i \in DOMAIN parts : i[1] <= restoring[1]
    /\ result = None /\ restoring = None => DOMAIN parts = {}

(* The table that was handed over.                                         *)
ResultInv ==
    result # None =>
        /\ result.ids \subseteq DOMAIN parts
        /\ result.restored \notin DOMAIN parts
        /\ result.null => table = {} /\ DOMAIN parts = {} /\ result.restored = None
        /\ table # {} => result.ids = {}
        /\ spillFunc =>
              /\ LevelOf(result.restored) <= MaxLevel
              /\ \A i \in DOMAIN parts \ result.ids : i[1] # LevelOf(result.restored)
        /\ \A b \in Builders :
              /\ ~result.null => ~build[b].spiller
              /\ join.spill => build[b].state # "finish"

(* A join that does not spill has one round.                               *)
PlainInv ==
    ~join.spill => /\ DOMAIN parts = {} /\ ~spillFunc
                   /\ result # None => result.restored = None

BridgeInv ==
    RestoreInv /\ ResultInv /\ PlainInv /\ (probeStarted => ~spillFunc)

(* A prober with the table of the round.                                   *)
InRound(p) ==
    \/ probe[p].state \in {"running", "noMoreInput"}
    \/ probe[p].state = "waitForPeers" /\ p \in probePeers

(* A prober that the last one has let go, and that has not gone yet.       *)
Behind(p) == probe[p].state = "waitForPeers" /\ p \notin probePeers

(* The last prober of a round, which will call probeFinished.              *)
Ending(p) == probe[p].state = "running" /\ probe[p].last

(* The partitions a prober has or will have input for.                     *)
Owed(p) == DOMAIN probe[p].disk \cup probe[p].ids

(* .. and those it must have when it comes for the next table.             *)
Expecting ==
    IF result = None THEN DOMAIN parts \cup ({restoring} \ {None})
    ELSE (DOMAIN parts \ result.ids) \cup ({result.restored} \ {None})

(* The barrier of the probers.                                             *)
PeersInv ==
    /\ \A p \in probePeers : p \in Probers /\ probe[p].state = "waitForPeers"
    /\ \A p \in Probers : Ending(p) => probePeers = Probers \ {p} /\ arrived = {}
    /\ (\A p \in Probers : ~Ending(p)) => arrived = probePeers

(* The flags of a prober in each of its states.                            *)
ProbeFlags(p) ==
    /\ probe[p].state \in {"table", "waitForBuild", "running", "noMoreInput",
                           "waitForPeers", "finish"}
    /\ probe[p].state \in {"table", "waitForBuild", "noMoreInput"} =>
          ~probe[p].noMoreSpillInput /\ ~probe[p].last
    /\ probe[p].state = "waitForPeers" =>
          probe[p].noMoreSpillInput /\ ~probe[p].last
    /\ probe[p].state = "running" =>
          (probe[p].noMoreSpillInput <=> probe[p].last)
    /\ probe[p].noMoreSpillInput => probe[p].ids \subseteq DOMAIN probe[p].disk
    /\ probe[p].state \in {"table", "waitForBuild"} => probe[p].ids = {}

(* The partitions of a prober are the bridge's.                            *)
ProbeOK(p) ==
    /\ InRound(p) =>
          /\ result # None /\ probeStarted
          /\ ~result.null => probe[p].level = LevelOf(result.restored)
          /\ Owed(p) = DOMAIN parts
    /\ Behind(p) =>
          /\ Owed(p) = Expecting
          /\ result # None \/ restoring # None => probe[p].table # "current"
          /\ restoring = None => \A b \in Builders : ~Building(b)
    /\ probe[p].state \in {"table", "waitForBuild"} => Owed(p) = Expecting

ProbeInv == PeersInv /\ \A p \in Probers : ProbeFlags(p) /\ ProbeOK(p)

(* The inductive invariant, of a task that has not failed.                 *)
RoundInv == Types /\ BuildInv /\ BridgeInv /\ (join.spill => ProbeInv)

HandoverInv == running => RoundInv

-----------------------------------------------------------------------------
(* setHashTable, setAntiJoinHasNullKeys, probeFinished and cancel wake     *)
(* everybody; most steps add nobody.                                       *)
LEMMA WakingReleases ==
    ASSUME CancelReleases, waiters' = {} \/ (waiters' = waiters /\ cancelled' = cancelled)
    PROVE  CancelReleases'
  BY Zenon DEF CancelReleases

(* A step that adds a waiter has found the bridge not cancelled.           *)
LEMMA WaitingNeedsBridge ==
    ASSUME ~cancelled, cancelled' = cancelled
    PROVE  CancelReleases'
  BY Zenon DEF CancelReleases

(* The operations of HashBuild; spillInputOrFuture is the one that waits.  *)
LEMMA BuildStepReleases ==
    ASSUME CancelReleases, NEW b \in Builders, BuildStep(b)
    PROVE  CancelReleases'
<1>1. CASE AddBuildInput(b) \/ FinishHashBuild(b)
  <2>1. UNCHANGED <<waiters, cancelled>>
    BY Zenon, <1>1 DEF AddBuildInput, FinishHashBuild, taskVars
  <2> QED
    BY Zenon, <2>1, WakingReleases
<1>2. CASE MergeTables(b)
  <2>1. cancelled' = cancelled
    BY Zenon, <1>2 DEF MergeTables, taskVars
  <2>2. CASE HasNullKeys /\ SetAntiJoinHasNullKeys
    BY Zenon, <2>2, WakingReleases DEF SetAntiJoinHasNullKeys, Notify
  <2>3. CASE SetHashTable(UNION {build[c].table : c \in Builders}, AllSpilled,
                build[b].level, join.spill /\ ~Exceeded(build[b].level))
    BY Zenon, <2>3, WakingReleases DEF SetHashTable, Notify
  <2>4. CASE UNCHANGED waiters
    BY Zenon, <2>1, <2>4, WakingReleases
  <2> QED
    BY Zenon, <1>2, <2>2, <2>3, <2>4 DEF MergeTables
<1>3. CASE PostHashBuildProcess(b)
  <2>1. cancelled' = cancelled
    BY Zenon, <1>3 DEF PostHashBuildProcess, taskVars
  <2>2. UNCHANGED waiters \/ ~cancelled
    BY Zenon, <1>3 DEF PostHashBuildProcess
  <2> QED
    BY Zenon, <2>1, <2>2, WakingReleases, WaitingNeedsBridge
<1> QED
  BY Zenon, <1>1, <1>2, <1>3 DEF BuildStep

(* The operations of HashProbe; tableOrFuture is the one that waits.       *)
LEMMA ProbeStepReleases ==
    ASSUME CancelReleases, NEW p \in Probers, ProbeStep(p)
    PROVE  CancelReleases'
<1>1. CASE AddProbeInput(p) \/ GetOutput(p) \/ NoMoreProbeInput(p)
  <2>1. UNCHANGED <<waiters, cancelled>>
    BY Zenon, <1>1 DEF AddProbeInput, GetOutput, NoMoreProbeInput, taskVars
  <2> QED
    BY Zenon, <2>1, WakingReleases
<1>2. CASE TableOrFuture(p)
  <2>1. cancelled' = cancelled
    BY Zenon, <1>2 DEF TableOrFuture, taskVars
  <2>2. UNCHANGED waiters \/ ~cancelled
    BY Zenon, <1>2 DEF TableOrFuture, CheckCancelled
  <2> QED
    BY Zenon, <2>1, <2>2, WakingReleases, WaitingNeedsBridge
<1>3. CASE EndProbe(p)
  <2>1. cancelled' = cancelled
    BY Zenon, <1>3 DEF EndProbe, taskVars
  <2>2. waiters' = {} \/ UNCHANGED waiters
    BY Zenon, <1>3 DEF EndProbe, ProbeFinished, Notify
  <2> QED
    BY Zenon, <2>1, <2>2, WakingReleases
<1> QED
  BY Zenon, <1>1, <1>2, <1>3 DEF ProbeStep

(* One case for each operator's step, reclaim, and step of the failure.    *)
LEMMA NextReleases == CancelReleases /\ [Next]_vars => CancelReleases'
<1> SUFFICES ASSUME CancelReleases, [Next]_vars
             PROVE  CancelReleases'
  OBVIOUS
<1>1. CASE \E b \in Builders : BuildStep(b)
  BY Zenon, <1>1, BuildStepReleases
<1>2. CASE \E p \in Probers : ProbeStep(p)
  BY Zenon, <1>2, ProbeStepReleases
<1>3. CASE ReclaimBuild \/ ReclaimProbe \/ ReclaimBridge
  <2>1. UNCHANGED <<waiters, cancelled>>
    BY Zenon, <1>3 DEF ReclaimBuild, ReclaimProbe, ReclaimBridge, taskVars
  <2> QED
    BY Zenon, <2>1, WakingReleases
<1>4. CASE \E stay \in SUBSET OnThread : Terminate(stay)
  <2>1. UNCHANGED <<waiters, cancelled>>
    BY Zenon, <1>4 DEF Terminate
  <2> QED
    BY Zenon, <2>1, WakingReleases
<1>5. CASE Cancel
  BY Zenon, <1>5, WakingReleases DEF Cancel
<1>6. CASE \E d \in Builders \cup Probers : Close(d)
  <2>1. UNCHANGED <<waiters, cancelled>>
    BY Zenon, <1>6 DEF Close, taskVars
  <2> QED
    BY Zenon, <2>1, WakingReleases
<1>7. CASE UNCHANGED vars
  <2>1. UNCHANGED <<waiters, cancelled>>
    BY Zenon, <1>7 DEF vars, taskVars
  <2> QED
    BY Zenon, <2>1, WakingReleases
<1> QED
  BY Zenon, <1>1, <1>2, <1>3, <1>4, <1>5, <1>6, <1>7 DEF Next

(* No operator is left waiting at the bridge of a failed task: who waits   *)
(* when it is cancelled is woken, who comes later is told (cancelled_).    *)
THEOREM CancelledBridgeReleases == Spec => []CancelReleases
<1>1. Init => CancelReleases
  BY Zenon DEF Init, CancelReleases
<1> QED
  BY <1>1, NextReleases, PTL DEF Spec

-----------------------------------------------------------------------------
(* A key is the set of the levels at which its bit is 1.                   *)
LEMMA KeyFromBits ==
    ASSUME NEW k \in Keys
    PROVE  [l \in 1..MaxLevel |->
               IF l \in {m \in 1..MaxLevel : k[m] = 1} THEN 1 ELSE 0] = k
<1>1. \A l \in 1..MaxLevel : k[l] = IF k[l] = 1 THEN 1 ELSE 0
  BY DEF Keys
<1>2. k = [l \in 1..MaxLevel |-> k[l]]
  BY Zenon DEF Keys
<1> QED
  BY Zenon, <1>1, <1>2

(* There are finitely many rows: the key of a row is the set of the levels *)
(* at which its bit is 1.                                                  *)
LEMMA RowsFinite == IsFiniteSet(Row)
<1> DEFINE Bits == SUBSET (1..MaxLevel)
           Codes == (Builders \X Bits) \X BOOLEAN
           KeyOf(A) == [l \in 1..MaxLevel |-> IF l \in A THEN 1 ELSE 0]
           RowOf == [c \in Codes |-> [builder |-> c[1][1], key |-> KeyOf(c[1][2]),
                                      probed |-> c[2]]]
<1>1. IsFiniteSet(Codes)
  <2>1. IsFiniteSet(1..MaxLevel)
    BY HashJoinAssumption, FS_Interval
  <2>2. IsFiniteSet(Bits)
    BY Zenon, <2>1, FS_SUBSET
  <2>3. IsFiniteSet(Builders \X Bits)
    BY Zenon, <2>2, HashJoinAssumption, FS_Product
  <2>4. IsFiniteSet(BOOLEAN)
    <3>1. IsFiniteSet({TRUE} \cup {FALSE})
      BY Zenon, FS_Singleton, FS_Union
    <3>2. {TRUE} \cup {FALSE} = BOOLEAN
      BY Zenon
    <3> QED
      BY Zenon, <3>1, <3>2
  <2> QED
    BY Zenon, <2>3, <2>4, FS_Product
<1>2. RowOf \in [Codes -> Row]
  <2> SUFFICES ASSUME NEW c \in Codes
               PROVE  [builder |-> c[1][1], key |-> KeyOf(c[1][2]), probed |-> c[2]] \in Row
    BY Zenon
  <2>1. c[1][1] \in Builders /\ c[2] \in BOOLEAN
    BY Zenon
  <2>2. KeyOf(c[1][2]) \in Keys
    BY DEF Keys
  <2> QED
    BY <2>1, <2>2 DEF Row
<1>3. ASSUME NEW r \in Row PROVE \E c \in Codes : RowOf[c] = r
  <2> DEFINE A == {l \in 1..MaxLevel : r.key[l] = 1}
             c == <<<<r.builder, A>>, r.probed>>
  <2>1. c \in Codes
    BY DEF Row
  <2>2. KeyOf(A) = r.key
    <3>1. r.key \in Keys
      BY Zenon DEF Row
    <3> QED
      BY Zenon, <3>1, KeyFromBits
  <2>3. RowOf[c] = [builder |-> r.builder, key |-> KeyOf(A), probed |-> r.probed]
    BY Zenon, <2>1
  <2>4. r = [builder |-> r.builder, key |-> r.key, probed |-> r.probed]
    BY DEF Row
  <2> QED
    BY Zenon, <2>1, <2>2, <2>3, <2>4
<1> HIDE DEF Codes, RowOf
<1>4. RowOf \in Surjection(Codes, Row)
  BY Zenon, <1>2, <1>3 DEF Surjection
<1> QED
  BY Zenon, <1>1, <1>4, FS_Surjection

(* The sequence of a finite set has its elements.                          *)
LEMMA FilesType ==
    ASSUME NEW S, IsFiniteSet(S)
    PROVE  Files(S) \in [1..Cardinality(S) -> S] /\ Files(S) \in Seq(S)
<1>1. Cardinality(S) \in Nat /\ ExistsBijection(1..Cardinality(S), S)
  BY Zenon, FS_CardinalityType
<1>2. \E f \in [1..Cardinality(S) -> S] : IsInjective(f)
  BY Zenon, <1>1 DEF ExistsBijection, Bijection, Injection
<1>3. Files(S) \in [1..Cardinality(S) -> S]
  BY Zenon, <1>2 DEF Files
<1> HIDE DEF Files
<1> QED
  BY <1>1, <1>3

(* Rows are written to one file each, so a shard gets rows.                *)
LEMMA SplitType ==
    ASSUME NEW rows \in SUBSET Row
    PROVE  Split(rows) \in Seq(SUBSET Row) /\ Len(Split(rows)) = Cardinality(Builders)
<1>1. Files(rows) \in [1..Cardinality(rows) -> rows]
  BY Zenon, RowsFinite, FS_Subset, FilesType
<1>2. Cardinality(Builders) \in Nat
  BY Zenon, HashJoinAssumption, FS_CardinalityType
<1> DEFINE shard(s) == {Files(rows)[f] : f \in {f \in DOMAIN Files(rows) :
                            (f - 1) % Cardinality(Builders) = s - 1}}
<1>3. \A s : shard(s) \in SUBSET Row
  BY Zenon, <1>1
<1>4. Split(rows) = [s \in 1..Cardinality(Builders) |-> shard(s)]
  BY Zenon DEF Split
<1> HIDE DEF shard
<1> QED
  BY <1>2, <1>3, <1>4

(* The partitions of some rows at one level.                               *)
LEMMA PartitionsType ==
    ASSUME NEW rows \in SUBSET Row, NEW l, rows # {} => l \in 1..MaxLevel
    PROVE  /\ DOMAIN Partitions(rows, l) \subseteq Ids
           /\ \A i \in DOMAIN Partitions(rows, l) : i[1] = l
           /\ \A i \in DOMAIN Partitions(rows, l) : Partitions(rows, l)[i] \subseteq Row
           /\ rows = {} => DOMAIN Partitions(rows, l) = {}
<1>1. DOMAIN Partitions(rows, l) = {Id(r.key, l) : r \in rows}
  BY Zenon DEF Partitions
<1>2. ASSUME NEW r \in rows PROVE Id(r.key, l) \in Ids /\ Id(r.key, l)[1] = l
  BY Zenon, <1>2 DEF Id, Ids, Row, Keys
<1>3. \A i \in DOMAIN Partitions(rows, l) : Partitions(rows, l)[i] \subseteq rows
  BY Zenon, <1>1 DEF Partitions
<1> QED
  BY Zenon, <1>1, <1>2, <1>3

(* The partition restored first is one of the deepest.                     *)
LEMMA FirstPartIs ==
    ASSUME DOMAIN parts \subseteq Ids, DOMAIN parts # {}
    PROVE  /\ FirstPart \in DOMAIN parts
           /\ \A j \in DOMAIN parts : j[1] <= FirstPart[1]
<1> DEFINE code(i) == 2 * (MaxLevel - i[1]) + i[2]
           R == {ss \in Nat \X Nat : ss[1] < ss[2]}
           T == {code(i) : i \in DOMAIN parts}
<1>1. \A i \in Ids : code(i) \in Nat
  BY HashJoinAssumption DEF Ids
<1>2. \A i, j \in Ids : code(i) <= code(j) => i = j \/ Precedes(i, j)
  <2> SUFFICES ASSUME NEW i \in Ids, NEW j \in Ids, code(i) <= code(j)
               PROVE  i = j \/ Precedes(i, j)
    BY Zenon
  <2>1. /\ i[1] \in Nat /\ i[2] \in 0..1 /\ j[1] \in Nat /\ j[2] \in 0..1
        /\ i = <<i[1], i[2]>> /\ j = <<j[1], j[2]>>
    BY HashJoinAssumption DEF Ids
  <2>2. (i[1] = j[1] /\ i[2] = j[2]) \/ Precedes(i, j)
    BY <2>1, HashJoinAssumption DEF Precedes
  <2> QED
    BY Zenon, <2>1, <2>2
<1>3. IsWellFoundedOn(R, Nat)
  BY Zenon, NatLessThanWellFounded DEF OpToRel
<1>4. T \subseteq Nat /\ T # {}
  BY Zenon, <1>1
<1> HIDE DEF code, R
<1>5. PICK m \in T : \A y \in T : ~(<<y, m>> \in R)
  BY Zenon, <1>3, <1>4, WFMin
<1>6. PICK i \in DOMAIN parts : m = code(i)
  BY Zenon, <1>5
<1>7. \A j \in DOMAIN parts : code(i) <= code(j)
  <2> SUFFICES ASSUME NEW j \in DOMAIN parts PROVE code(i) <= code(j)
    BY Zenon
  <2>1. code(i) \in Nat /\ code(j) \in Nat /\ ~(<<code(j), code(i)>> \in R)
    BY Zenon, <1>1, <1>5, <1>6
  <2>2. ~(code(j) < code(i))
    BY Zenon, <2>1 DEF R
  <2> QED
    BY <2>1, <2>2
<1>8. \A j \in DOMAIN parts \ {i} : Precedes(i, j)
  BY Zenon, <1>2, <1>7
<1>9. FirstPart \in DOMAIN parts /\ \A j \in DOMAIN parts \ {FirstPart} : Precedes(FirstPart, j)
  BY Zenon, <1>8 DEF FirstPart
<1>10. \A i1, j \in Ids : Precedes(i1, j) => j[1] <= i1[1]
  BY HashJoinAssumption DEF Precedes, Ids
<1>11. FirstPart[1] \in Nat
  BY <1>9 DEF Ids
<1> HIDE DEF FirstPart
<1> QED
  <2> SUFFICES ASSUME NEW j \in DOMAIN parts PROVE j[1] <= FirstPart[1]
    BY Zenon, <1>9
  <2>1. CASE j = FirstPart
    BY <1>11, <2>1
  <2>2. CASE j # FirstPart
    BY Zenon, <1>9, <1>10, <2>2
  <2> QED
    BY Zenon, <2>1, <2>2

-----------------------------------------------------------------------------
(* A nullopt is no result and no partition.                                *)
LEMMA NoneIsNone ==
    /\ \A r \in Results : r # None
    /\ \A i \in Ids : i # None /\ i[1] \in 1..MaxLevel
<1>1. \A r \in Results : r # None
  BY Zenon, NoneAssumption DEF Results
<1>2. \A i \in Ids : i # None
  BY Zenon, NoneAssumption
<1>3. \A i \in Ids : i[1] \in 1..MaxLevel
  BY Zenon DEF Ids
<1> QED
  BY Zenon, <1>1, <1>2, <1>3

(* The level of a round.                                                   *)
LEMMA LevelType ==
    ASSUME NEW r \in Ids \cup {None}
    PROVE  /\ LevelOf(r) \in Nat \ {0}
           /\ r # None => LevelOf(r) # r[1] /\ LevelOf(r) > r[1]
<1>1. r # None => r[1] \in Nat \ {0}
  BY NoneIsNone
<1> QED
  BY <1>1 DEF LevelOf

-----------------------------------------------------------------------------
(* Steps that leave the builders where they are.                           *)
LEMMA AwakeFrame ==
    ASSUME buildPeers' = buildPeers,
           \A b \in Builders : build'[b].state = build[b].state,
           \A b \in Builders : b \in waiters' <=> b \in waiters
    PROVE  /\ Awake' = Awake
           /\ \A b \in Builders : Building(b)' <=> Building(b)
           /\ \A b \in Builders : BuildAwake(b)' <=> BuildAwake(b)
  BY Zenon DEF Awake, Building, BuildAwake

(* What is known of the builders stays, but for a change of the table.     *)
LEMMA BuildFrame ==
    ASSUME BuildInv, UNCHANGED <<join, build, buildPeers, result, restoring>>,
           \A b \in Builders : b \in waiters' <=> b \in waiters,
           \A b \in Builders : Building(b) /\ restoring = None =>
               table' = table /\ DOMAIN parts' = DOMAIN parts
    PROVE  BuildInv'
<1>1. \A b \in Builders : (Building(b)' <=> Building(b)) /\ (BuildAwake(b)' <=> BuildAwake(b))
  BY Zenon, AwakeFrame
<1>2. BarrierInv'
  BY Zenon DEF BuildInv, BarrierInv
<1>3. ASSUME NEW b \in Builders PROVE BuildOK(b)'
  <2>1. BuildOK(b)
    BY Zenon DEF BuildInv
  <2>2. Building(b) /\ restoring = None => table' = {} /\ DOMAIN parts' = {}
    BY Zenon, <2>1 DEF BuildOK
  <2>3. LevelOf(restoring)' = LevelOf(restoring)
    BY Zenon
  <2> QED
    BY Zenon, <1>1, <2>1, <2>2, <2>3 DEF BuildOK
<1>4. Together'
  BY Zenon, <1>1 DEF BuildInv, Together
<1> QED
  BY Zenon, <1>2, <1>3, <1>4 DEF BuildInv

(* Steps that leave the bridge alone, but for its flags.                   *)
LEMMA BridgeFrame ==
    ASSUME BridgeInv, UNCHANGED <<join, result, restoring, shards, parts>>,
           restoring # None => Awake' = Awake, table = {} => table' = {},
           spillFunc' => spillFunc, probeStarted' => ~spillFunc',
           \A b \in Builders : /\ build'[b].spiller => build[b].spiller
                               /\ build'[b].state = "finish" /\ join.spill /\ result # None
                                     => build[b].state = "finish"
    PROVE  BridgeInv'
<1>1. RestoreInv'
  BY Zenon DEF BridgeInv, RestoreInv
<1>2. ResultInv'
  <2>1. ASSUME result # None
        PROVE  /\ result'.ids \subseteq DOMAIN parts'
               /\ result'.restored \notin DOMAIN parts'
               /\ result'.null => table' = {} /\ DOMAIN parts' = {} /\ result'.restored = None
               /\ table' # {} => result'.ids = {}
               /\ \A b \in Builders :
                     /\ ~result'.null => ~build'[b].spiller
                     /\ join'.spill => build'[b].state # "finish"
    BY Zenon, <2>1 DEF BridgeInv, ResultInv
  <2>2. ASSUME result # None, spillFunc'
        PROVE  /\ LevelOf(result'.restored) <= MaxLevel
               /\ \A i \in DOMAIN parts' \ result'.ids : i[1] # LevelOf(result'.restored)
    BY Zenon, <2>2 DEF BridgeInv, ResultInv
  <2> QED
    BY Zenon, <2>1, <2>2 DEF ResultInv
<1>3. PlainInv'
  BY Zenon DEF BridgeInv, PlainInv
<1> QED
  BY Zenon, <1>1, <1>2, <1>3 DEF BridgeInv

(* A step that changes nothing of a prober but its input and output.       *)
SameProber(p) ==
    /\ DOMAIN probe'[p] = DOMAIN probe[p]
    /\ probe'[p].state = probe[p].state /\ probe'[p].last = probe[p].last
    /\ probe'[p].noMoreSpillInput = probe[p].noMoreSpillInput
    /\ probe'[p].ids = probe[p].ids /\ probe'[p].disk = probe[p].disk
    /\ probe'[p].table = probe[p].table /\ probe'[p].level = probe[p].level

(* Steps that leave a prober alone, and what it must hold.                 *)
LEMMA ProbeOKFrame ==
    ASSUME NEW p \in Probers, ProbeFlags(p), ProbeOK(p), SameProber(p),
           p \in probePeers' <=> p \in probePeers,
           UNCHANGED <<result, restoring, parts>>,
           probeStarted => probeStarted',
           restoring = None => \A b \in Builders : Building(b)' => Building(b)
    PROVE  ProbeFlags(p)' /\ ProbeOK(p)'
<1>0. /\ probe'[p].state = probe[p].state /\ probe'[p].last = probe[p].last
      /\ probe'[p].noMoreSpillInput = probe[p].noMoreSpillInput
      /\ probe'[p].ids = probe[p].ids /\ probe'[p].disk = probe[p].disk
      /\ probe'[p].table = probe[p].table /\ probe'[p].level = probe[p].level
  BY Zenon DEF SameProber
<1>1. ProbeFlags(p)'
  BY Zenon, <1>0 DEF ProbeFlags
<1>2. /\ Owed(p)' = Owed(p) /\ Expecting' = Expecting
      /\ LevelOf(result.restored)' = LevelOf(result.restored)
  BY Zenon, <1>0 DEF Owed, Expecting, LevelOf
<1>3. (InRound(p)' <=> InRound(p)) /\ (Behind(p)' <=> Behind(p))
  BY Zenon, <1>0 DEF InRound, Behind
<1>4. InRound(p)' => /\ result' # None /\ probeStarted'
                     /\ ~result'.null => probe'[p].level = LevelOf(result.restored)'
                     /\ Owed(p)' = DOMAIN parts'
  BY Zenon, <1>0, <1>2, <1>3 DEF ProbeOK
<1>5. Behind(p)' =>
          /\ Owed(p)' = Expecting'
          /\ result' # None \/ restoring' # None => probe'[p].table # "current"
          /\ restoring' = None => \A b \in Builders : ~Building(b)'
  BY Zenon, <1>0, <1>2, <1>3 DEF ProbeOK
<1>6. probe'[p].state \in {"table", "waitForBuild"} => Owed(p)' = Expecting'
  BY Zenon, <1>0, <1>2 DEF ProbeOK
<1> QED
  BY Zenon, <1>1, <1>4, <1>5, <1>6 DEF ProbeOK

(* Steps of the builders leave the probers where they are.                 *)
LEMMA ProbeFrame ==
    ASSUME ProbeInv,
           UNCHANGED <<probe, probePeers, arrived, result, restoring, parts, probeStarted>>,
           restoring = None => \A b \in Builders : Building(b)' => Building(b)
    PROVE  ProbeInv'
<1>1. PeersInv'
  BY Zenon DEF ProbeInv, PeersInv, Ending
<1>2. ASSUME NEW p \in Probers PROVE ProbeFlags(p)' /\ ProbeOK(p)'
  <2>1. ProbeFlags(p) /\ ProbeOK(p) /\ SameProber(p)
    BY Zenon DEF ProbeInv, SameProber
  <2> QED
    BY Zenon, <2>1, ProbeOKFrame
<1> QED
  BY Zenon, <1>1, <1>2 DEF ProbeInv

-----------------------------------------------------------------------------
(* The empty input.                                                        *)
LEMMA EmptyIsSeq == \A S : <<>> \in Seq(S)
  OBVIOUS

(* A row of the input goes to the table or to disk.                        *)
LEMMA AfterInputKeeps ==
    ASSUME NEW old \in BuildTypes, old.input # <<>>
    PROVE  /\ AfterInput(old) \in BuildTypes
           /\ AfterInput(old).state = old.state /\ AfterInput(old).level = old.level
           /\ AfterInput(old).spilled = old.spilled
           /\ AfterInput(old).spiller = old.spiller
           /\ old.spilled => AfterInput(old).table = old.table
           /\ ~old.spilled => AfterInput(old).disk = old.disk
           /\ old.input \in Seq(Row) => /\ AfterInput(old).input \in Seq(Row)
                                        /\ AfterInput(old).null = old.null
<1> DEFINE row == Head(old.input)
<1>0. old.input \in Seq(AnyRow)
  BY DEF BuildTypes
<1>1. row \in AnyRow /\ Tail(old.input) \in Seq(AnyRow)
  BY <1>0
<1>2. old.input \in Seq(Row) => row \in Row /\ Tail(old.input) \in Seq(Row)
  OBVIOUS
<1>3. row.key # Null => row \in Row
  BY <1>1 DEF AnyRow, Row
<1>4. old.input \in Seq(Row) => row.key # Null
  <2>1. \A r \in Row : r.key \in Keys
    BY Zenon DEF Row
  <2> QED
    BY Zenon, <1>2, <2>1, NoneAssumption
<1>5. CASE row.key = Null /\ join.kind = "anti"
  <2>1. AfterInput(old) = [old EXCEPT !.null = TRUE, !.input = <<>>]
    BY Zenon, <1>5 DEF AfterInput
  <2>2. PICK I \in Seq(AnyRow) : I = <<>>
    BY Zenon, EmptyIsSeq
  <2>2a. AfterInput(old) = [old EXCEPT !.null = TRUE, !.input = I]
    BY Zenon, <2>1, <2>2
  <2>2b. AfterInput(old) \in BuildTypes
    BY Zenon, <2>2a DEF BuildTypes
  <2>3. /\ AfterInput(old).state = old.state /\ AfterInput(old).level = old.level
        /\ AfterInput(old).spilled = old.spilled
        /\ AfterInput(old).spiller = old.spiller
        /\ AfterInput(old).table = old.table /\ AfterInput(old).disk = old.disk
    BY <2>1 DEF BuildTypes
  <2> QED
    BY Zenon, <1>4, <1>5, <2>2b, <2>3
<1>6. CASE row.key = Null /\ join.kind # "anti"
  <2>1. AfterInput(old) = [old EXCEPT !.input = Tail(@)]
    BY Zenon, <1>6 DEF AfterInput
  <2> HIDE DEF row
  <2> QED
    BY Zenon, <1>1, <1>4, <1>6, <2>1 DEF BuildTypes
<1>7. CASE row.key # Null /\ old.spilled
  <2>1. AfterInput(old) = [old EXCEPT !.disk = @ \cup {row}, !.input = Tail(@)]
    BY Zenon, <1>7 DEF AfterInput
  <2>2. PICK D \in SUBSET Row, I \in Seq(AnyRow) : D = old.disk \cup {row} /\ I = Tail(old.input)
    BY Zenon, <1>1, <1>3, <1>7 DEF BuildTypes
  <2>3. AfterInput(old) = [old EXCEPT !.disk = D, !.input = I]
    BY Zenon, <2>1, <2>2
  <2> HIDE DEF row
  <2>4. AfterInput(old) \in BuildTypes /\ AfterInput(old).input = I
    BY Zenon, <2>3 DEF BuildTypes
  <2>5. /\ AfterInput(old).state = old.state /\ AfterInput(old).level = old.level
        /\ AfterInput(old).spilled = old.spilled /\ AfterInput(old).null = old.null
        /\ AfterInput(old).spiller = old.spiller
        /\ AfterInput(old).table = old.table
    BY <2>3 DEF BuildTypes
  <2> QED
    BY Zenon, <1>2, <1>7, <2>2, <2>4, <2>5
<1>8. CASE row.key # Null /\ ~old.spilled
  <2>1. AfterInput(old) = [old EXCEPT !.table = @ \cup {row}, !.input = Tail(@)]
    BY Zenon, <1>8 DEF AfterInput
  <2>2. PICK D \in SUBSET Row, I \in Seq(AnyRow) : D = old.table \cup {row} /\ I = Tail(old.input)
    BY Zenon, <1>1, <1>3, <1>8 DEF BuildTypes
  <2>3. AfterInput(old) = [old EXCEPT !.table = D, !.input = I]
    BY Zenon, <2>1, <2>2
  <2> HIDE DEF row
  <2>4. AfterInput(old) \in BuildTypes /\ AfterInput(old).input = I
    BY Zenon, <2>3 DEF BuildTypes
  <2>5. /\ AfterInput(old).state = old.state /\ AfterInput(old).level = old.level
        /\ AfterInput(old).spilled = old.spilled /\ AfterInput(old).null = old.null
        /\ AfterInput(old).spiller = old.spiller
        /\ AfterInput(old).disk = old.disk
    BY <2>3 DEF BuildTypes
  <2> QED
    BY Zenon, <1>2, <1>8, <2>2, <2>4, <2>5
<1> QED
  BY Zenon, <1>5, <1>6, <1>7, <1>8

(* addInput of HashBuild: a row goes to the table, or to disk if the       *)
(* builders have spilled.  Rows that were spilled have keys.               *)
LEMMA AddBuildInputRound ==
    ASSUME RoundInv, NEW b \in Builders, AddBuildInput(b)
    PROVE  RoundInv'
<1>1. /\ build[b].state = "running" /\ build[b].input # <<>>
      /\ UNCHANGED <<join, cancelled, result, restoring, shards, parts,
                     probeStarted, spillFunc, waiters, buildPeers, probe,
                     probePeers, arrived, table>>
  BY Zenon DEF AddBuildInput, taskVars, bridgeVars
<1>2. build \in [Builders -> BuildTypes] /\ build[b] \in BuildTypes
  BY Zenon DEF RoundInv, Types
<1> DEFINE old == build[b]
           new == AfterInput(old)
<1>3. build' = [build EXCEPT ![b] = new]
  BY Zenon DEF AddBuildInput
<1>4. old \in BuildTypes /\ old.input # <<>>
  BY Zenon, <1>1, <1>2
<1> HIDE DEF old
<1>8. /\ new \in BuildTypes
      /\ new.state = old.state /\ new.level = old.level
      /\ new.spilled = old.spilled /\ new.spiller = old.spiller
      /\ old.spilled => new.table = old.table
      /\ ~old.spilled => new.disk = old.disk
      /\ old.input \in Seq(Row) => new.input \in Seq(Row) /\ new.null = old.null
  BY Zenon, <1>4, AfterInputKeeps
<1> USE DEF old
<1> HIDE DEF new
<1>9. /\ build' \in [Builders -> BuildTypes] /\ build'[b] = new
      /\ \A c \in Builders \ {b} : build'[c] = build[c]
  BY Zenon, <1>2, <1>3, <1>8
<1>10. \A c \in Builders : /\ build'[c].state = build[c].state
                           /\ build'[c].spilled = build[c].spilled
                           /\ build'[c].spiller = build[c].spiller
  BY Zenon, <1>8, <1>9
<1>11. /\ Awake' = Awake
       /\ \A c \in Builders : (Building(c)' <=> Building(c)) /\ (BuildAwake(c)' <=> BuildAwake(c))
  BY Zenon, <1>1, <1>10, AwakeFrame
<1>12. Types'
  BY Zenon, <1>1, <1>9 DEF RoundInv, Types, PartsTypes
<1>13. BuildInv'
  <2>1. BarrierInv'
    BY Zenon, <1>1, <1>10 DEF RoundInv, BuildInv, BarrierInv
  <2>2. ASSUME NEW c \in Builders PROVE BuildOK(c)'
    <3>1. BuildOK(c)
      BY Zenon DEF RoundInv, BuildInv
    <3>2. CASE c # b
      <4>1. build'[c] = build[c]
        BY Zenon, <1>9, <3>2
      <4> QED
        BY Zenon, <1>1, <1>11, <3>1, <4>1 DEF BuildOK
    <3>3. CASE c = b
      <4>1. Building(c)
        BY Zenon, <1>1, <3>3 DEF Building
      <4>2. /\ build'[c].level = build[c].level /\ build'[c].spilled = build[c].spilled
            /\ build'[c].spiller = build[c].spiller
            /\ build[c].spilled => build'[c].table = build[c].table
            /\ ~build[c].spilled => build'[c].disk = build[c].disk
            /\ build[c].input \in Seq(Row) =>
                  build'[c].input \in Seq(Row) /\ build'[c].null = build[c].null
        BY Zenon, <1>8, <1>9, <3>3
      <4> QED
        BY Zenon, <1>1, <1>11, <3>1, <4>1, <4>2 DEF BuildOK
    <3> QED
      BY Zenon, <3>2, <3>3
  <2>3. Together'
    BY Zenon, <1>1, <1>10, <1>11 DEF RoundInv, BuildInv, Together
  <2> QED
    BY Zenon, <2>1, <2>2, <2>3 DEF BuildInv
<1>14. BridgeInv'
  <2>1. BridgeInv /\ (probeStarted => ~spillFunc)
    BY Zenon DEF RoundInv, BridgeInv
  <2> QED
    BY Zenon, <1>1, <1>10, <1>11, <2>1, BridgeFrame
<1>15. join'.spill => ProbeInv'
  BY Zenon, <1>1, <1>11, ProbeFrame DEF RoundInv
<1> QED
  BY Zenon, <1>12, <1>13, <1>14, <1>15 DEF RoundInv

-----------------------------------------------------------------------------
(* A step that changes nothing of a builder but its state.                 *)
SameFields(c) ==
    /\ build'[c].level = build[c].level /\ build'[c].spilled = build[c].spilled
    /\ build'[c].spiller = build[c].spiller /\ build'[c].null = build[c].null
    /\ build'[c].table = build[c].table /\ build'[c].disk = build[c].disk
    /\ build'[c].input = build[c].input

BuildStates == {"running", "waitForBuild", "merge", "post", "waitForProbe", "finish"}

(* One builder changes its state.                                          *)
LEMMA StateChange ==
    ASSUME build \in [Builders -> BuildTypes], NEW b \in Builders,
           NEW s \in BuildStates,
           build' = [build EXCEPT ![b].state = s]
    PROVE  /\ build' \in [Builders -> BuildTypes]
           /\ \A c \in Builders \ {b} : build'[c] = build[c]
           /\ build'[b].state = s
           /\ \A c \in Builders : SameFields(c)
<1>1. build[b] \in BuildTypes
  BY Zenon
<1>2. build'[b] = [build[b] EXCEPT !.state = s]
  BY Zenon
<1>3. \A c \in Builders \ {b} : build'[c] = build[c]
  BY Zenon
<1>4. [build[b] EXCEPT !.state = s] \in BuildTypes
  BY Zenon, <1>1 DEF BuildTypes, BuildStates
<1>5. build' \in [Builders -> BuildTypes]
  BY Zenon, <1>4
<1>6. build'[b].state = s /\ SameFields(b)
  BY <1>1, <1>2 DEF BuildTypes, SameFields
<1>7. \A c \in Builders \ {b} : SameFields(c)
  BY Zenon, <1>3 DEF SameFields
<1> QED
  BY Zenon, <1>3, <1>5, <1>6, <1>7

(* What is known of a builder that stays on its side of the barrier.       *)
LEMMA SameFieldsOK ==
    ASSUME NEW c \in Builders, BuildOK(c), SameFields(c), Building(c)' <=> Building(c),
           restoring # None /\ ~Building(c) => BuildAwake(c)',
           UNCHANGED <<join, result, restoring, table, parts>>
    PROVE  BuildOK(c)'
<1>1. build'[c].spiller => join'.spill /\ build'[c].level <= MaxLevel
  BY Zenon DEF BuildOK, SameFields
<1>2. Building(c)' =>
          /\ result' = None
          /\ build'[c].level = LevelOf(restoring)'
          /\ build'[c].spilled =>
                join'.spill /\ build'[c].level <= MaxLevel /\ build'[c].table = {}
          /\ ~build'[c].spilled => build'[c].disk = {}
          /\ restoring' = None => table' = {} /\ DOMAIN parts' = {}
          /\ restoring' # None => build'[c].input \in Seq(Row) /\ ~build'[c].null
  BY Zenon DEF BuildOK, SameFields, LevelOf
<1>3. ~Building(c)' /\ restoring' # None => BuildAwake(c)' /\ ~build'[c].spiller
  BY Zenon DEF BuildOK, SameFields
<1> QED
  BY Zenon, <1>1, <1>2, <1>3 DEF BuildOK

-----------------------------------------------------------------------------
(* finishHashBuild up to the merge: the last builder at the barrier finds  *)
(* all others waiting there.                                               *)
LEMMA FinishHashBuildRound ==
    ASSUME RoundInv, NEW b \in Builders, FinishHashBuild(b)
    PROVE  RoundInv'
<1>1. /\ build[b].state = "running"
      /\ UNCHANGED <<join, cancelled, result, restoring, shards, parts,
                     probeStarted, spillFunc, waiters, probe,
                     probePeers, arrived, table>>
  BY Zenon DEF FinishHashBuild, taskVars, bridgeVars
<1>2. build \in [Builders -> BuildTypes] /\ BarrierInv /\ b \notin buildPeers
  BY Zenon, <1>1 DEF RoundInv, Types, BuildInv, BarrierInv
<1>3. PICK s \in BuildStates :
        /\ build' = [build EXCEPT ![b].state = s]
        /\ \/ s = "merge" /\ buildPeers = Builders \ {b} /\ buildPeers' = buildPeers
           \/ s = "waitForBuild" /\ buildPeers' = buildPeers \cup {b}
  BY Zenon DEF FinishHashBuild, BuildStates
<1>4. /\ build' \in [Builders -> BuildTypes]
      /\ \A c \in Builders \ {b} : build'[c] = build[c]
      /\ build'[b].state = s
      /\ \A c \in Builders : SameFields(c)
  BY Zenon, <1>2, <1>3, StateChange
<1>5. \A c \in Builders : build[c].state # "merge"
  BY Zenon, <1>1, <1>2 DEF BarrierInv
<1>6. BarrierInv'
  BY Zenon, <1>2, <1>3, <1>4, <1>5 DEF BarrierInv
<1>7. \A c \in Builders : (Building(c)' <=> Building(c)) /\ (BuildAwake(c)' <=> BuildAwake(c))
  <2>1. ASSUME NEW c \in Builders \ {b}
        PROVE  (Building(c)' <=> Building(c)) /\ (BuildAwake(c)' <=> BuildAwake(c))
    <3>1. build'[c] = build[c] /\ (c \in buildPeers' <=> c \in buildPeers)
      BY Zenon, <1>3, <1>4
    <3> QED
      BY Zenon, <1>1, <3>1 DEF Building, BuildAwake
  <2>2. Building(b) /\ ~BuildAwake(b)
    BY Zenon, <1>1 DEF Building, BuildAwake
  <2>3. Building(b)' /\ ~BuildAwake(b)'
    BY Zenon, <1>3, <1>4 DEF Building, BuildAwake
  <2> QED
    BY Zenon, <2>1, <2>2, <2>3
<1>8. Types'
  BY Zenon, <1>1, <1>4 DEF RoundInv, Types, PartsTypes
<1>9. BuildInv'
  <2>1. ASSUME NEW c \in Builders PROVE BuildOK(c)'
    <3>1. BuildOK(c) /\ SameFields(c)
      BY Zenon, <1>4 DEF RoundInv, BuildInv
    <3>2. restoring # None /\ ~Building(c) => BuildAwake(c)'
      BY Zenon, <1>7, <3>1 DEF BuildOK
    <3> QED
      BY Zenon, <1>1, <1>7, <3>1, <3>2, SameFieldsOK
  <2>2. Together'
    BY Zenon, <1>1, <1>4, <1>7 DEF RoundInv, BuildInv, Together, SameFields
  <2> QED
    BY Zenon, <1>6, <2>1, <2>2 DEF BuildInv
<1>10. BridgeInv'
  <2>1. BridgeInv /\ (probeStarted => ~spillFunc)
    BY Zenon DEF RoundInv, BridgeInv
  <2>2. Awake' = Awake
    BY Zenon, <1>7 DEF Awake
  <2>3. \A c \in Builders : /\ build'[c].spiller => build[c].spiller
                            /\ build'[c].state = "finish" => build[c].state = "finish"
    <3>1. s # "finish"
      BY Zenon, <1>3
    <3> QED
      BY Zenon, <1>4, <3>1 DEF SameFields
  <2> QED
    BY Zenon, <1>1, <2>1, <2>2, <2>3, BridgeFrame
<1>11. join'.spill => ProbeInv'
  BY Zenon, <1>1, <1>7, ProbeFrame DEF RoundInv
<1> QED
  BY Zenon, <1>8, <1>9, <1>10, <1>11 DEF RoundInv

-----------------------------------------------------------------------------
(* The builders are reclaimed together, before any of them has passed the  *)
(* barrier of the round.                                                   *)
LEMMA ReclaimBuildRound ==
    ASSUME RoundInv, ReclaimBuild
    PROVE  RoundInv'
<1>1. /\ UNCHANGED <<join, cancelled, result, restoring, shards, parts,
                     probeStarted, spillFunc, waiters, buildPeers, probe,
                     probePeers, arrived, table>>
      /\ \A b \in Builders : build[b].spiller
  BY Zenon DEF ReclaimBuild, BuildReclaimable, taskVars, bridgeVars
<1>2. build \in [Builders -> BuildTypes]
  BY Zenon DEF RoundInv, Types
<1>3. build' = [b \in Builders |->
          [build[b] EXCEPT !.disk = build[b].disk \cup build[b].table, !.table = {},
                           !.spilled = TRUE]]
  BY Zenon DEF ReclaimBuild
<1>4. ASSUME NEW c \in Builders
      PROVE  /\ build'[c] \in BuildTypes
             /\ build'[c].state = build[c].state /\ build'[c].level = build[c].level
             /\ build'[c].spiller = build[c].spiller /\ build'[c].null = build[c].null
             /\ build'[c].input = build[c].input
             /\ build'[c].table = {} /\ build'[c].spilled
  <2>1. build[c] \in BuildTypes
    BY Zenon, <1>2
  <2>2. PICK D \in SUBSET Row : D = build[c].disk \cup build[c].table
    BY Zenon, <2>1 DEF BuildTypes
  <2>3. build'[c] = [build[c] EXCEPT !.disk = D, !.table = {}, !.spilled = TRUE]
    BY Zenon, <1>3, <2>2
  <2>4. build'[c] \in BuildTypes
    BY Zenon, <2>1, <2>3 DEF BuildTypes
  <2> QED
    BY <2>1, <2>3, <2>4 DEF BuildTypes
<1>5. build' \in [Builders -> BuildTypes]
  BY Zenon, <1>3, <1>4
<1>6. /\ Awake' = Awake
      /\ \A c \in Builders : (Building(c)' <=> Building(c)) /\ (BuildAwake(c)' <=> BuildAwake(c))
  BY Zenon, <1>1, <1>4, AwakeFrame
<1>7. Types'
  BY Zenon, <1>1, <1>5 DEF RoundInv, Types, PartsTypes
<1>8. BuildInv'
  <2>1. BarrierInv'
    <3>1. BarrierInv /\ \A c \in Builders : build'[c].state = build[c].state
      BY Zenon, <1>4 DEF RoundInv, BuildInv
    <3> QED
      BY Zenon, <1>1, <3>1 DEF BarrierInv
  <2>2. ASSUME NEW c \in Builders PROVE BuildOK(c)'
    <3>1. BuildOK(c) /\ join.spill /\ build[c].level <= MaxLevel
      BY Zenon, <1>1 DEF RoundInv, BuildInv, BuildOK
    <3>2. Building(c)' =>
              /\ result' = None
              /\ build'[c].level = LevelOf(restoring)'
              /\ build'[c].spilled =>
                    join'.spill /\ build'[c].level <= MaxLevel /\ build'[c].table = {}
              /\ ~build'[c].spilled => build'[c].disk = {}
              /\ restoring' = None => table' = {} /\ DOMAIN parts' = {}
              /\ restoring' # None => build'[c].input \in Seq(Row) /\ ~build'[c].null
      BY Zenon, <1>1, <1>4, <1>6, <3>1 DEF BuildOK, LevelOf
    <3>3. ~Building(c)' /\ restoring' # None => BuildAwake(c)' /\ ~build'[c].spiller
      BY Zenon, <1>1, <1>6, <3>1 DEF BuildOK
    <3> QED
      BY Zenon, <1>1, <1>4, <3>1, <3>2, <3>3 DEF BuildOK
  <2>3. Together'
    <3> SUFFICES ASSUME NEW b \in Builders, NEW c \in Builders, Building(b)
                 PROVE  Building(c) /\ build'[c].spilled
      BY Zenon, <1>6 DEF Together
    <3>1. CASE restoring = None
      BY Zenon, <1>4, <3>1 DEF RoundInv, BuildInv, Together
    <3>2. CASE restoring # None
      BY Zenon, <1>1, <1>4, <3>2 DEF RoundInv, BuildInv, BuildOK
    <3> QED
      BY Zenon, <3>1, <3>2
  <2> QED
    BY Zenon, <2>1, <2>2, <2>3 DEF BuildInv
<1>9. BridgeInv'
  <2>1. BridgeInv /\ (probeStarted => ~spillFunc)
    BY Zenon DEF RoundInv, BridgeInv
  <2> QED
    BY Zenon, <1>1, <1>4, <1>6, <2>1, BridgeFrame
<1>10. join'.spill => ProbeInv'
  BY Zenon, <1>1, <1>6, ProbeFrame DEF RoundInv
<1> QED
  BY Zenon, <1>7, <1>8, <1>9, <1>10 DEF RoundInv

-----------------------------------------------------------------------------
(* When the last builder merges the tables the round is over for all: no   *)
(* result is there, no shard is left, and no prober is in a round.         *)
LEMMA AtMerge ==
    ASSUME RoundInv, NEW b \in Builders, build[b].state = "merge"
    PROVE  /\ result = None /\ shards = <<>> /\ Awake = {}
           /\ \A c \in Builders : Building(c)
           /\ \A c \in Builders \ {b} : build[c].state = "waitForBuild"
<1>1. BarrierInv /\ buildPeers = Builders \ {b}
  BY Zenon DEF RoundInv, BuildInv, BarrierInv
<1>2. \A c \in Builders \ {b} : c \in buildPeers /\ build[c].state = "waitForBuild"
  BY Zenon, <1>1 DEF BarrierInv
<1>3. \A c \in Builders : Building(c) /\ ~BuildAwake(c)
  BY Zenon, <1>2 DEF Building, BuildAwake
<1>4. result = None
  BY Zenon, <1>3 DEF RoundInv, BuildInv, BuildOK
<1>5. Awake = {}
  BY Zenon, <1>3 DEF Awake
<1>6. shards = <<>>
  <2>1. shards \in Seq(SUBSET Row)
    BY Zenon DEF RoundInv, Types
  <2>2. restoring # None => Len(shards) = 0
    BY Zenon, <1>5, FS_EmptySet DEF RoundInv, BridgeInv, RestoreInv
  <2>3. Len(shards) = 0 => shards = <<>>
    BY <2>1
  <2> QED
    BY Zenon, <2>2, <2>3 DEF RoundInv, BridgeInv, RestoreInv
<1> QED
  BY Zenon, <1>2, <1>3, <1>4, <1>5, <1>6

(* The rows that were spilled in the round of the last builder.            *)
LEMMA SpilledAtMerge ==
    ASSUME RoundInv, NEW b \in Builders, build[b].state = "merge"
    PROVE  /\ AllSpilled \subseteq Row
           /\ UNION {build[c].table : c \in Builders} \subseteq Row
           /\ build[b].level = LevelOf(restoring) /\ build[b].level \in Nat \ {0}
           /\ AllSpilled # {} => /\ join.spill
                                 /\ build[b].level \in 1..MaxLevel
                                 /\ UNION {build[c].table : c \in Builders} = {}
<1>1. \A c \in Builders : Building(c) /\ BuildOK(c) /\ build[c] \in BuildTypes
  BY Zenon, AtMerge DEF RoundInv, BuildInv, Types
<1>2. \A c \in Builders : build[c].disk \subseteq Row /\ build[c].table \subseteq Row
  BY Zenon, <1>1 DEF BuildTypes
<1>3. \A c \in Builders : build[c].level = LevelOf(restoring)
  BY Zenon, <1>1 DEF BuildOK
<1>4. build[b].level \in Nat \ {0}
  BY Zenon, <1>1 DEF BuildTypes
<1>5. ASSUME AllSpilled # {}
      PROVE  /\ join.spill /\ build[b].level <= MaxLevel
             /\ UNION {build[c].table : c \in Builders} = {}
  <2>1. PICK c \in Builders : build[c].disk # {}
    BY Zenon, <1>5 DEF AllSpilled
  <2>2. build[c].spilled
    BY Zenon, <1>1, <2>1 DEF BuildOK
  <2>3. join.spill /\ build[c].level <= MaxLevel
    BY Zenon, <1>1, <2>2 DEF BuildOK
  <2>4. \A d \in Builders : build[d].spilled
    BY Zenon, <1>1, <2>2 DEF RoundInv, BuildInv, Together
  <2>5. \A d \in Builders : build[d].table = {}
    BY Zenon, <1>1, <2>4 DEF BuildOK
  <2>6. build[b].level = build[c].level
    BY Zenon, <1>3
  <2> QED
    BY Zenon, <2>3, <2>5, <2>6
<1>6. build[b].level <= MaxLevel => build[b].level \in 1..MaxLevel
  BY <1>4, HashJoinAssumption
<1> QED
  BY Zenon, <1>2, <1>3, <1>4, <1>5, <1>6 DEF AllSpilled

(* The partitions a round spills are new: they are deeper than the one     *)
(* restored, which none of the others is.                                  *)
LEMMA NewPartitions ==
    ASSUME RoundInv, NEW b \in Builders, build[b].state = "merge"
    PROVE  LET new == Partitions(AllSpilled, build[b].level) IN
           /\ DOMAIN new \subseteq Ids /\ \A i \in DOMAIN new : new[i] \subseteq Row
           /\ DOMAIN new \cap DOMAIN parts = {}
           /\ restoring \notin DOMAIN new
           /\ \A i \in DOMAIN parts : i[1] # LevelOf(restoring)
           /\ AllSpilled = {} => DOMAIN new = {}
<1> DEFINE new == Partitions(AllSpilled, build[b].level)
<1>1. /\ DOMAIN new \subseteq Ids /\ \A i \in DOMAIN new : new[i] \subseteq Row
      /\ \A i \in DOMAIN new : i[1] = build[b].level
      /\ AllSpilled = {} => DOMAIN new = {}
  <2>1. AllSpilled \in SUBSET Row /\ (AllSpilled # {} => build[b].level \in 1..MaxLevel)
    BY Zenon, SpilledAtMerge
  <2> QED
    BY Zenon, <2>1, PartitionsType
<1>2. build[b].level = LevelOf(restoring)
  BY Zenon, SpilledAtMerge
<1> HIDE DEF new
<1>3. \A i \in DOMAIN parts : i[1] # LevelOf(restoring)
  <2>1. CASE restoring = None
    <3>1. DOMAIN parts = {}
      BY Zenon, <2>1, AtMerge DEF RoundInv, BridgeInv, RestoreInv
    <3> QED
      BY Zenon, <3>1
  <2>2. CASE restoring # None
    <3> SUFFICES ASSUME NEW i \in DOMAIN parts PROVE i[1] # LevelOf(restoring)
      BY Zenon
    <3>1. i[1] <= restoring[1] /\ i \in Ids /\ restoring \in Ids
      BY Zenon, <2>2 DEF RoundInv, BridgeInv, RestoreInv, Types, PartsTypes
    <3>2. i[1] \in Nat /\ restoring[1] \in Nat
      BY <3>1, NoneIsNone
    <3> QED
      BY <2>2, <3>1, <3>2 DEF LevelOf
  <2> QED
    BY Zenon, <2>1, <2>2
<1>4. restoring \notin DOMAIN new
  <2>1. restoring \in Ids \cup {None}
    BY Zenon DEF RoundInv, Types
  <2>2. restoring # None => LevelOf(restoring) # restoring[1]
    BY Zenon, <2>1, LevelType
  <2>3. restoring = None => restoring \notin Ids
    BY Zenon, NoneIsNone
  <2> QED
    BY Zenon, <1>1, <1>2, <2>2, <2>3
<1> QED
  BY Zenon, <1>1, <1>2, <1>3, <1>4 DEF new

(* The peers go on from the barrier, and what is known of the builders is  *)
(* about the next round.                                                   *)
LEMMA MergedBuilders ==
    ASSUME NEW b \in Builders, buildPeers' = {}, restoring' = None, join' = join,
           build'[b].state = "post",
           \A c \in Builders \ {b} : build'[c].state = "waitForBuild",
           \A c \in Builders : build'[c].spiller => join.spill /\ build'[c].level <= MaxLevel
    PROVE  BuildInv' /\ \A c \in Builders : ~Building(c)'
<1>1. \A c \in Builders : ~Building(c)' /\ build'[c].state # "merge"
  BY Zenon DEF Building
<1>2. BarrierInv'
  BY Zenon, <1>1 DEF BarrierInv
<1>3. \A c \in Builders : BuildOK(c)'
  BY Zenon, <1>1 DEF BuildOK
<1>4. Together'
  BY Zenon, <1>1 DEF Together
<1> QED
  BY Zenon, <1>1, <1>2, <1>3, <1>4 DEF BuildInv

(* The probers wait for a table, and have the partitions to come.          *)
LEMMA MergedProbers ==
    ASSUME RoundInv, join.spill, NEW b \in Builders, build[b].state = "merge",
           UNCHANGED <<probe, probePeers, arrived>>, result' # None,
           restoring' = None, Expecting' = Expecting,
           \A c \in Builders : ~Building(c)'
    PROVE  ProbeInv'
<1>1. ProbeInv /\ result = None /\ \A c \in Builders : Building(c)
  BY Zenon, AtMerge DEF RoundInv
<1>2. PeersInv'
  BY Zenon, <1>1 DEF ProbeInv, PeersInv, Ending
<1>3. ASSUME NEW p \in Probers PROVE ProbeFlags(p)' /\ ProbeOK(p)'
  <2>1. ProbeFlags(p) /\ ProbeOK(p)
    BY Zenon, <1>1 DEF ProbeInv
  <2>2. ProbeFlags(p)'
    BY Zenon, <2>1 DEF ProbeFlags
  <2>3. ~InRound(p) /\ ~InRound(p)' /\ (Behind(p)' <=> Behind(p)) /\ Owed(p)' = Owed(p)
    BY Zenon, <1>1, <2>1 DEF ProbeOK, InRound, Behind, Owed
  <2>4. Behind(p) => Owed(p) = Expecting /\ probe[p].table # "current"
    <3>1. PICK c \in Builders : Building(c)
      BY Zenon, <1>1
    <3> QED
      BY Zenon, <2>1, <3>1 DEF ProbeOK
  <2>5. probe[p].state \in {"table", "waitForBuild"} => Owed(p) = Expecting
    BY Zenon, <2>1 DEF ProbeOK
  <2>6. ProbeOK(p)'
    BY Zenon, <2>3, <2>4, <2>5 DEF ProbeOK
  <2> QED
    BY Zenon, <2>2, <2>6
<1> QED
  BY Zenon, <1>2, <1>3 DEF ProbeInv

(* setAntiJoinHasNullKeys: in the first round only, and the last.          *)
LEMMA MergeNullRound ==
    ASSUME RoundInv, NEW b \in Builders, MergeTables(b), HasNullKeys,
           SetAntiJoinHasNullKeys, build' = [build EXCEPT ![b].state = "post"]
    PROVE  RoundInv'
<1>1. /\ build[b].state = "merge" /\ buildPeers' = {}
      /\ UNCHANGED <<join, cancelled, probe, probePeers, arrived>>
  BY Zenon DEF MergeTables, taskVars
<1>2. /\ result' = [null |-> TRUE, restored |-> None, ids |-> {}]
      /\ restoring' = None /\ parts' = <<>>
      /\ UNCHANGED <<table, shards, probeStarted, spillFunc>>
  BY Zenon DEF SetAntiJoinHasNullKeys
<1>3. /\ result = None /\ shards = <<>> /\ \A c \in Builders : Building(c)
      /\ \A c \in Builders \ {b} : build[c].state = "waitForBuild"
  BY Zenon, <1>1, AtMerge
<1>4. restoring = None
  BY Zenon, <1>3 DEF HasNullKeys, RoundInv, BuildInv, BuildOK
<1>5. table = {} /\ DOMAIN parts = {}
  BY Zenon, <1>3, <1>4 DEF RoundInv, BuildInv, BuildOK
<1>6. DOMAIN parts' = {}
  BY <1>2
<1>7. /\ result' \in Results /\ result' # None
      /\ result'.null /\ result'.restored = None /\ result'.ids = {}
  <2>1. result' \in Results
    BY <1>2 DEF Results
  <2> QED
    BY Zenon, <1>2, <2>1, NoneIsNone
<1>8. /\ build' \in [Builders -> BuildTypes] /\ build'[b].state = "post"
      /\ \A c \in Builders \ {b} : build'[c].state = "waitForBuild"
      /\ \A c \in Builders : SameFields(c)
  <2>1. build \in [Builders -> BuildTypes] /\ "post" \in BuildStates
    BY Zenon DEF RoundInv, Types, BuildStates
  <2> QED
    BY Zenon, <1>3, <2>1, StateChange
<1>9. Types'
  BY Zenon, <1>1, <1>2, <1>6, <1>7, <1>8 DEF RoundInv, Types, PartsTypes
<1>10. BuildInv' /\ \A c \in Builders : ~Building(c)'
  <2>1. \A c \in Builders : build'[c].spiller => join.spill /\ build'[c].level <= MaxLevel
    BY Zenon, <1>8 DEF RoundInv, BuildInv, BuildOK, SameFields
  <2> QED
    BY Zenon, <1>1, <1>2, <1>8, <2>1, MergedBuilders
<1>11. BridgeInv'
  <2>1. RestoreInv'
    BY Zenon, <1>2, <1>3, <1>7 DEF RestoreInv
  <2>2. LevelOf(None) <= MaxLevel
    BY HashJoinAssumption DEF LevelOf
  <2>3. \A c \in Builders : build'[c].state # "finish"
    BY Zenon, <1>8
  <2>4. ResultInv'
    BY Zenon, <1>2, <1>5, <1>6, <1>7, <2>2, <2>3 DEF ResultInv
  <2>5. PlainInv' /\ (probeStarted' => ~spillFunc')
    BY Zenon, <1>1, <1>2, <1>6, <1>7 DEF RoundInv, BridgeInv, PlainInv
  <2> QED
    BY Zenon, <2>1, <2>4, <2>5 DEF BridgeInv
<1>12. join'.spill => ProbeInv'
  <2>1. Expecting' = Expecting
    BY Zenon, <1>3, <1>4, <1>5, <1>6, <1>7 DEF Expecting
  <2> QED
    BY Zenon, <1>1, <1>2, <1>7, <1>10, <2>1, MergedProbers
<1> QED
  BY Zenon, <1>9, <1>10, <1>11, <1>12 DEF RoundInv

-----------------------------------------------------------------------------
(* Merge of partition sets.                                                *)
LEMMA MergeDomain ==
    ASSUME NEW f, NEW g
    PROVE  /\ DOMAIN Merge(f, g) = DOMAIN f \cup DOMAIN g
           /\ \A i \in DOMAIN Merge(f, g) :
                 Merge(f, g)[i] = IF i \in DOMAIN g THEN g[i] ELSE f[i]
  BY Zenon DEF Merge

(* appendSpilledHashTablePartitionsLocked                                  *)
LEMMA MergeParts ==
    ASSUME PartsTypes, NEW new, DOMAIN new \subseteq Ids,
           \A i \in DOMAIN new : new[i] \subseteq Row, parts' = Merge(parts, new)
    PROVE  PartsTypes' /\ DOMAIN parts' = DOMAIN parts \cup DOMAIN new
<1>1. /\ DOMAIN parts' = DOMAIN parts \cup DOMAIN new
      /\ \A i \in DOMAIN parts' : parts'[i] = IF i \in DOMAIN new THEN new[i] ELSE parts[i]
  BY Zenon DEF Merge
<1>2. \A i \in DOMAIN parts' : parts'[i] \subseteq Row
  BY Zenon, <1>1 DEF PartsTypes
<1> QED
  BY Zenon, <1>1, <1>2 DEF PartsTypes

(* exceedSpillLevelLimit                                                   *)
LEMMA NotExceeded == \A level \in Nat : ~Exceeded(level) <=> level <= MaxLevel
  BY HashJoinAssumption DEF Exceeded

(* setHashTable: the table, and the partitions that the round spilled.     *)
LEMMA MergeTableRound ==
    ASSUME RoundInv, NEW b \in Builders, MergeTables(b),
           SetHashTable(UNION {build[c].table : c \in Builders}, AllSpilled,
                build[b].level, join.spill /\ ~Exceeded(build[b].level)),
           build' = [c \in Builders |->
                [build[c] EXCEPT !.table = {}, !.disk = {}, !.spiller = FALSE,
                    !.state = IF c = b THEN "post" ELSE build[c].state]]
    PROVE  RoundInv'
<1> DEFINE new == Partitions(AllSpilled, build[b].level)
           rows == UNION {build[c].table : c \in Builders}
<1>1. /\ build[b].state = "merge" /\ buildPeers' = {}
      /\ UNCHANGED <<join, cancelled, probe, probePeers, arrived>>
  BY Zenon DEF MergeTables, taskVars
<1>2. /\ table' = rows /\ parts' = Merge(parts, new)
      /\ result' = [null |-> FALSE, restored |-> restoring, ids |-> DOMAIN new]
      /\ spillFunc' = IF probeStarted THEN spillFunc ELSE join.spill /\ ~Exceeded(build[b].level)
      /\ restoring' = None
      /\ UNCHANGED <<shards, probeStarted>>
  BY Zenon DEF SetHashTable
<1>3. /\ result = None /\ shards = <<>>
      /\ \A c \in Builders \ {b} : build[c].state = "waitForBuild"
  BY Zenon, <1>1, AtMerge
<1>4. /\ DOMAIN new \subseteq Ids /\ \A i \in DOMAIN new : new[i] \subseteq Row
      /\ DOMAIN new \cap DOMAIN parts = {}
      /\ restoring \notin DOMAIN new
      /\ \A i \in DOMAIN parts : i[1] # LevelOf(restoring)
      /\ AllSpilled = {} => DOMAIN new = {}
  BY Zenon, <1>1, NewPartitions
<1>5. /\ rows \subseteq Row
      /\ build[b].level = LevelOf(restoring)
      /\ AllSpilled # {} => join.spill /\ rows = {}
  BY Zenon, <1>1, SpilledAtMerge
<1> HIDE DEF new, rows
<1>6. PartsTypes' /\ DOMAIN parts' = DOMAIN parts \cup DOMAIN new
  BY Zenon, <1>2, <1>4, MergeParts DEF RoundInv, Types
<1>7. /\ result' \in Results /\ result' # None
      /\ ~result'.null /\ result'.restored = restoring /\ result'.ids = DOMAIN new
  <2>1. restoring \in Ids \cup {None} /\ DOMAIN new \in SUBSET Ids
    BY Zenon, <1>4 DEF RoundInv, Types
  <2>2. result' \in Results
    BY Zenon, <1>2, <2>1 DEF Results
  <2> QED
    BY Zenon, <1>2, <2>2, NoneIsNone
<1>8. ASSUME NEW c \in Builders
      PROVE  /\ build'[c] \in BuildTypes /\ ~build'[c].spiller
             /\ c = b => build'[c].state = "post"
             /\ c # b => build'[c].state = "waitForBuild"
  <2>1. build[c] \in BuildTypes
    BY Zenon DEF RoundInv, Types
  <2>2. PICK s \in BuildStates : s = IF c = b THEN "post" ELSE "waitForBuild"
    BY Zenon DEF BuildStates
  <2>3. build'[c] = [build[c] EXCEPT !.table = {}, !.disk = {}, !.spiller = FALSE, !.state = s]
    BY Zenon, <1>3, <2>2
  <2> QED
    BY Zenon, <2>1, <2>2, <2>3 DEF BuildTypes, BuildStates
<1>9. build' \in [Builders -> BuildTypes]
  BY Zenon, <1>8
<1>10. Types'
  BY Zenon, <1>1, <1>2, <1>5, <1>6, <1>7, <1>9 DEF RoundInv, Types
<1>11. BuildInv' /\ \A c \in Builders : ~Building(c)'
  BY Zenon, <1>1, <1>2, <1>8, MergedBuilders
<1>12. BridgeInv'
  <2>1. RestoreInv'
    BY Zenon, <1>2, <1>3, <1>7 DEF RestoreInv
  <2>2. restoring \notin DOMAIN parts
    BY Zenon, NoneIsNone DEF RoundInv, BridgeInv, RestoreInv, Types, PartsTypes
  <2>3. spillFunc' => join.spill /\ build[b].level <= MaxLevel
    <3>1. spillFunc' => join.spill /\ ~Exceeded(build[b].level)
      BY Zenon, <1>2 DEF RoundInv, BridgeInv
    <3>2. build[b].level \in Nat
      BY Zenon, <1>1, SpilledAtMerge
    <3>3. ~Exceeded(build[b].level) => build[b].level <= MaxLevel
      BY Zenon, <3>2, NotExceeded
    <3> QED
      BY Zenon, <3>1, <3>3
  <2>4. \A i \in DOMAIN parts' \ result'.ids : i[1] # LevelOf(restoring)
    BY Zenon, <1>4, <1>6, <1>7
  <2>5. table' # {} => result'.ids = {}
    BY Zenon, <1>2, <1>4, <1>5, <1>7
  <2>6. \A c \in Builders : ~build'[c].spiller /\ build'[c].state # "finish"
    BY Zenon, <1>8
  <2>7. result'.ids \subseteq DOMAIN parts' /\ result'.restored \notin DOMAIN parts'
    BY Zenon, <1>4, <1>6, <1>7, <2>2
  <2>8. ResultInv'
    BY Zenon, <1>5, <1>7, <2>3, <2>4, <2>5, <2>6, <2>7 DEF ResultInv
  <2>9. PlainInv'
    <3> SUFFICES ASSUME ~join.spill
                 PROVE  DOMAIN parts' = {} /\ ~spillFunc' /\ result'.restored = None
      BY Zenon, <1>1 DEF PlainInv
    <3>1. DOMAIN parts = {} /\ restoring = None
      BY Zenon DEF RoundInv, BridgeInv, PlainInv, RestoreInv
    <3>2. DOMAIN new = {}
      BY Zenon, <1>4, <1>5
    <3> QED
      BY Zenon, <1>6, <1>7, <2>3, <3>1, <3>2
  <2>10. probeStarted' => ~spillFunc'
    BY Zenon, <1>2 DEF RoundInv, BridgeInv
  <2> QED
    BY Zenon, <2>1, <2>8, <2>9, <2>10 DEF BridgeInv
<1>13. join'.spill => ProbeInv'
  <2>1. Expecting' = Expecting
    <3>1. (DOMAIN parts \cup DOMAIN new) \ DOMAIN new = DOMAIN parts
      BY Zenon, <1>4
    <3> QED
      BY Zenon, <1>3, <1>6, <1>7, <3>1 DEF Expecting
  <2> QED
    BY Zenon, <1>1, <1>2, <1>7, <1>11, <2>1, MergedProbers
<1> QED
  BY Zenon, <1>10, <1>11, <1>12, <1>13 DEF RoundInv

(* The last builder of a round, with null keys or a table.                 *)
LEMMA MergeTablesRound ==
    ASSUME RoundInv, NEW b \in Builders, MergeTables(b)
    PROVE  RoundInv'
<1>1. \A c \in Builders : ~Closed(c)
  <2>1. \A c \in Builders : build[c] \in BuildTypes
    BY Zenon DEF RoundInv, Types
  <2> QED
    BY Zenon, <2>1 DEF Closed, BuildTypes
<1>2. \/ /\ HasNullKeys /\ SetAntiJoinHasNullKeys
         /\ build' = [build EXCEPT ![b].state = "post"]
      \/ /\ SetHashTable(UNION {build[c].table : c \in Builders}, AllSpilled,
                build[b].level, join.spill /\ ~Exceeded(build[b].level))
         /\ build' = [c \in Builders |->
                [build[c] EXCEPT !.table = {}, !.disk = {}, !.spiller = FALSE,
                    !.state = IF c = b THEN "post" ELSE build[c].state]]
  BY Zenon, <1>1 DEF MergeTables
<1> QED
  BY Zenon, <1>2, MergeNullRound, MergeTableRound

-----------------------------------------------------------------------------
(* postHashBuildProcess of a builder that does not get a shard.            *)
LEMMA PostWaitRound ==
    ASSUME RoundInv, NEW b \in Builders, BuildAwake(b), restoring = None,
           NEW s \in {"finish", "waitForProbe"},
           s = "finish" => ~join.spill \/ result = None,
           build' = [build EXCEPT ![b].state = s],
           UNCHANGED <<join, cancelled, bridgeVars, buildPeers, probe, probePeers,
                       arrived, table>>
    PROVE  RoundInv'
<1>1. UNCHANGED <<result, restoring, shards, parts, probeStarted, spillFunc>>
  BY Zenon DEF bridgeVars
<1>2. /\ build' \in [Builders -> BuildTypes] /\ build'[b].state = s
      /\ \A c \in Builders \ {b} : build'[c] = build[c]
      /\ \A c \in Builders : SameFields(c)
  <2>1. build \in [Builders -> BuildTypes] /\ s \in BuildStates
    BY Zenon DEF RoundInv, Types, BuildStates
  <2> QED
    BY Zenon, <2>1, StateChange
<1>3. ~Building(b) /\ ~Building(b)' /\ b \notin buildPeers
  BY Zenon, <1>2 DEF BuildAwake, Building, RoundInv, BuildInv, BarrierInv
<1>4. \A c \in Builders : Building(c)' <=> Building(c)
  BY Zenon, <1>2, <1>3 DEF Building
<1>5. Types'
  BY Zenon, <1>1, <1>2 DEF RoundInv, Types, PartsTypes
<1>6. BuildInv'
  <2>1. BarrierInv'
    BY Zenon, <1>2, <1>3 DEF RoundInv, BuildInv, BarrierInv
  <2>2. \A c \in Builders : BuildOK(c)'
    <3> SUFFICES ASSUME NEW c \in Builders PROVE BuildOK(c)'
      BY Zenon
    <3>1. BuildOK(c) /\ SameFields(c)
      BY Zenon, <1>2 DEF RoundInv, BuildInv
    <3> QED
      BY Zenon, <1>1, <1>4, <3>1, SameFieldsOK
  <2>3. Together'
    <3>1. \A c \in Builders : build'[c].spilled = build[c].spilled
      BY Zenon, <1>2 DEF SameFields
    <3> QED
      BY Zenon, <1>1, <1>4, <3>1 DEF RoundInv, BuildInv, Together
  <2> QED
    BY Zenon, <2>1, <2>2, <2>3 DEF BuildInv
<1>7. BridgeInv'
  <2>1. BridgeInv /\ (probeStarted => ~spillFunc)
    BY Zenon DEF RoundInv, BridgeInv
  <2>2. \A c \in Builders : /\ build'[c].spiller => build[c].spiller
                            /\ build'[c].state = "finish" /\ join.spill /\ result # None
                                  => build[c].state = "finish"
    BY Zenon, <1>2 DEF SameFields
  <2> QED
    BY Zenon, <1>1, <2>1, <2>2, BridgeFrame
<1>8. join'.spill => ProbeInv'
  BY Zenon, <1>1, <1>4, ProbeFrame DEF RoundInv
<1> QED
  BY Zenon, <1>5, <1>6, <1>7, <1>8 DEF RoundInv

-----------------------------------------------------------------------------
(* A table and a spiller for the shard of a builder.                       *)
LEMMA NewBuildType ==
    ASSUME NEW level \in Nat \ {0}, NEW input \in Seq(AnyRow),
           NEW new, new = NewBuild(level, input)
    PROVE  /\ new \in BuildTypes /\ new.state = "running" /\ new.input = input
           /\ new.level = level /\ new.disk = {} /\ ~new.spilled /\ ~new.null
           /\ new.spiller => join.spill /\ level <= MaxLevel
<1>1. PICK s \in BOOLEAN : s = (join.spill /\ ~Exceeded(level))
  BY Zenon
<1>2. new =
        [state |-> "running", input |-> input, level |-> level, table |-> {},
         disk |-> {}, spilled |-> FALSE, null |-> FALSE, spiller |-> s]
  BY Zenon, <1>1 DEF NewBuild
<1>3. s => join.spill /\ level <= MaxLevel
  BY Zenon, <1>1, NotExceeded
<1>4. new \in BuildTypes
  BY <1>2 DEF BuildTypes
<1>5. /\ new.state = "running" /\ new.input = input /\ new.level = level
      /\ new.disk = {} /\ new.spilled = FALSE /\ new.null = FALSE /\ new.spiller = s
  BY <1>2
<1> QED
  BY Zenon, <1>3, <1>4, <1>5

(* A sequence over a subset.                                               *)
LEMMA SubsetSeq ==
    ASSUME NEW S, NEW T, S \subseteq T, NEW s \in Seq(S)
    PROVE  s \in Seq(T)
  OBVIOUS

(* The last of the shards, and the others.                                 *)
LEMMA LastShard ==
    ASSUME NEW S, NEW s \in Seq(S), Len(s) # 0, NEW front, front = SubSeq(s, 1, Len(s) - 1)
    PROVE  s[Len(s)] \in S /\ front \in Seq(S) /\ Len(front) = Len(s) - 1
<1>1. Len(s) \in Nat /\ Len(s) - 1 \in Nat /\ s \in [1..Len(s) -> S]
  OBVIOUS
<1>2. s[Len(s)] \in S
  BY <1>1
<1>3. \A i \in 1..(Len(s) - 1) : s[i] \in S
  BY <1>1
<1>4. front \in Seq(S) /\ Len(front) = Len(s) - 1
  BY <1>1, <1>3
<1> QED
  BY Zenon, <1>2, <1>4

(* setupSpillInput: an awake builder takes a shard of the partition that   *)
(* is restored; there is one for each of them.                             *)
LEMMA PostRestoreRound ==
    ASSUME RoundInv, NEW b \in Builders, BuildAwake(b), join.spill, result = None,
           restoring # None,
           build' = [build EXCEPT ![b] =
                        NewBuild(restoring[1] + 1, Files(shards[Len(shards)]))],
           shards' = SubSeq(shards, 1, Len(shards) - 1),
           UNCHANGED <<join, cancelled, result, restoring, parts, waiters, probeStarted,
                spillFunc, buildPeers, probe, probePeers, arrived, table>>
    PROVE  RoundInv'
<1> DEFINE new == NewBuild(restoring[1] + 1, Files(shards[Len(shards)]))
<1>1. /\ shards \in Seq(SUBSET Row) /\ restoring \in Ids /\ join \in Joins
      /\ build \in [Builders -> BuildTypes]
      /\ Len(shards) = Cardinality(Awake)
  BY Zenon DEF RoundInv, Types, BridgeInv, RestoreInv
<1>2. IsFiniteSet(Awake) /\ b \in Awake
  <2>1. IsFiniteSet(Builders) /\ Awake \subseteq Builders
    BY Zenon, HashJoinAssumption DEF Awake
  <2> QED
    BY Zenon, <2>1, FS_Subset DEF Awake
<1>3. /\ Cardinality(Awake) \in Nat /\ Cardinality(Awake) # 0
      /\ Cardinality(Awake \ {b}) = Cardinality(Awake) - 1
  <2>1. Cardinality(Awake) \in Nat
    BY Zenon, <1>2, FS_CardinalityType
  <2>2. Cardinality(Awake \ {b}) = Cardinality(Awake) - 1
    BY Zenon, <1>2, FS_RemoveElement
  <2>3. Cardinality(Awake) = 0 => Awake = {}
    BY Zenon, <1>2, FS_EmptySet
  <2> QED
    BY Zenon, <1>2, <2>1, <2>2, <2>3
<1>4. /\ shards[Len(shards)] \in SUBSET Row /\ shards' \in Seq(SUBSET Row)
      /\ Len(shards') = Len(shards) - 1
  BY Zenon, <1>1, <1>3, LastShard
<1>5. Files(shards[Len(shards)]) \in Seq(Row)
  <2>1. IsFiniteSet(shards[Len(shards)]) /\ shards[Len(shards)] \subseteq Row
    BY Zenon, <1>4, RowsFinite, FS_Subset
  <2>2. Files(shards[Len(shards)]) \in Seq(shards[Len(shards)])
    BY Zenon, <2>1, FilesType
  <2> QED
    BY Zenon, <2>1, <2>2, SubsetSeq
<1>6. LevelOf(restoring) = restoring[1] + 1 /\ LevelOf(restoring) \in Nat \ {0}
  BY Zenon, <1>1, LevelType DEF LevelOf
<1>7. /\ new \in BuildTypes /\ new.state = "running"
      /\ new.input \in Seq(Row)
      /\ new.level = LevelOf(restoring) /\ new.disk = {} /\ ~new.spilled /\ ~new.null
      /\ new.spiller => join.spill /\ LevelOf(restoring) <= MaxLevel
  <2>0. Row \subseteq AnyRow
    BY DEF Row, AnyRow
  <2>1. PICK level \in Nat \ {0}, input \in Seq(AnyRow) :
            level = LevelOf(restoring) /\ input = Files(shards[Len(shards)])
    BY Zenon, <1>5, <1>6, <2>0, SubsetSeq
  <2>2. new = NewBuild(level, input)
    BY Zenon, <1>6, <2>1
  <2> HIDE DEF new
  <2>3. /\ new \in BuildTypes /\ new.state = "running" /\ new.input = input
        /\ new.level = level /\ new.disk = {} /\ ~new.spilled /\ ~new.null
        /\ new.spiller => join.spill /\ level <= MaxLevel
    BY <2>2, NewBuildType
  <2> QED
    BY Zenon, <1>5, <2>1, <2>3
<1> HIDE DEF new
<1>8. /\ build' \in [Builders -> BuildTypes] /\ build'[b] = new
      /\ \A c \in Builders \ {b} : build'[c] = build[c]
  BY Zenon, <1>1, <1>7 DEF new
<1>9. b \notin buildPeers /\ ~Building(b) /\ Building(b)' /\ ~BuildAwake(b)'
  BY Zenon, <1>7, <1>8 DEF BuildAwake, Building, RoundInv, BuildInv, BarrierInv
<1>10. \A c \in Builders \ {b} :
          (Building(c)' <=> Building(c)) /\ (BuildAwake(c)' <=> BuildAwake(c))
  BY Zenon, <1>8 DEF Building, BuildAwake
<1>11. Types'
  BY Zenon, <1>4, <1>8 DEF RoundInv, Types, PartsTypes
<1>12. BuildInv'
  <2>1. \A c \in Builders : build[c].state # "merge"
    BY Zenon, <1>9 DEF RoundInv, BuildInv, BarrierInv, BuildAwake
  <2>2. BarrierInv'
    <3>1. \A c \in buildPeers : c \in Builders /\ c # b /\ build[c].state = "waitForBuild"
      BY Zenon, <1>9 DEF RoundInv, BuildInv, BarrierInv
    <3>2. \A c \in Builders : build'[c].state # "merge"
      BY Zenon, <1>7, <1>8, <2>1
    <3> QED
      BY Zenon, <1>8, <3>1, <3>2 DEF BarrierInv
  <2>3. ASSUME NEW c \in Builders \ {b} PROVE BuildOK(c)'
    <3>1. BuildOK(c) /\ build'[c] = build[c]
      BY Zenon, <1>8 DEF RoundInv, BuildInv
    <3>2. (Building(c)' <=> Building(c)) /\ (BuildAwake(c)' <=> BuildAwake(c))
      BY Zenon, <1>10
    <3> QED
      BY Zenon, <3>1, <3>2 DEF BuildOK
  <2>4. BuildOK(b)'
    BY Zenon, <1>7, <1>8, <1>9 DEF BuildOK
  <2>5. Together'
    <3> SUFFICES ASSUME NEW c \in Builders, Building(c)', build'[c].spilled
                 PROVE  FALSE
      BY Zenon DEF Together
    <3>1. c # b
      BY Zenon, <1>7, <1>8
    <3>2. Building(c) /\ build[c].spilled
      BY Zenon, <1>8, <1>10, <3>1
    <3> QED
      BY Zenon, <1>9, <3>2 DEF RoundInv, BuildInv, Together
  <2> QED
    BY Zenon, <2>2, <2>3, <2>4, <2>5 DEF BuildInv
<1>13. BridgeInv'
  <2>1. Awake' = Awake \ {b}
    BY Zenon, <1>9, <1>10 DEF Awake
  <2>2. Len(shards') = Cardinality(Awake')
    BY Zenon, <1>1, <1>3, <1>4, <2>1
  <2>3. RestoreInv'
    BY Zenon, <2>2 DEF RoundInv, BridgeInv, RestoreInv
  <2> QED
    BY Zenon, <2>3 DEF RoundInv, BridgeInv, ResultInv, PlainInv
<1>14. join'.spill => ProbeInv'
  BY Zenon, ProbeFrame DEF RoundInv
<1> QED
  BY Zenon, <1>11, <1>12, <1>13, <1>14 DEF RoundInv

(* postHashBuildProcess                                                    *)
LEMMA PostHashBuildProcessRound ==
    ASSUME RoundInv, NEW b \in Builders, PostHashBuildProcess(b)
    PROVE  RoundInv'
<1>1. /\ BuildAwake(b) /\ ~cancelled
      /\ UNCHANGED <<join, cancelled, result, restoring, parts, probeStarted,
                spillFunc, buildPeers, probe, probePeers, arrived, table>>
  BY Zenon DEF PostHashBuildProcess, taskVars, RoundInv, Types
<1>2. /\ restoring # None => join.spill /\ result = None
  BY Zenon DEF RoundInv, BridgeInv, RestoreInv
<1>3. CASE ~join.spill
  <2>1. build' = [build EXCEPT ![b].state = "finish"] /\ UNCHANGED bridgeVars
    BY Zenon, <1>1, <1>3 DEF PostHashBuildProcess, bridgeVars
  <2> QED
    BY Zenon, <1>1, <1>2, <1>3, <2>1, PostWaitRound
<1>4. CASE join.spill /\ result # None
  <2>1. build' = [build EXCEPT ![b].state = "waitForProbe"] /\ UNCHANGED bridgeVars
    BY Zenon, <1>1, <1>4 DEF PostHashBuildProcess, bridgeVars
  <2> QED
    BY Zenon, <1>1, <1>2, <1>4, <2>1, PostWaitRound
<1>5. CASE join.spill /\ result = None /\ restoring = None
  <2>1. build' = [build EXCEPT ![b].state = "finish"] /\ UNCHANGED bridgeVars
    BY Zenon, <1>1, <1>5 DEF PostHashBuildProcess, bridgeVars
  <2> QED
    BY Zenon, <1>1, <1>5, <2>1, PostWaitRound
<1>6. CASE join.spill /\ result = None /\ restoring # None
  <2>1. /\ build' = [build EXCEPT ![b] =
                        NewBuild(restoring[1] + 1, Files(shards[Len(shards)]))]
        /\ shards' = SubSeq(shards, 1, Len(shards) - 1) /\ UNCHANGED waiters
    BY Zenon, <1>1, <1>6 DEF PostHashBuildProcess
  <2> QED
    BY Zenon, <1>1, <1>6, <2>1, PostRestoreRound
<1> QED
  BY Zenon, <1>3, <1>4, <1>5, <1>6

-----------------------------------------------------------------------------
(* A step of the probers that leaves the bridge to the builders.           *)
LEMMA ProbeSideStep ==
    ASSUME RoundInv, DOMAIN probe' = Probers,
           \A p \in Probers : DOMAIN probe'[p] = ProbeFields,
           UNCHANGED <<join, cancelled, build, buildPeers, result, restoring, shards, parts>>,
           \A b \in Builders : b \in waiters' <=> b \in waiters,
           table' \subseteq Row, table = {} => table' = {},
           spillFunc' => spillFunc, probeStarted' => ~spillFunc'
    PROVE  Types' /\ BuildInv' /\ BridgeInv' /\ \A b \in Builders : Building(b)' <=> Building(b)
<1>1. Types'
  BY Zenon DEF RoundInv, Types, PartsTypes
<1>2. Awake' = Awake /\ \A b \in Builders : Building(b)' <=> Building(b)
  BY Zenon, AwakeFrame
<1>3. BuildInv'
  <2>1. \A b \in Builders : Building(b) /\ restoring = None =>
            table' = table /\ DOMAIN parts' = DOMAIN parts
    BY Zenon DEF RoundInv, BuildInv, BuildOK
  <2>2. BuildInv
    BY Zenon DEF RoundInv
  <2> QED
    BY Zenon, <2>1, <2>2, BuildFrame
<1>4. BridgeInv'
  <2>1. BridgeInv
    BY Zenon DEF RoundInv
  <2> QED
    BY Zenon, <1>2, <2>1, BridgeFrame
<1> QED
  BY Zenon, <1>1, <1>2, <1>3, <1>4

(* .. in which only one prober moves.                                      *)
LEMMA OneProberStep ==
    ASSUME RoundInv, NEW p \in Probers, DOMAIN probe' = Probers,
           DOMAIN probe'[p] = ProbeFields,
           \A q \in Probers \ {p} : SameProber(q) /\ (q \in probePeers' <=> q \in probePeers),
           UNCHANGED <<join, cancelled, build, buildPeers, result, restoring, shards, parts>>,
           \A b \in Builders : b \in waiters' <=> b \in waiters,
           table' \subseteq Row, table = {} => table' = {},
           spillFunc' => spillFunc, probeStarted' => ~spillFunc',
           probeStarted => probeStarted',
           join.spill => PeersInv' /\ ProbeFlags(p)' /\ ProbeOK(p)'
    PROVE  RoundInv'
<1>1. \A q \in Probers : DOMAIN probe'[q] = ProbeFields
  BY Zenon DEF RoundInv, Types, SameProber
<1>2. Types' /\ BuildInv' /\ BridgeInv' /\ \A b \in Builders : Building(b)' <=> Building(b)
  BY Zenon, <1>1, ProbeSideStep
<1>3. ASSUME join.spill, NEW q \in Probers \ {p} PROVE ProbeFlags(q)' /\ ProbeOK(q)'
  <2>1. ProbeFlags(q) /\ ProbeOK(q) /\ SameProber(q) /\ (q \in probePeers' <=> q \in probePeers)
    BY Zenon, <1>3 DEF RoundInv, ProbeInv
  <2> QED
    BY Zenon, <1>2, <2>1, ProbeOKFrame
<1>4. join.spill => ProbeInv'
  BY Zenon, <1>3 DEF ProbeInv
<1> QED
  BY Zenon, <1>2, <1>4 DEF RoundInv

(* One prober moves.                                                       *)
LEMMA ProberChange ==
    ASSUME DOMAIN probe = Probers, NEW p \in Probers, NEW new,
           probe' = [probe EXCEPT ![p] = new]
    PROVE  /\ DOMAIN probe' = Probers /\ probe'[p] = new
           /\ \A q \in Probers \ {p} : probe'[q] = probe[q] /\ SameProber(q)
<1>1. /\ DOMAIN probe' = Probers /\ probe'[p] = new
      /\ \A q \in Probers \ {p} : probe'[q] = probe[q]
  BY Zenon
<1> QED
  BY Zenon, <1>1 DEF SameProber

(* A step in which nobody comes to the barrier of the probers or leaves it. *)
LEMMA PeersFrame ==
    ASSUME PeersInv, NEW p \in Probers, p \notin probePeers,
           \A q \in Probers \ {p} : SameProber(q),
           UNCHANGED <<probePeers, arrived>>, Ending(p)' <=> Ending(p)
    PROVE  PeersInv'
<1>1. \A q \in Probers : Ending(q)' <=> Ending(q)
  BY Zenon DEF Ending, SameProber
<1>2. \A q \in probePeers' : q \in Probers /\ probe'[q].state = "waitForPeers"
  BY Zenon DEF PeersInv, SameProber
<1>3. \A q \in Probers : Ending(q)' => probePeers' = Probers \ {q} /\ arrived' = {}
  BY Zenon, <1>1 DEF PeersInv
<1>4. (\A q \in Probers : ~Ending(q)') => arrived' = probePeers'
  BY Zenon, <1>1 DEF PeersInv
<1> QED
  BY Zenon, <1>2, <1>3, <1>4 DEF PeersInv

(* The probers in or behind a round, and those that come for a table.      *)
LEMMA ProbeStates ==
    ASSUME RoundInv, join.spill, NEW p \in Probers
    PROVE  /\ PeersInv /\ ProbeFlags(p) /\ ProbeOK(p)
           /\ DOMAIN probe = Probers /\ DOMAIN probe[p] = ProbeFields
           /\ p \in probePeers => probe[p].state = "waitForPeers"
  BY Zenon DEF RoundInv, ProbeInv, Types, PeersInv

-----------------------------------------------------------------------------
(* Steps that move no prober: addInput and getOutput.                      *)
LEMMA SameProbersRound ==
    ASSUME RoundInv, DOMAIN probe' = Probers,
           \A q \in Probers : SameProber(q),
           UNCHANGED <<join, cancelled, build, buildPeers, result, restoring, shards,
               parts, waiters, probeStarted, spillFunc, probePeers, arrived>>,
           table' \subseteq Row, table = {} => table' = {}
    PROVE  RoundInv'
<1>1. \A q \in Probers : DOMAIN probe'[q] = ProbeFields
  BY Zenon DEF RoundInv, Types, SameProber
<1>2. probeStarted => ~spillFunc
  BY Zenon DEF RoundInv, BridgeInv
<1>3. Types' /\ BuildInv' /\ BridgeInv' /\ \A b \in Builders : Building(b)' <=> Building(b)
  BY Zenon, <1>1, <1>2, ProbeSideStep
<1>4. ASSUME join.spill, NEW q \in Probers PROVE ProbeFlags(q)' /\ ProbeOK(q)'
  <2>1. ProbeFlags(q) /\ ProbeOK(q) /\ SameProber(q)
    BY Zenon, <1>4 DEF RoundInv, ProbeInv
  <2> QED
    BY Zenon, <1>3, <2>1, ProbeOKFrame
<1>5. join.spill => PeersInv'
  <2>1. \A q \in Probers : probe'[q].state = probe[q].state /\ (Ending(q)' <=> Ending(q))
    BY Zenon DEF Ending, SameProber
  <2> QED
    BY Zenon, <2>1 DEF RoundInv, ProbeInv, PeersInv
<1>6. join.spill => ProbeInv'
  BY Zenon, <1>4, <1>5 DEF ProbeInv
<1> QED
  BY Zenon, <1>3, <1>6 DEF RoundInv

(* addInput of HashProbe                                                   *)
LEMMA AddProbeInputRound ==
    ASSUME RoundInv, NEW p \in Probers, AddProbeInput(p)
    PROVE  RoundInv'
<1>1. /\ UNCHANGED <<join, cancelled, build, buildPeers, result, restoring, shards,
               parts, waiters, probeStarted, spillFunc, probePeers, arrived, table>>
      /\ DOMAIN probe = Probers /\ table \subseteq Row
      /\ DOMAIN probe[p] = ProbeFields
  BY Zenon DEF AddProbeInput, taskVars, bridgeVars, RoundInv, Types
<1> DEFINE old == probe[p]
           new == AfterProbeInput(old)
<1>2. probe' = [probe EXCEPT ![p] = new]
  BY Zenon DEF AddProbeInput
<1>3. /\ DOMAIN new = DOMAIN old
      /\ new.state = old.state /\ new.last = old.last
      /\ new.noMoreSpillInput = old.noMoreSpillInput
      /\ new.ids = old.ids /\ new.disk = old.disk
      /\ new.table = old.table /\ new.level = old.level
  <2>1. \/ new = [old EXCEPT !.input = Tail(@)]
        \/ new = [old EXCEPT !.input = Tail(@), !.spilled = @ \cup {Head(old.input)}]
        \/ new = [old EXCEPT !.input = Tail(@), !.pending = Head(old.input)]
    BY Zenon DEF AfterProbeInput
  <2>2. DOMAIN old = ProbeFields
    BY Zenon, <1>1
  <2> HIDE DEF new, old
  <2> QED
    BY Zenon, <2>1, <2>2 DEF ProbeFields
<1> HIDE DEF new
<1>4. DOMAIN probe' = Probers /\ probe'[p] = new /\ \A q \in Probers \ {p} : SameProber(q)
  BY Zenon, <1>1, <1>2, ProberChange
<1>5. SameProber(p)
  BY Zenon, <1>3, <1>4 DEF SameProber
<1> QED
  BY Zenon, <1>1, <1>4, <1>5, SameProbersRound

(* The flags of the rows are set, and no row comes or goes.                *)
LEMMA ProbedRows ==
    ASSUME table \subseteq Row, NEW P
    PROVE  Probed(P) \subseteq Row /\ (table = {} => Probed(P) = {})
<1>1. ASSUME NEW r \in table
      PROVE  [r EXCEPT !.probed = @ \/ \E p \in P : probe[p].pending = r.key] \in Row
  <2>1. PICK f \in BOOLEAN : f = (r.probed \/ \E p \in P : probe[p].pending = r.key)
    BY Zenon
  <2>2. r \in Row
    BY Zenon
  <2>3. [r EXCEPT !.probed = f] \in Row
    BY <2>2 DEF Row
  <2> QED
    BY Zenon, <2>1, <2>3
<1> QED
  BY Zenon, <1>1 DEF Probed

(* getOutput of HashProbe, when there is input to probe with               *)
LEMMA GetOutputRound ==
    ASSUME RoundInv, NEW p \in Probers, GetOutput(p)
    PROVE  RoundInv'
<1>1. /\ UNCHANGED <<join, cancelled, build, buildPeers, result, restoring, shards,
               parts, waiters, probeStarted, spillFunc, probePeers, arrived>>
      /\ DOMAIN probe = Probers /\ DOMAIN probe[p] = ProbeFields
      /\ probe' = [probe EXCEPT ![p] = [probe[p] EXCEPT !.pending = None]]
      /\ table' = Probed({p}) /\ table \subseteq Row
  BY Zenon DEF GetOutput, taskVars, bridgeVars, RoundInv, Types
<1> DEFINE new == [probe[p] EXCEPT !.pending = None]
<1>2. /\ DOMAIN new = DOMAIN probe[p]
      /\ new.state = probe[p].state /\ new.last = probe[p].last
      /\ new.noMoreSpillInput = probe[p].noMoreSpillInput
      /\ new.ids = probe[p].ids /\ new.disk = probe[p].disk
      /\ new.table = probe[p].table /\ new.level = probe[p].level
  BY <1>1 DEF ProbeFields
<1> HIDE DEF new
<1>3. DOMAIN probe' = Probers /\ probe'[p] = new /\ \A q \in Probers \ {p} : SameProber(q)
  BY Zenon, <1>1, ProberChange DEF new
<1>4. SameProber(p)
  BY Zenon, <1>2, <1>3 DEF SameProber
<1>5. table' \subseteq Row /\ (table = {} => table' = {})
  BY Zenon, <1>1, ProbedRows
<1> QED
  BY Zenon, <1>1, <1>3, <1>4, <1>5, SameProbersRound

-----------------------------------------------------------------------------
(* tableOrFuture before the table is there.                                *)
LEMMA AwaitTableRound ==
    ASSUME RoundInv, NEW p \in Probers, ProbeAwake(p), NEW s \in {"waitForBuild", "noMoreInput"},
           s = "noMoreInput" => result # None /\ result.null,
           probe' = [probe EXCEPT ![p].state = s],
           probeStarted' = TRUE, spillFunc' = FALSE,
           \A b \in Builders : b \in waiters' <=> b \in waiters,
           UNCHANGED <<join, cancelled, build, buildPeers, result, restoring, shards,
               parts, probePeers, arrived, table>>
    PROVE  RoundInv'
<1>1. /\ DOMAIN probe = Probers /\ DOMAIN probe[p] = ProbeFields /\ table \subseteq Row
      /\ probe[p].state \in {"table", "waitForBuild"}
      /\ probe' = [probe EXCEPT ![p] = [probe[p] EXCEPT !.state = s]]
  BY Zenon DEF RoundInv, Types, ProbeAwake
<1> DEFINE new == [probe[p] EXCEPT !.state = s]
<1>2. /\ DOMAIN new = ProbeFields
      /\ new.state = s /\ new.last = probe[p].last
      /\ new.noMoreSpillInput = probe[p].noMoreSpillInput
      /\ new.ids = probe[p].ids /\ new.disk = probe[p].disk
  BY <1>1 DEF ProbeFields
<1> HIDE DEF new
<1>3. DOMAIN probe' = Probers /\ probe'[p] = new /\ \A q \in Probers \ {p} : SameProber(q)
  BY Zenon, <1>1, ProberChange DEF new
<1>4. ASSUME join.spill PROVE PeersInv' /\ ProbeFlags(p)' /\ ProbeOK(p)'
  <2>1. PeersInv /\ ProbeFlags(p) /\ ProbeOK(p) /\ p \notin probePeers
    BY Zenon, <1>1, <1>4, ProbeStates
  <2>2. ~Ending(p) /\ ~Ending(p)'
    BY Zenon, <1>1, <1>2, <1>3 DEF Ending
  <2>3. PeersInv'
    BY Zenon, <1>3, <2>1, <2>2, PeersFrame
  <2>4. ~probe[p].noMoreSpillInput /\ ~probe[p].last
    BY Zenon, <1>1, <2>1 DEF ProbeFlags
  <2>5. ProbeFlags(p)'
    BY Zenon, <1>1, <1>2, <1>3, <2>1, <2>4 DEF ProbeFlags
  <2>6. Owed(p)' = Owed(p) /\ Expecting' = Expecting
    BY Zenon, <1>2, <1>3 DEF Owed, Expecting
  <2>7. Owed(p) = Expecting /\ ~Behind(p)'
    BY Zenon, <1>1, <1>2, <1>3, <2>1 DEF ProbeOK, Behind
  <2>8. CASE s = "noMoreInput"
    <3>1. DOMAIN parts = {} /\ result.restored = None /\ result # None /\ result.null
      BY Zenon, <2>8 DEF RoundInv, BridgeInv, ResultInv
    <3>2. Expecting = DOMAIN parts
      BY Zenon, <3>1 DEF Expecting
    <3> QED
      BY Zenon, <1>2, <1>3, <2>3, <2>5, <2>6, <2>7, <2>8, <3>1, <3>2 DEF ProbeOK
  <2>9. CASE s = "waitForBuild"
    <3>1. ~InRound(p)'
      BY Zenon, <1>2, <1>3, <2>9 DEF InRound
    <3> QED
      BY Zenon, <2>3, <2>5, <2>6, <2>7, <3>1 DEF ProbeOK
  <2> QED
    BY Zenon, <2>8, <2>9
<1> QED
  BY Zenon, <1>1, <1>2, <1>3, <1>4, OneProberStep

(* asyncWaitForHashTable with the table: the partition that was restored   *)
(* leaves the prober's, and those the builders have spilled come to them.  *)
LEMMA SetupProbeRound ==
    ASSUME RoundInv, NEW p \in Probers, ProbeAwake(p), result # None, ~result.null,
           probe' = [probe EXCEPT ![p] = SetupProbe(p)],
           probeStarted' = TRUE, spillFunc' = FALSE,
           UNCHANGED <<join, cancelled, build, buildPeers, result, restoring, shards,
               parts, probePeers, arrived, table, waiters>>
    PROVE  RoundInv'
<1>1. /\ DOMAIN probe = Probers /\ DOMAIN probe[p] = ProbeFields /\ table \subseteq Row
      /\ probe[p].state \in {"table", "waitForBuild"}
  BY Zenon DEF RoundInv, Types, ProbeAwake
<1> DEFINE new == SetupProbe(p)
           disk == IF result.restored # None THEN Without(probe[p].disk, result.restored)
                   ELSE probe[p].disk
<1>2. /\ DOMAIN new = ProbeFields
      /\ new.state \in {"running", "noMoreInput"} /\ new.last = probe[p].last
      /\ new.noMoreSpillInput = probe[p].noMoreSpillInput
      /\ new.ids = result.ids /\ new.disk = disk
      /\ new.level = LevelOf(result.restored)
  <2> DEFINE R == result.restored # None
             E == table = {} /\ skipProbeOnEmptyBuild /\ result.ids = {}
             L == IF R THEN result.restored[1] + 1 ELSE 1
             I == IF R THEN Files(probe[p].disk[result.restored]) ELSE probe[p].input
             K == E /\ ~R /\ ~join.early
             S == IF E /\ (R \/ join.early) THEN "noMoreInput" ELSE "running"
  <2>1. new = [probe[p] EXCEPT
                !.table = "current", !.ids = result.ids, !.level = L, !.reader = R,
                !.input = I, !.disk = disk, !.skip = K, !.state = S]
    BY Zenon DEF SetupProbe
  <2>2. S \in {"running", "noMoreInput"}
    BY Zenon
  <2>3. L = LevelOf(result.restored)
    BY Zenon DEF LevelOf
  <2> HIDE DEF disk, new, R, L, I, K, S
  <2> QED
    BY Zenon, <1>1, <2>1, <2>2, <2>3 DEF ProbeFields
<1>3. /\ result.restored # None => DOMAIN disk = DOMAIN probe[p].disk \ {result.restored}
      /\ result.restored = None => DOMAIN disk = DOMAIN probe[p].disk
  BY Zenon DEF Without
<1> HIDE DEF new, disk
<1>4. DOMAIN probe' = Probers /\ probe'[p] = new /\ \A q \in Probers \ {p} : SameProber(q)
  BY Zenon, <1>1, ProberChange DEF new
<1>5. ASSUME join.spill PROVE PeersInv' /\ ProbeFlags(p)' /\ ProbeOK(p)'
  <2>1. PeersInv /\ ProbeFlags(p) /\ ProbeOK(p) /\ p \notin probePeers
    BY Zenon, <1>1, <1>5, ProbeStates
  <2>2. ~probe[p].noMoreSpillInput /\ ~probe[p].last /\ probe[p].ids = {}
    BY Zenon, <1>1, <2>1 DEF ProbeFlags
  <2>3. ~Ending(p) /\ ~Ending(p)'
    BY Zenon, <1>2, <1>4, <2>2 DEF Ending
  <2>4. PeersInv'
    BY Zenon, <1>4, <2>1, <2>3, PeersFrame
  <2>5. ProbeFlags(p)'
    BY Zenon, <1>2, <1>4, <2>2 DEF ProbeFlags
  <2>6. DOMAIN probe[p].disk = (DOMAIN parts \ result.ids) \cup ({result.restored} \ {None})
    <3>1. Owed(p) = Expecting
      BY Zenon, <1>1, <2>1 DEF ProbeOK
    <3> QED
      BY Zenon, <2>2, <3>1 DEF Owed, Expecting
  <2>7. result.ids \subseteq DOMAIN parts /\ result.restored \notin DOMAIN parts
    BY Zenon DEF RoundInv, BridgeInv, ResultInv
  <2>8. DOMAIN disk \cup result.ids = DOMAIN parts
    BY Zenon, <1>3, <2>6, <2>7
  <2>9. Owed(p)' = DOMAIN parts'
    BY Zenon, <1>2, <1>4, <2>8 DEF Owed
  <2>10. ~Behind(p)'
    BY Zenon, <1>2, <1>4 DEF Behind
  <2>11. ProbeOK(p)'
    BY Zenon, <1>2, <1>4, <2>9, <2>10 DEF ProbeOK
  <2> QED
    BY Zenon, <2>4, <2>5, <2>11
<1> QED
  BY Zenon, <1>1, <1>2, <1>4, <1>5, OneProberStep

(* tableOrFuture: no table yet, null keys, or the table of a round.        *)
LEMMA TableOrFutureRound ==
    ASSUME RoundInv, NEW p \in Probers, TableOrFuture(p)
    PROVE  RoundInv'
<1>1. /\ ProbeAwake(p) /\ probeStarted' = TRUE /\ spillFunc' = FALSE
      /\ UNCHANGED <<join, cancelled, build, buildPeers, result, restoring, shards,
               parts, probePeers, arrived, table>>
      /\ \/ /\ waiters' = waiters \cup {p}
            /\ probe' = [probe EXCEPT ![p].state = "waitForBuild"]
         \/ /\ result # None /\ result.null
            /\ probe' = [probe EXCEPT ![p].state = "noMoreInput"]
            /\ UNCHANGED waiters
         \/ /\ result # None /\ ~result.null
            /\ probe' = [probe EXCEPT ![p] = SetupProbe(p)]
            /\ UNCHANGED waiters
  BY Zenon DEF TableOrFuture, CheckCancelled, taskVars, RoundInv, Types
<1>2. p \notin Builders
  BY Zenon, HashJoinAssumption
<1>3. CASE probe' = [probe EXCEPT ![p].state = "waitForBuild"] /\ waiters' = waiters \cup {p}
  BY Zenon, <1>1, <1>2, <1>3, AwaitTableRound
<1>4. CASE /\ result # None /\ result.null
           /\ probe' = [probe EXCEPT ![p].state = "noMoreInput"]
           /\ UNCHANGED waiters
  BY Zenon, <1>1, <1>4, AwaitTableRound
<1>5. CASE /\ result # None /\ ~result.null
           /\ probe' = [probe EXCEPT ![p] = SetupProbe(p)]
           /\ UNCHANGED waiters
  BY Zenon, <1>1, <1>5, SetupProbeRound
<1> QED
  BY Zenon, <1>1, <1>3, <1>4, <1>5

-----------------------------------------------------------------------------
(* noMoreInputInternal: the last prober to come finds all others waiting.  *)
LEMMA NoMoreProbeInputRound ==
    ASSUME RoundInv, NEW p \in Probers, NoMoreProbeInput(p)
    PROVE  RoundInv'
<1> DEFINE last == arrived \cup {p} = Probers
           s == IF join.spill /\ ~last THEN "waitForPeers" ELSE "running"
           new == [probe[p] EXCEPT !.noMoreSpillInput = TRUE, !.input = <<>>,
                     !.disk = FinishSpill(p), !.spilled = {}, !.last = last, !.state = s]
<1>1. /\ DOMAIN probe = Probers /\ DOMAIN probe[p] = ProbeFields /\ table \subseteq Row
      /\ \/ probe[p].state = "noMoreInput"
         \/ probe[p].state = "running" /\ ~probe[p].noMoreSpillInput
      /\ UNCHANGED <<join, cancelled, build, buildPeers, result, restoring, shards,
               parts, probeStarted, spillFunc, table, waiters>>
      /\ probeStarted => ~spillFunc
  BY Zenon DEF NoMoreProbeInput, taskVars, bridgeVars, RoundInv, Types, BridgeInv
<1>2. /\ probe' = [probe EXCEPT ![p] = new]
      /\ arrived' = IF last THEN {} ELSE arrived \cup {p}
      /\ probePeers' = IF join.spill /\ ~last THEN probePeers \cup {p} ELSE probePeers
  BY Zenon DEF NoMoreProbeInput
<1>3. /\ DOMAIN new = ProbeFields
      /\ new.state = s /\ new.last = last /\ new.noMoreSpillInput = TRUE
      /\ new.ids = probe[p].ids /\ new.disk = FinishSpill(p)
      /\ new.level = probe[p].level
  <2>1. PICK S, L : S = s /\ L = last
    BY Zenon
  <2>2. new = [probe[p] EXCEPT !.noMoreSpillInput = TRUE, !.input = <<>>,
                     !.disk = FinishSpill(p), !.spilled = {}, !.last = L, !.state = S]
    BY Zenon, <2>1
  <2> HIDE DEF new, s, last
  <2> QED
    BY <1>1, <2>1, <2>2 DEF ProbeFields
<1> HIDE DEF new
<1>4. DOMAIN probe' = Probers /\ probe'[p] = new /\ \A q \in Probers \ {p} : SameProber(q)
  BY Zenon, <1>1, <1>2, ProberChange
<1>5. DOMAIN FinishSpill(p) = DOMAIN probe[p].disk \cup probe[p].ids
  BY Zenon DEF FinishSpill, Merge
<1>6. ASSUME join.spill PROVE PeersInv' /\ ProbeFlags(p)' /\ ProbeOK(p)'
  <2>1. PeersInv /\ ProbeFlags(p) /\ ProbeOK(p) /\ p \notin probePeers
    BY Zenon, <1>1, <1>6, ProbeStates
  <2>2. InRound(p) /\ ~Ending(p)
    BY Zenon, <1>1, <2>1 DEF InRound, Ending, ProbeFlags
  <2>3. arrived = probePeers
    BY Zenon, <2>1, <2>2 DEF PeersInv
  <2>4. \A q \in Probers \ {p} : ~Ending(q)' /\ probe'[q].state = probe[q].state
    <3>1. \A q \in Probers \ {p} : ~Ending(q)
      BY Zenon, <2>1 DEF PeersInv
    <3> QED
      BY Zenon, <1>4, <3>1 DEF Ending, SameProber
  <2>5. Owed(p)' = Owed(p) /\ probe'[p].ids \subseteq DOMAIN probe'[p].disk
    BY Zenon, <1>3, <1>4, <1>5 DEF Owed
  <2>6. InRound(p)' => ProbeOK(p)'
    <3>1. probe'[p].state \notin {"table", "waitForBuild"}
      BY Zenon, <1>3, <1>4
    <3>2. InRound(p)' => ~Behind(p)'
      BY Zenon DEF InRound, Behind
    <3> QED
      BY Zenon, <1>1, <1>3, <1>4, <2>1, <2>2, <2>5, <3>1, <3>2 DEF ProbeOK
  <2>7. CASE last
    <3>1. probe'[p].state = "running" /\ probe'[p].last /\ probe'[p].noMoreSpillInput
      BY Zenon, <1>3, <1>4, <2>7
    <3>2. ProbeFlags(p)' /\ InRound(p)'
      BY Zenon, <2>5, <3>1 DEF ProbeFlags, InRound
    <3>3. arrived' = {} /\ probePeers' = probePeers /\ probePeers = Probers \ {p}
      BY Zenon, <1>2, <2>1, <2>3, <2>7
    <3>4. Ending(p)'
      BY Zenon, <3>1 DEF Ending
    <3>5. PeersInv'
      BY Zenon, <2>1, <2>4, <3>3, <3>4 DEF PeersInv
    <3> QED
      BY Zenon, <2>6, <3>2, <3>5
  <2>8. CASE ~last
    <3>1. probe'[p].state = "waitForPeers" /\ ~probe'[p].last /\ probe'[p].noMoreSpillInput
      BY Zenon, <1>3, <1>4, <1>6, <2>8
    <3>2. arrived' = arrived \cup {p} /\ probePeers' = probePeers \cup {p}
      BY Zenon, <1>2, <1>6, <2>8
    <3>3. ProbeFlags(p)' /\ InRound(p)'
      BY Zenon, <2>5, <3>1, <3>2 DEF ProbeFlags, InRound
    <3>4. ~Ending(p)'
      BY Zenon, <3>1 DEF Ending
    <3>5. \A q \in probePeers' : q \in Probers /\ probe'[q].state = "waitForPeers"
      BY Zenon, <2>1, <2>4, <3>1, <3>2 DEF PeersInv
    <3>6. PeersInv'
      BY Zenon, <2>3, <2>4, <3>2, <3>4, <3>5 DEF PeersInv
    <3> QED
      BY Zenon, <2>6, <3>3, <3>6
  <2> QED
    BY Zenon, <2>7, <2>8
<1>7. \A q \in Probers \ {p} : q \in probePeers' <=> q \in probePeers
  BY Zenon, <1>2
<1> QED
  BY Zenon, <1>1, <1>3, <1>4, <1>6, <1>7, OneProberStep

-----------------------------------------------------------------------------
(* The probers after prepareForSpillRestore or at their end.               *)
Ended(p) == IF HasMoreSpillData(p) THEN Restored(p)
            ELSE [probe EXCEPT ![p].state = "finish"]

(* The prober that ends its round.                                         *)
LEMMA EndedProber ==
    ASSUME DOMAIN probe = Probers, NEW p \in Probers,
           \A q \in Probers : DOMAIN probe[q] = ProbeFields, probe' = Ended(p)
    PROVE  /\ DOMAIN probe' = Probers /\ DOMAIN probe'[p] = ProbeFields
           /\ probe'[p].disk = probe[p].disk
           /\ HasMoreSpillData(p) =>
                /\ probe'[p].state = "table" /\ probe'[p].ids = {}
                /\ probe'[p].noMoreSpillInput = FALSE /\ probe'[p].last = FALSE
           /\ ~HasMoreSpillData(p) =>
                /\ probe'[p].state = "finish" /\ probe'[p].ids = probe[p].ids
                /\ probe'[p].noMoreSpillInput = probe[p].noMoreSpillInput
<1>1. CASE HasMoreSpillData(p)
  <2>1. /\ DOMAIN probe' = Probers
        /\ probe'[p] = [probe[p] EXCEPT !.noMoreSpillInput = FALSE, !.table = "none",
                !.ids = {}, !.reader = FALSE, !.last = FALSE, !.state = "table"]
    BY Zenon, <1>1 DEF Ended, Restored
  <2>2. DOMAIN probe[p] = ProbeFields
    BY Zenon
  <2>3. /\ DOMAIN probe'[p] = ProbeFields /\ probe'[p].disk = probe[p].disk
        /\ probe'[p].state = "table" /\ probe'[p].ids = {}
        /\ probe'[p].noMoreSpillInput = FALSE /\ probe'[p].last = FALSE
    BY <2>1, <2>2 DEF ProbeFields
  <2> QED
    BY Zenon, <1>1, <2>1, <2>3
<1>2. CASE ~HasMoreSpillData(p)
  <2>1. /\ DOMAIN probe' = Probers
        /\ probe'[p] = [probe[p] EXCEPT !.state = "finish"]
    BY Zenon, <1>2 DEF Ended
  <2>2. DOMAIN probe[p] = ProbeFields
    BY Zenon
  <2>3. /\ DOMAIN probe'[p] = ProbeFields /\ probe'[p].disk = probe[p].disk
        /\ probe'[p].state = "finish" /\ probe'[p].ids = probe[p].ids
        /\ probe'[p].noMoreSpillInput = probe[p].noMoreSpillInput
    BY <2>1, <2>2 DEF ProbeFields
  <2> QED
    BY Zenon, <1>2, <2>1, <2>3
<1> QED
  BY Zenon, <1>1, <1>2

(* .. and its peers, which lose the table that the last one clears.        *)
LEMMA EndedPeers ==
    ASSUME DOMAIN probe = Probers, NEW p \in Probers, NEW q \in Probers \ {p},
           DOMAIN probe[q] = ProbeFields, probe' = Ended(p)
    PROVE  /\ DOMAIN probe'[q] = ProbeFields
           /\ probe'[q].state = probe[q].state /\ probe'[q].last = probe[q].last
           /\ probe'[q].noMoreSpillInput = probe[q].noMoreSpillInput
           /\ probe'[q].ids = probe[q].ids /\ probe'[q].disk = probe[q].disk
           /\ ~probe[p].last => SameProber(q)
           /\ probe[p].last /\ HasMoreSpillData(p) => probe'[q].table # "current"
<1>1. CASE HasMoreSpillData(p)
  <2> DEFINE t == IF probe[p].last /\ probe[q].table = "current" THEN "cleared"
                  ELSE probe[q].table
  <2>1. probe'[q] = [probe[q] EXCEPT !.table = t]
    BY Zenon, <1>1 DEF Ended, Restored
  <2>2. (~probe[p].last => t = probe[q].table) /\ (probe[p].last => t # "current")
    BY Zenon
  <2> HIDE DEF t
  <2>3. /\ DOMAIN probe'[q] = ProbeFields
        /\ probe'[q].state = probe[q].state /\ probe'[q].last = probe[q].last
        /\ probe'[q].noMoreSpillInput = probe[q].noMoreSpillInput
        /\ probe'[q].ids = probe[q].ids /\ probe'[q].disk = probe[q].disk
        /\ probe'[q].level = probe[q].level /\ probe'[q].table = t
    BY <2>1 DEF ProbeFields
  <2> QED
    BY Zenon, <2>2, <2>3 DEF SameProber
<1>2. CASE ~HasMoreSpillData(p)
  <2>1. probe'[q] = probe[q]
    BY Zenon, <1>2 DEF Ended
  <2> QED
    BY Zenon, <1>2, <2>1 DEF SameProber
<1> QED
  BY Zenon, <1>1, <1>2

(* A prober that was let go follows the last one; without spilling every   *)
(* one goes by itself.                                                     *)
LEMMA FollowRound ==
    ASSUME RoundInv, NEW p \in Probers, EndProbe(p), ~(probe[p].last /\ join.spill)
    PROVE  RoundInv'
<1>1. /\ DOMAIN probe = Probers /\ \A q \in Probers : DOMAIN probe[q] = ProbeFields
      /\ table \subseteq Row /\ (probeStarted => ~spillFunc)
      /\ probe' = Ended(p)
      /\ probe[p].noMoreSpillInput /\ probe[p].state \in {"running", "waitForPeers"}
      /\ p \notin probePeers
  BY Zenon DEF EndProbe, Ended, RoundInv, Types, BridgeInv
<1>2. UNCHANGED <<join, cancelled, build, buildPeers, result, restoring, shards,
               parts, probeStarted, spillFunc, table, waiters, arrived, probePeers>>
  BY Zenon DEF EndProbe, taskVars, bridgeVars
<1>3. /\ DOMAIN probe' = Probers /\ DOMAIN probe'[p] = ProbeFields
      /\ probe'[p].disk = probe[p].disk
      /\ HasMoreSpillData(p) =>
           /\ probe'[p].state = "table" /\ probe'[p].ids = {}
           /\ probe'[p].noMoreSpillInput = FALSE /\ probe'[p].last = FALSE
      /\ ~HasMoreSpillData(p) =>
           /\ probe'[p].state = "finish" /\ probe'[p].ids = probe[p].ids
           /\ probe'[p].noMoreSpillInput = probe[p].noMoreSpillInput
  BY Zenon, <1>1, EndedProber
<1>4. CASE ~join.spill
  <2>1. \A q \in Probers : DOMAIN probe'[q] = ProbeFields
    BY Zenon, <1>1, <1>3, EndedPeers
  <2>2. Types' /\ BuildInv' /\ BridgeInv'
    BY Zenon, <1>1, <1>2, <1>3, <2>1, ProbeSideStep
  <2> QED
    BY Zenon, <1>2, <1>4, <2>2 DEF RoundInv
<1>5. CASE join.spill
  <2>1. PeersInv /\ ProbeFlags(p) /\ ProbeOK(p) /\ ~probe[p].last
    BY Zenon, <1>5, ProbeStates
  <2>2. \A q \in Probers \ {p} : SameProber(q)
    BY Zenon, <1>1, <2>1, EndedPeers
  <2>3. Behind(p) /\ ~Ending(p) /\ probe[p].ids \subseteq DOMAIN probe[p].disk
    BY Zenon, <1>1, <2>1 DEF ProbeFlags, Behind, Ending
  <2>4. ~Ending(p)' /\ ~InRound(p)' /\ ~Behind(p)'
    BY Zenon, <1>3 DEF Ending, InRound, Behind
  <2>5. PeersInv'
    BY Zenon, <1>1, <1>2, <2>1, <2>2, <2>3, <2>4, PeersFrame
  <2>6. ProbeFlags(p)'
    BY Zenon, <1>3, <2>3 DEF ProbeFlags
  <2>7. Owed(p) = Expecting /\ Owed(p) = DOMAIN probe[p].disk /\ Expecting' = Expecting
    BY Zenon, <1>2, <2>1, <2>3 DEF ProbeOK, Owed, Expecting
  <2>8. HasMoreSpillData(p) => Owed(p)' = DOMAIN probe[p].disk
    BY Zenon, <1>3 DEF Owed
  <2>9. ProbeOK(p)'
    BY Zenon, <1>3, <2>4, <2>7, <2>8 DEF ProbeOK
  <2> QED
    BY Zenon, <1>1, <1>2, <1>3, <2>2, <2>5, <2>6, <2>9, OneProberStep
<1> QED
  BY Zenon, <1>4, <1>5

-----------------------------------------------------------------------------
(* When the last prober is at the end of a round, the builders have all    *)
(* passed their barrier, and probeFinished wakes them.                     *)
LEMMA BuildersAtEnd ==
    ASSUME RoundInv, join.spill, result # None, waiters' = {},
           UNCHANGED <<join, build, buildPeers>>,
           restoring' # None => DOMAIN parts # {}
    PROVE  /\ BuildInv' /\ Awake' = Builders
           /\ \A b \in Builders : ~Building(b)'
<1>1. \A b \in Builders :
        /\ build[b] \in BuildTypes /\ BuildOK(b) /\ build[b].state # "finish"
        /\ DOMAIN parts # {} => ~build[b].spiller
  BY Zenon DEF RoundInv, Types, BuildInv, BridgeInv, ResultInv
<1>2. \A b \in Builders : ~Building(b) /\ (Building(b)' <=> Building(b))
  BY Zenon, <1>1 DEF BuildOK, Building
<1>3. \A b \in Builders : build[b].state \in BuildStates
  BY Zenon, <1>1 DEF BuildTypes, BuildStates
<1>4. \A b \in Builders : BuildAwake(b)'
  BY Zenon, <1>1, <1>2, <1>3 DEF BuildStates, Building, BuildAwake
<1>5. BarrierInv'
  BY Zenon DEF RoundInv, BuildInv, BarrierInv
<1>6. \A b \in Builders : BuildOK(b)'
  BY Zenon, <1>1, <1>2, <1>4 DEF BuildOK
<1>7. Together'
  BY Zenon, <1>2 DEF Together
<1>8. Awake' = Builders
  BY Zenon, <1>4 DEF Awake
<1> QED
  BY Zenon, <1>2, <1>5, <1>6, <1>7, <1>8 DEF BuildInv

(* probeFinished: the deepest partition is restored next.                  *)
LEMMA ProbeFinishedBridge ==
    ASSUME RoundInv, join.spill, result # None, ProbeFinished, join' = join,
           Awake' = Builders
    PROVE  /\ BridgeInv' /\ PartsTypes' /\ result' = None /\ ~probeStarted'
           /\ restoring' \in Ids \cup {None} /\ shards' \in Seq(SUBSET Row)
           /\ restoring' # None <=> DOMAIN parts # {}
           /\ Expecting' = DOMAIN parts
<1>1. result' = None /\ ~probeStarted' /\ restoring = None /\ shards = <<>> /\ PartsTypes
  BY Zenon DEF ProbeFinished, RoundInv, BridgeInv, RestoreInv, Types
<1>2. ResultInv' /\ PlainInv' /\ (probeStarted' => ~spillFunc')
  BY Zenon, <1>1 DEF ResultInv, PlainInv
<1>3. CASE DOMAIN parts = {}
  <2>1. UNCHANGED <<parts, restoring, shards>>
    BY Zenon, <1>3 DEF ProbeFinished
  <2>2. RestoreInv'
    BY Zenon, <1>1, <1>3, <2>1 DEF RestoreInv
  <2>3. Expecting' = DOMAIN parts
    BY Zenon, <1>1, <2>1 DEF Expecting
  <2>4. PartsTypes' /\ shards' \in Seq(SUBSET Row)
    BY Zenon, <2>1 DEF RoundInv, Types, PartsTypes
  <2> QED
    BY Zenon, <1>1, <1>2, <1>3, <2>1, <2>2, <2>3, <2>4 DEF BridgeInv
<1>4. CASE DOMAIN parts # {}
  <2>1. /\ restoring' = FirstPart /\ shards' = Split(parts[FirstPart])
        /\ parts' = Without(parts, FirstPart)
    BY Zenon, <1>4 DEF ProbeFinished
  <2>2. FirstPart \in DOMAIN parts /\ \A j \in DOMAIN parts : j[1] <= FirstPart[1]
    BY Zenon, <1>1, <1>4, FirstPartIs DEF PartsTypes
  <2>3. restoring' \in Ids /\ restoring' # None
    BY Zenon, <1>1, <2>1, <2>2, NoneIsNone DEF PartsTypes
  <2>4. /\ DOMAIN parts' = DOMAIN parts \ {FirstPart}
        /\ \A j \in DOMAIN parts' : parts'[j] = parts[j]
    BY Zenon, <2>1 DEF Without
  <2>5. PartsTypes'
    BY Zenon, <1>1, <2>4 DEF PartsTypes
  <2>6. shards' \in Seq(SUBSET Row) /\ Len(shards') = Cardinality(Builders)
    BY Zenon, <1>1, <2>1, <2>2, SplitType DEF PartsTypes
  <2>7. RestoreInv'
    BY Zenon, <1>1, <2>1, <2>2, <2>3, <2>4, <2>6 DEF RestoreInv
  <2>8. Expecting' = DOMAIN parts
    BY Zenon, <1>1, <2>1, <2>2, <2>3, <2>4 DEF Expecting
  <2> QED
    BY Zenon, <1>1, <1>2, <1>4, <2>3, <2>5, <2>6, <2>7, <2>8 DEF BridgeInv
<1> QED
  BY Zenon, <1>3, <1>4

(* The last prober ends the round: the others are let go with it.          *)
LEMMA EndRound ==
    ASSUME RoundInv, NEW p \in Probers, EndProbe(p), probe[p].last /\ join.spill
    PROVE  RoundInv'
<1>1. /\ DOMAIN probe = Probers /\ \A q \in Probers : DOMAIN probe[q] = ProbeFields
      /\ table \subseteq Row /\ probe' = Ended(p)
      /\ probe[p].noMoreSpillInput /\ probe[p].state \in {"running", "waitForPeers"}
  BY Zenon DEF EndProbe, Ended, RoundInv, Types
<1>2. /\ ProbeFinished /\ probePeers' = {} /\ waiters' = {}
      /\ table' = (IF HasMoreSpillData(p) THEN {} ELSE table)
      /\ UNCHANGED <<join, cancelled, build, buildPeers, arrived>>
  BY Zenon DEF EndProbe, ProbeFinished, Notify, taskVars
<1>3. PeersInv /\ ProbeFlags(p) /\ ProbeOK(p)
  BY Zenon, ProbeStates
<1>4. Ending(p) /\ InRound(p)
  BY Zenon, <1>1, <1>3 DEF ProbeFlags, Ending, InRound
<1>5. /\ result # None /\ Owed(p) = DOMAIN parts
      /\ probe[p].ids \subseteq DOMAIN probe[p].disk
      /\ probePeers = Probers \ {p} /\ arrived = {}
  BY Zenon, <1>1, <1>3, <1>4 DEF ProbeOK, ProbeFlags, PeersInv
<1>6. DOMAIN probe[p].disk = DOMAIN parts /\ (HasMoreSpillData(p) <=> DOMAIN parts # {})
  BY Zenon, <1>5 DEF Owed, HasMoreSpillData
<1>7. restoring' # None => DOMAIN parts # {}
  BY Zenon, <1>2, <1>5 DEF ProbeFinished, RoundInv, BridgeInv, RestoreInv
<1>8. BuildInv' /\ Awake' = Builders /\ \A b \in Builders : ~Building(b)'
  BY Zenon, <1>2, <1>5, <1>7, BuildersAtEnd
<1>9. /\ BridgeInv' /\ PartsTypes' /\ result' = None /\ ~probeStarted'
      /\ restoring' \in Ids \cup {None} /\ shards' \in Seq(SUBSET Row)
      /\ restoring' # None <=> DOMAIN parts # {}
      /\ Expecting' = DOMAIN parts
  BY Zenon, <1>2, <1>5, <1>8, ProbeFinishedBridge
<1>10. /\ DOMAIN probe' = Probers /\ DOMAIN probe'[p] = ProbeFields
       /\ probe'[p].disk = probe[p].disk
       /\ HasMoreSpillData(p) =>
            /\ probe'[p].state = "table" /\ probe'[p].ids = {}
            /\ probe'[p].noMoreSpillInput = FALSE /\ probe'[p].last = FALSE
       /\ ~HasMoreSpillData(p) =>
            /\ probe'[p].state = "finish" /\ probe'[p].ids = probe[p].ids
            /\ probe'[p].noMoreSpillInput = probe[p].noMoreSpillInput
  BY Zenon, <1>1, EndedProber
<1>11. ASSUME NEW q \in Probers \ {p}
       PROVE  /\ DOMAIN probe'[q] = ProbeFields
              /\ probe'[q].state = probe[q].state /\ probe'[q].last = probe[q].last
              /\ probe'[q].noMoreSpillInput = probe[q].noMoreSpillInput
              /\ probe'[q].ids = probe[q].ids /\ probe'[q].disk = probe[q].disk
              /\ HasMoreSpillData(p) => probe'[q].table # "current"
  BY Zenon, <1>1, EndedPeers
<1>12. Types'
  <2>1. \A q \in Probers : DOMAIN probe'[q] = ProbeFields
    BY Zenon, <1>10, <1>11
  <2>2. table' \subseteq Row
    BY Zenon, <1>1, <1>2
  <2> QED
    BY Zenon, <1>2, <1>9, <1>10, <2>1, <2>2 DEF RoundInv, Types
<1>13. ProbeInv'
  <2>1. ASSUME NEW q \in Probers \ {p} PROVE ~Ending(q)' /\ ProbeFlags(q)' /\ ProbeOK(q)'
    <3>1. q \in probePeers /\ probe[q].state = "waitForPeers" /\ ProbeFlags(q) /\ ProbeOK(q)
      BY Zenon, <1>5, ProbeStates
    <3>2. Owed(q) = DOMAIN parts
      BY Zenon, <3>1 DEF ProbeOK, InRound
    <3>3. Owed(q)' = Expecting'
      BY Zenon, <1>9, <1>11, <3>2 DEF Owed
    <3>4. ~InRound(q)' /\ ~Ending(q)' /\ probe'[q].state = "waitForPeers"
      BY Zenon, <1>2, <1>11, <3>1 DEF InRound, Ending
    <3>5. result' # None \/ restoring' # None => probe'[q].table # "current"
      BY Zenon, <1>6, <1>9, <1>11
    <3>6. ProbeFlags(q)'
      BY Zenon, <1>11, <3>1 DEF ProbeFlags
    <3>7. ProbeOK(q)'
      BY Zenon, <1>8, <3>3, <3>4, <3>5 DEF ProbeOK
    <3> QED
      BY Zenon, <3>4, <3>6, <3>7
  <2>2. ~Ending(p)' /\ ~InRound(p)' /\ ~Behind(p)'
    BY Zenon, <1>10 DEF Ending, InRound, Behind
  <2>3. ProbeFlags(p)'
    BY Zenon, <1>5, <1>10 DEF ProbeFlags
  <2>4. HasMoreSpillData(p) => Owed(p)' = Expecting'
    BY Zenon, <1>6, <1>9, <1>10 DEF Owed
  <2>5. ProbeOK(p)'
    BY Zenon, <1>10, <2>2, <2>4 DEF ProbeOK
  <2>6. PeersInv'
    BY Zenon, <1>2, <1>5, <2>1, <2>2 DEF PeersInv
  <2> QED
    BY Zenon, <2>1, <2>3, <2>5, <2>6 DEF ProbeInv
<1> QED
  BY Zenon, <1>8, <1>9, <1>12, <1>13 DEF RoundInv

(* The end of getOutputInternal                                            *)
LEMMA EndProbeRound ==
    ASSUME RoundInv, NEW p \in Probers, EndProbe(p)
    PROVE  RoundInv'
  BY Zenon, FollowRound, EndRound

-----------------------------------------------------------------------------
(* The probers that are reclaimed are in a round, or the last is over: no  *)
(* prober that was let go holds a table of a later round.                  *)
LEMMA AtReclaimProbe ==
    ASSUME RoundInv, ProbeReclaimable
    PROVE  /\ join.spill /\ restoring = None /\ \A b \in Builders : ~Building(b)
           /\ result = None => \A p \in Unfinished : Behind(p) /\ probe[p].noMoreSpillInput
           /\ result # None => /\ ~result.null /\ probeStarted
                               /\ LevelOf(result.restored) \in 1..MaxLevel
                               /\ \A p \in Unfinished :
                                     InRound(p) /\ probe[p].level = LevelOf(result.restored)
<1>1. /\ join.spill /\ table # {} /\ Unfinished # {}
      /\ \A p \in Unfinished :
            /\ p \in Probers /\ probe[p].state \in {"running", "waitForPeers"}
            /\ probe[p].table = "current" /\ ~Exceeded(probe[p].level)
            /\ ProbeFlags(p) /\ ProbeOK(p)
  BY Zenon DEF ProbeReclaimable, Unfinished, RoundInv, ProbeInv
<1>2. PICK u \in Unfinished : TRUE
  BY Zenon, <1>1
<1>3. \A p \in Unfinished : InRound(p) \/ Behind(p)
  BY Zenon, <1>1 DEF InRound, Behind
<1>4. CASE result = None
  <2>1. \A p \in Unfinished : Behind(p) /\ restoring = None /\ \A b \in Builders : ~Building(b)
    BY Zenon, <1>1, <1>3, <1>4 DEF ProbeOK
  <2>2. \A p \in Unfinished : probe[p].noMoreSpillInput
    BY Zenon, <1>1, <2>1 DEF ProbeFlags, Behind
  <2> QED
    BY Zenon, <1>1, <1>2, <1>4, <2>1, <2>2
<1>5. CASE result # None
  <2>1. restoring = None /\ ~result.null /\ \A b \in Builders : ~Building(b)
    BY Zenon, <1>1, <1>5 DEF RoundInv, BridgeInv, RestoreInv, ResultInv, BuildInv, BuildOK
  <2>2. \A p \in Unfinished : InRound(p)
    BY Zenon, <1>1, <1>3, <1>5 DEF ProbeOK
  <2>3. \A p \in Unfinished : probe[p].level = LevelOf(result.restored) /\ probeStarted
    BY Zenon, <1>1, <2>1, <2>2 DEF ProbeOK
  <2>4. result \in Results
    BY Zenon, <1>5 DEF RoundInv, Types
  <2>5. result.restored \in Ids \cup {None}
    BY <2>4 DEF Results
  <2>6. LevelOf(result.restored) \in Nat \ {0} /\ ~Exceeded(LevelOf(result.restored))
    BY Zenon, <1>1, <1>2, <2>3, <2>5, LevelType
  <2>7. LevelOf(result.restored) \in 1..MaxLevel
    BY <2>6, HashJoinAssumption DEF Exceeded
  <2> QED
    BY Zenon, <1>1, <1>2, <1>5, <2>1, <2>2, <2>3, <2>7
<1> QED
  BY Zenon, <1>4, <1>5

(* The restored partition is of an earlier level than those of its round.  *)
LEMMA DeeperThanRestored ==
    ASSUME RoundInv, result # None, NEW new,
           \A i \in DOMAIN new : i[1] = LevelOf(result.restored), DOMAIN new \subseteq Ids
    PROVE  result.restored \notin DOMAIN new
<1>1. result \in Results
  BY Zenon DEF RoundInv, Types
<1>2. result.restored \in Ids \cup {None}
  BY <1>1 DEF Results
<1> QED
  BY Zenon, <1>2, LevelType, NoneIsNone

(* maybeSetupInputSpiller                                                  *)
LEMMA SpillerFields ==
    ASSUME NEW p \in Probers, DOMAIN probe[p] = ProbeFields, NEW ids, NEW new,
           new = SetupInputSpiller(p, ids)
    PROVE  /\ DOMAIN new = ProbeFields
           /\ new.state = probe[p].state /\ new.last = probe[p].last
           /\ new.noMoreSpillInput = probe[p].noMoreSpillInput
           /\ new.table = probe[p].table /\ new.level = probe[p].level
           /\ new.ids = ids
           /\ DOMAIN new.disk \cup ids = DOMAIN probe[p].disk \cup ids
           /\ new.noMoreSpillInput => ids \subseteq DOMAIN new.disk
<1> DEFINE d == IF probe[p].noMoreSpillInput
                THEN Merge(probe[p].disk, [i \in ids |-> {}]) ELSE probe[p].disk
<1>1. new = [probe[p] EXCEPT !.pending = None, !.ids = ids, !.disk = d]
  BY Zenon DEF SetupInputSpiller
<1>2. /\ probe[p].noMoreSpillInput => DOMAIN d = DOMAIN probe[p].disk \cup ids
      /\ ~probe[p].noMoreSpillInput => d = probe[p].disk
  BY Zenon DEF Merge
<1> HIDE DEF d
<1>3. /\ DOMAIN new = ProbeFields
      /\ new.state = probe[p].state /\ new.last = probe[p].last
      /\ new.noMoreSpillInput = probe[p].noMoreSpillInput
      /\ new.table = probe[p].table /\ new.level = probe[p].level
      /\ new.ids = ids /\ new.disk = d
  BY <1>1 DEF ProbeFields
<1> QED
  BY Zenon, <1>2, <1>3

(* HashProbe::reclaim: the table is spilled to partitions that every       *)
(* prober has, and that are not the one being restored.                    *)
LEMMA ReclaimProbeRound ==
    ASSUME RoundInv, ReclaimProbe
    PROVE  RoundInv'
<1> DEFINE more == \E p \in Unfinished : ~probe[p].noMoreSpillInput
           level == probe[CHOOSE p \in Unfinished : TRUE].level
           new == IF more THEN Partitions(TableToSpill, level) ELSE <<>>
<1>1. /\ ProbeReclaimable /\ parts' = Merge(parts, new)
      /\ probe' = [p \in Probers |-> IF p \in Unfinished
                    THEN SetupInputSpiller(p, DOMAIN new) ELSE probe[p]]
      /\ table' = {}
      /\ UNCHANGED <<join, cancelled, result, restoring, shards, probeStarted, spillFunc,
                   waiters, build, buildPeers, probePeers, arrived>>
  BY Zenon DEF ReclaimProbe, taskVars
<1>2. /\ join.spill /\ restoring = None /\ \A b \in Builders : ~Building(b)
      /\ result = None => \A p \in Unfinished : Behind(p) /\ probe[p].noMoreSpillInput
      /\ result # None => /\ ~result.null /\ probeStarted
                          /\ LevelOf(result.restored) \in 1..MaxLevel
                          /\ \A p \in Unfinished :
                                InRound(p) /\ probe[p].level = LevelOf(result.restored)
  BY Zenon, <1>1, AtReclaimProbe
<1>3. Unfinished # {}
  BY Zenon, <1>1 DEF ProbeReclaimable
<1>4. /\ DOMAIN new \subseteq Ids /\ \A i \in DOMAIN new : new[i] \subseteq Row
      /\ result = None => DOMAIN new = {}
      /\ result # None => \A i \in DOMAIN new : i[1] = LevelOf(result.restored)
  <2>1. CASE ~more
    <3>1. new = <<>>
      BY Zenon, <2>1
    <3> HIDE DEF new
    <3>2. DOMAIN new = {}
      BY <3>1
    <3> QED
      BY Zenon, <3>2
  <2>2. CASE more
    <3>1. result # None
      BY Zenon, <1>2, <2>2
    <3>2. (CHOOSE p \in Unfinished : TRUE) \in Unfinished
      BY Zenon, <1>3
    <3>3. level = LevelOf(result.restored) /\ level \in 1..MaxLevel
      BY Zenon, <1>2, <3>1, <3>2
    <3>4. TableToSpill \in SUBSET Row
      BY Zenon, ProbedRows DEF TableToSpill, RoundInv, Types
    <3>5. new = Partitions(TableToSpill, level)
      BY Zenon, <2>2
    <3> HIDE DEF new, level, more
    <3>6. /\ DOMAIN new \subseteq Ids /\ \A i \in DOMAIN new : i[1] = level
          /\ \A i \in DOMAIN new : new[i] \subseteq Row
      BY Zenon, <3>3, <3>4, <3>5, PartitionsType
    <3> QED
      BY Zenon, <3>1, <3>3, <3>6
  <2> QED
    BY Zenon, <2>1, <2>2
<1> HIDE DEF new
<1>5. PartsTypes' /\ DOMAIN parts' = DOMAIN parts \cup DOMAIN new
  BY Zenon, <1>1, <1>4, MergeParts DEF RoundInv, Types
<1>6. /\ DOMAIN probe' = Probers
      /\ \A p \in Unfinished : probe'[p] = SetupInputSpiller(p, DOMAIN new)
      /\ \A p \in Probers \ Unfinished : probe'[p] = probe[p]
  BY Zenon, <1>1 DEF Unfinished
<1>7. ASSUME NEW p \in Unfinished
      PROVE  /\ p \in Probers /\ DOMAIN probe'[p] = ProbeFields
             /\ probe'[p].state = probe[p].state /\ probe'[p].last = probe[p].last
             /\ probe'[p].noMoreSpillInput = probe[p].noMoreSpillInput
             /\ probe'[p].table = probe[p].table /\ probe'[p].level = probe[p].level
             /\ probe'[p].ids = DOMAIN new
             /\ DOMAIN probe'[p].disk \cup DOMAIN new = DOMAIN probe[p].disk \cup DOMAIN new
             /\ probe'[p].noMoreSpillInput => DOMAIN new \subseteq DOMAIN probe'[p].disk
  <2>1. p \in Probers /\ DOMAIN probe[p] = ProbeFields
    BY Zenon DEF Unfinished, RoundInv, Types
  <2>2. probe'[p] = SetupInputSpiller(p, DOMAIN new)
    BY Zenon, <1>6
  <2> QED
    BY <2>1, <2>2, SpillerFields
<1>8. Types'
  <2>1. \A p \in Probers : DOMAIN probe'[p] = ProbeFields
    BY Zenon, <1>6, <1>7 DEF RoundInv, Types
  <2> QED
    BY Zenon, <1>1, <1>5, <1>6, <2>1 DEF RoundInv, Types
<1>9. /\ Awake' = Awake /\ \A b \in Builders : Building(b)' <=> Building(b)
  BY Zenon, <1>1, AwakeFrame
<1>10. BuildInv'
  BY Zenon, <1>1, <1>2, BuildFrame DEF RoundInv
<1>11. BridgeInv'
  <2>1. RestoreInv'
    BY Zenon, <1>1, <1>2, <1>4, <1>5 DEF RoundInv, BridgeInv, RestoreInv
  <2>2. result # None => ~spillFunc
    BY Zenon, <1>2 DEF RoundInv, BridgeInv
  <2>3. result # None => result.restored \notin DOMAIN new
    BY Zenon, <1>4, DeeperThanRestored
  <2>4. ASSUME result # None
        PROVE  /\ result.ids \subseteq DOMAIN parts'
               /\ result.restored \notin DOMAIN parts'
               /\ \A b \in Builders : /\ ~result.null => ~build[b].spiller
                                      /\ join.spill => build[b].state # "finish"
    BY Zenon, <1>5, <2>3, <2>4 DEF RoundInv, BridgeInv, ResultInv
  <2>5. ResultInv'
    BY Zenon, <1>1, <1>2, <2>2, <2>4 DEF ResultInv
  <2>6. PlainInv' /\ (probeStarted' => ~spillFunc')
    BY Zenon, <1>1, <1>2 DEF PlainInv, RoundInv, BridgeInv
  <2> QED
    BY Zenon, <2>1, <2>5, <2>6 DEF BridgeInv
<1>12. ProbeInv'
  <2>1. \A p \in Probers : /\ probe'[p].state = probe[p].state /\ (Ending(p)' <=> Ending(p))
                           /\ (InRound(p)' <=> InRound(p)) /\ (Behind(p)' <=> Behind(p))
    <3>1. \A p \in Probers : probe'[p].state = probe[p].state /\ probe'[p].last = probe[p].last
      BY Zenon, <1>6, <1>7
    <3> QED
      BY Zenon, <1>1, <3>1 DEF Ending, InRound, Behind
  <2>2. PeersInv'
    BY Zenon, <1>1, <1>2, <2>1 DEF RoundInv, ProbeInv, PeersInv
  <2>3. ASSUME NEW p \in Unfinished PROVE ProbeFlags(p)' /\ ProbeOK(p)'
    <3>1. /\ ProbeFlags(p) /\ ProbeOK(p) /\ probe[p].ids = {}
          /\ probe[p].state \in {"running", "waitForPeers"}
      BY Zenon, <1>1, <1>2 DEF ProbeReclaimable, Unfinished, RoundInv, ProbeInv
    <3>2. ProbeFlags(p)'
      BY Zenon, <1>7, <3>1 DEF ProbeFlags
    <3>3. Owed(p)' = Owed(p) \cup DOMAIN new
      BY Zenon, <1>7, <3>1 DEF Owed
    <3>4. CASE result = None
      <4>1. Owed(p)' = Owed(p) /\ Expecting' = Expecting
        BY Zenon, <1>1, <1>4, <1>5, <3>3, <3>4 DEF Expecting
      <4>2. Behind(p) /\ ~InRound(p)
        BY Zenon, <1>2, <3>4 DEF Behind, InRound
      <4>3. Owed(p)' = Expecting' /\ ~InRound(p)' /\ restoring' = None /\ result' = None
        BY Zenon, <1>1, <1>2, <1>7, <2>1, <3>1, <3>4, <4>1, <4>2 DEF ProbeOK
      <4>4. \A b \in Builders : ~Building(b)'
        BY Zenon, <1>2, <1>9
      <4> QED
        BY Zenon, <3>2, <4>3, <4>4 DEF ProbeOK
    <3>5. CASE result # None
      <4>1. InRound(p) /\ ~Behind(p) /\ probe[p].level = LevelOf(result.restored)
        BY Zenon, <1>2, <3>5 DEF Behind, InRound
      <4>2. Owed(p)' = DOMAIN parts'
        BY Zenon, <1>5, <3>1, <3>3, <4>1 DEF ProbeOK
      <4>3. ~Behind(p)' /\ probe'[p].state \notin {"table", "waitForBuild"}
        BY Zenon, <1>7, <2>1, <3>1, <4>1
      <4> QED
        BY Zenon, <1>1, <1>2, <1>7, <3>2, <3>5, <4>1, <4>2, <4>3 DEF ProbeOK
    <3> QED
      BY Zenon, <3>4, <3>5
  <2>4. ASSUME NEW p \in Probers \ Unfinished PROVE ProbeFlags(p)' /\ ProbeOK(p)'
    <3>1. ProbeFlags(p) /\ probe[p].state = "finish" /\ probe'[p] = probe[p]
      BY Zenon, <1>2, <1>6 DEF Unfinished, RoundInv, ProbeInv
    <3>2. ProbeFlags(p)'
      BY Zenon, <3>1 DEF ProbeFlags
    <3>3. ProbeOK(p)'
      BY Zenon, <3>1 DEF ProbeOK, InRound, Behind
    <3> QED
      BY Zenon, <3>2, <3>3
  <2> QED
    BY Zenon, <2>2, <2>3, <2>4 DEF ProbeInv, Unfinished
<1> QED
  BY Zenon, <1>8, <1>10, <1>11, <1>12 DEF RoundInv

(* HashJoinBridge::reclaim: before a prober has come for the table.        *)
LEMMA ReclaimBridgeRound ==
    ASSUME RoundInv, ReclaimBridge
    PROVE  RoundInv'
<1> DEFINE new == Partitions(table, LevelOf(result.restored))
<1>1. /\ spillFunc /\ result # None /\ table # {} /\ table' = {}
      /\ parts' = Merge(parts, new) /\ result' = [result EXCEPT !.ids = DOMAIN new]
      /\ UNCHANGED <<join, cancelled, restoring, shards, probeStarted, spillFunc, waiters,
                   build, buildPeers, probe, probePeers, arrived>>
  BY Zenon DEF ReclaimBridge, taskVars, LevelOf
<1>2. /\ join.spill /\ ~probeStarted /\ restoring = None
      /\ ~result.null /\ result.ids = {}
      /\ LevelOf(result.restored) <= MaxLevel
      /\ \A i \in DOMAIN parts : i[1] # LevelOf(result.restored)
      /\ result.restored \notin DOMAIN parts
      /\ \A b \in Builders : ~Building(b)
      /\ result \in Results /\ table \in SUBSET Row
  <2>1. result.ids = {} /\ DOMAIN parts \ {} = DOMAIN parts
    BY Zenon, <1>1 DEF RoundInv, BridgeInv, ResultInv
  <2> QED
    BY Zenon, <1>1, <2>1 DEF RoundInv, Types, BridgeInv, ResultInv, PlainInv, RestoreInv, BuildInv, BuildOK
<1>3. LevelOf(result.restored) \in 1..MaxLevel
  <2>1. result.restored \in Ids \cup {None}
    BY <1>2 DEF Results
  <2>2. LevelOf(result.restored) \in Nat \ {0}
    BY Zenon, <2>1, LevelType
  <2> QED
    BY <1>2, <2>2, HashJoinAssumption
<1>4. /\ DOMAIN new \subseteq Ids /\ \A i \in DOMAIN new : new[i] \subseteq Row
      /\ \A i \in DOMAIN new : i[1] = LevelOf(result.restored)
  BY Zenon, <1>2, <1>3, PartitionsType
<1> HIDE DEF new
<1>5. DOMAIN new \cap DOMAIN parts = {} /\ result.restored \notin DOMAIN new
  BY Zenon, <1>1, <1>2, <1>4, DeeperThanRestored
<1>6. PartsTypes' /\ DOMAIN parts' = DOMAIN parts \cup DOMAIN new
  BY Zenon, <1>1, <1>4, MergeParts DEF RoundInv, Types
<1>7. /\ result' \in Results /\ result' # None /\ ~result'.null
      /\ result'.restored = result.restored /\ result'.ids = DOMAIN new
  <2>1. DOMAIN new \in SUBSET Ids
    BY Zenon, <1>4
  <2>2. /\ result' \in Results /\ result'.null = result.null
        /\ result'.restored = result.restored /\ result'.ids = DOMAIN new
    BY <1>1, <1>2, <2>1 DEF Results
  <2> QED
    BY Zenon, <1>2, <2>2, NoneIsNone
<1>8. Types'
  BY Zenon, <1>1, <1>6, <1>7 DEF RoundInv, Types
<1>10. BuildInv'
  <2>1. BarrierInv'
    BY Zenon, <1>1 DEF RoundInv, BuildInv, BarrierInv
  <2>2. \A b \in Builders : ~Building(b)'
    BY Zenon, <1>1, <1>2 DEF Building
  <2>3. \A b \in Builders : BuildOK(b)'
    BY Zenon, <1>1, <1>2, <2>2 DEF RoundInv, BuildInv, BuildOK
  <2>4. Together'
    BY Zenon, <2>2 DEF Together
  <2> QED
    BY Zenon, <2>1, <2>3, <2>4 DEF BuildInv
<1>11. (DOMAIN parts \cup DOMAIN new) \ DOMAIN new = DOMAIN parts
  BY Zenon, <1>5
<1>12. BridgeInv'
  <2>1. RestoreInv'
    BY Zenon, <1>1, <1>2, <1>7 DEF RoundInv, BridgeInv, RestoreInv
  <2>2. \A b \in Builders : ~build[b].spiller /\ build[b].state # "finish"
    BY Zenon, <1>1, <1>2 DEF RoundInv, BridgeInv, ResultInv
  <2>3. DOMAIN parts' \ result'.ids = DOMAIN parts
    BY Zenon, <1>6, <1>7, <1>11
  <2>4. result'.ids \subseteq DOMAIN parts' /\ result'.restored \notin DOMAIN parts'
    BY Zenon, <1>2, <1>5, <1>6, <1>7
  <2>5. ResultInv'
    BY Zenon, <1>1, <1>2, <1>7, <2>2, <2>3, <2>4 DEF ResultInv
  <2>6. PlainInv' /\ (probeStarted' => ~spillFunc')
    BY Zenon, <1>1, <1>2 DEF PlainInv
  <2> QED
    BY Zenon, <2>1, <2>5, <2>6 DEF BridgeInv
<1>13. ProbeInv'
  <2>1. PeersInv'
    BY Zenon, <1>1, <1>2 DEF RoundInv, ProbeInv, PeersInv, Ending
  <2>2. Expecting' = Expecting
    <3>1. DOMAIN parts \ result.ids = DOMAIN parts
      BY Zenon, <1>2
    <3> QED
      BY Zenon, <1>1, <1>6, <1>7, <1>11, <3>1 DEF Expecting
  <2>3. ASSUME NEW p \in Probers PROVE ProbeFlags(p)' /\ ProbeOK(p)'
    <3>1. ProbeFlags(p) /\ ProbeOK(p)
      BY Zenon, <1>2, ProbeStates
    <3>2. ProbeFlags(p)'
      BY Zenon, <1>1, <3>1 DEF ProbeFlags
    <3>3. ~InRound(p)'
      BY Zenon, <1>1, <1>2, <3>1 DEF ProbeOK, InRound
    <3>4. Owed(p)' = Owed(p) /\ (Behind(p)' <=> Behind(p))
      BY Zenon, <1>1 DEF Owed, Behind
    <3>5. \A b \in Builders : ~Building(b)'
      BY Zenon, <1>1, <1>2 DEF Building
    <3>6. Behind(p) => Owed(p) = Expecting /\ probe[p].table # "current"
      BY Zenon, <1>1, <3>1 DEF ProbeOK
    <3>7. probe[p].state \in {"table", "waitForBuild"} => Owed(p) = Expecting
      BY Zenon, <3>1 DEF ProbeOK
    <3>8. ProbeOK(p)'
      BY Zenon, <1>1, <2>2, <3>3, <3>4, <3>5, <3>6, <3>7 DEF ProbeOK
    <3> QED
      BY Zenon, <3>2, <3>8
  <2> QED
    BY Zenon, <2>1, <2>3 DEF ProbeInv
<1> QED
  BY Zenon, <1>8, <1>10, <1>12, <1>13 DEF RoundInv

-----------------------------------------------------------------------------
(* The rows of the build side's input.                                     *)
LEMMA InputRows ==
    ASSUME NEW b \in Builders, NEW s \in Seq(Keys \cup {Null})
    PROVE  [i \in DOMAIN s |-> [builder |-> b, key |-> s[i], probed |-> FALSE]] \in Seq(AnyRow)
<1>1. Len(s) \in Nat /\ DOMAIN s = 1..Len(s)
  OBVIOUS
<1>2. \A i \in DOMAIN s : [builder |-> b, key |-> s[i], probed |-> FALSE] \in AnyRow
  BY DEF AnyRow
<1> HIDE DEF AnyRow
<1> DEFINE row(i) == [builder |-> b, key |-> s[i], probed |-> FALSE]
<1>3. \A i \in 1..Len(s) : row(i) \in AnyRow
  BY Zenon, <1>1, <1>2
<1> HIDE DEF row
<1>4. [i \in 1..Len(s) |-> row(i)] \in Seq(AnyRow)
  BY <1>1, <1>3
<1> QED
  BY Zenon, <1>1, <1>4 DEF row

(* The first round starts with nothing at the bridge.                      *)
LEMMA InitRound ==
    ASSUME Init
    PROVE  RoundInv
<1>1. /\ join \in Joins /\ ~cancelled /\ result = None /\ restoring = None
      /\ shards = <<>> /\ parts = <<>> /\ ~probeStarted /\ ~spillFunc
      /\ buildPeers = {} /\ probePeers = {} /\ arrived = {} /\ table = {}
  BY Zenon DEF Init
<1>2. DOMAIN parts = {}
  BY <1>1
<1>3. LevelOf(restoring) = 1
  BY Zenon, <1>1 DEF LevelOf
<1>4. ASSUME NEW b \in Builders
      PROVE  /\ build[b] \in BuildTypes /\ build[b].state = "running"
             /\ build[b].level = 1 /\ build[b].disk = {} /\ ~build[b].spilled
             /\ build[b].spiller => join.spill /\ build[b].level <= MaxLevel
  <2>1. join.build[b] \in Seq(Keys \cup {Null})
    BY Zenon, <1>1, HashJoinAssumption
  <2>2. PICK input \in Seq(AnyRow) :
          input = [i \in DOMAIN join.build[b] |->
                      [builder |-> b, key |-> join.build[b][i], probed |-> FALSE]]
    BY Zenon, <2>1, InputRows
  <2>3. build[b] = NewBuild(1, input)
    BY Zenon, <2>2 DEF Init
  <2>4. 1 \in Nat \ {0}
    OBVIOUS
  <2> QED
    BY <2>3, <2>4, NewBuildType
<1>5. build \in [Builders -> BuildTypes]
  BY Zenon, <1>4 DEF Init
<1>6. /\ DOMAIN probe = Probers
      /\ \A p \in Probers :
           /\ DOMAIN probe[p] = ProbeFields /\ probe[p].state = "waitForBuild"
           /\ ~probe[p].noMoreSpillInput /\ ~probe[p].last
           /\ probe[p].ids = {} /\ DOMAIN probe[p].disk = {}
  <2>1. ASSUME NEW p \in Probers
        PROVE  /\ DOMAIN probe[p] = ProbeFields /\ probe[p].state = "waitForBuild"
               /\ ~probe[p].noMoreSpillInput /\ ~probe[p].last
               /\ probe[p].ids = {} /\ DOMAIN probe[p].disk = {}
    <3>1. probe[p] =
            [state |-> "waitForBuild", input |-> join.probe[p], pending |-> None,
             table |-> "none", ids |-> {}, disk |-> <<>>, spilled |-> {},
             reader |-> FALSE, noMoreSpillInput |-> FALSE, last |-> FALSE,
             level |-> 1, skip |-> FALSE]
      BY Zenon DEF Init
    <3> QED
      BY <3>1 DEF ProbeFields
  <2>2. DOMAIN probe = Probers
    BY Zenon DEF Init
  <2> QED
    BY Zenon, <2>1, <2>2
<1>7. Types
  <2>1. <<>> \in Seq(SUBSET Row)
    BY Zenon, EmptyIsSeq
  <2> QED
    BY Zenon, <1>1, <1>2, <1>5, <1>6, <2>1 DEF Types, PartsTypes
<1>8. BuildInv
  <2>1. \A b \in Builders : Building(b)
    BY Zenon, <1>4 DEF Building
  <2>2. BarrierInv
    BY Zenon, <1>1, <1>4 DEF BarrierInv
  <2>3. \A b \in Builders : BuildOK(b)
    BY Zenon, <1>1, <1>2, <1>3, <1>4, <2>1 DEF BuildOK
  <2>4. Together
    BY Zenon, <1>4, <2>1 DEF Together
  <2> QED
    BY Zenon, <2>2, <2>3, <2>4 DEF BuildInv
<1>9. BridgeInv
  BY Zenon, <1>1, <1>2 DEF BridgeInv, RestoreInv, ResultInv, PlainInv
<1>10. ProbeInv
  <2>1. PeersInv
    BY Zenon, <1>1, <1>6 DEF PeersInv, Ending
  <2>2. \A p \in Probers : ProbeFlags(p)
    BY Zenon, <1>6 DEF ProbeFlags
  <2>3. Expecting = {}
    BY Zenon, <1>1, <1>2 DEF Expecting
  <2>4. \A p \in Probers : Owed(p) = {} /\ ~InRound(p) /\ ~Behind(p)
    BY Zenon, <1>6 DEF Owed, InRound, Behind
  <2>5. \A p \in Probers : ProbeOK(p)
    BY Zenon, <2>3, <2>4 DEF ProbeOK
  <2> QED
    BY Zenon, <2>1, <2>2, <2>5 DEF ProbeInv
<1> QED
  BY Zenon, <1>7, <1>8, <1>9, <1>10 DEF RoundInv

-----------------------------------------------------------------------------
(* What the rounds imply for the checks of the operations.                 *)
LEMMA RoundChecks ==
    ASSUME RoundInv
    PROVE  HandoverChecks
<1>0. RestoreInv /\ ResultInv /\ PlainInv /\ (probeStarted => ~spillFunc)
  BY Zenon DEF RoundInv, BridgeInv
<1>1. ASSUME NEW b \in Builders, build[b].state = "merge"
      PROVE  BuildChecks /\ {Id(r.key, build[b].level) : r \in AllSpilled} \cap DOMAIN parts = {}
  <2>1. DOMAIN Partitions(AllSpilled, build[b].level) \cap DOMAIN parts = {}
    BY Zenon, <1>1, NewPartitions
  <2>2. DOMAIN Partitions(AllSpilled, build[b].level)
            = {Id(r.key, build[b].level) : r \in AllSpilled}
    BY Zenon DEF Partitions
  <2>3. BuildChecks
    BY Zenon, <1>1, AtMerge DEF BuildChecks
  <2> QED
    BY Zenon, <2>1, <2>2, <2>3
<1>2. ASSUME NEW b \in Builders, BuildAwake(b), join.spill PROVE InputChecks
  <2>1. b \in Awake
    BY Zenon, <1>2 DEF Awake
  <2>2. restoring # None => shards # <<>>
    <3>1. IsFiniteSet(Awake)
      BY Zenon, HashJoinAssumption, FS_Subset DEF Awake
    <3>2. Cardinality(Awake) # 0
      BY Zenon, <2>1, <3>1, FS_EmptySet
    <3>3. restoring # None => Len(shards) # 0
      BY Zenon, <1>0, <3>2 DEF RestoreInv
    <3> QED
      BY <3>3
  <2> QED
    BY Zenon, <1>0, <2>2 DEF InputChecks, RestoreInv
<1>3. ASSUME NEW p \in Probers, ProbeAwake(p)
      PROVE  /\ ProbeChecks
             /\ result # None /\ result.restored # None
                   => result.restored \in DOMAIN probe[p].disk
  <2>1. ProbeChecks
    BY Zenon, <1>0 DEF ProbeChecks, RestoreInv
  <2>2. ASSUME result # None, result.restored # None
        PROVE  result.restored \in DOMAIN probe[p].disk
    <3>1. join.spill
      BY Zenon, <1>0, <2>2 DEF PlainInv
    <3>2. ProbeFlags(p) /\ ProbeOK(p)
      BY Zenon, <3>1, ProbeStates
    <3>3. probe[p].ids = {} /\ Owed(p) = Expecting
      BY Zenon, <1>3, <3>2 DEF ProbeAwake, ProbeFlags, ProbeOK
    <3>4. result.restored \in Expecting
      BY Zenon, <2>2 DEF Expecting
    <3> QED
      BY Zenon, <3>3, <3>4 DEF Owed
  <2> QED
    BY Zenon, <2>1, <2>2
<1>4. ASSUME NEW p \in Probers, probe[p].last, join.spill, probe[p].state = "running"
      PROVE  FinishChecks
  <2>1. InRound(p) /\ ProbeOK(p)
    BY Zenon, <1>4, ProbeStates DEF InRound
  <2>2. result # None /\ probeStarted
    BY Zenon, <2>1 DEF ProbeOK
  <2> QED
    BY Zenon, <1>0, <2>2 DEF FinishChecks, RestoreInv
<1> QED
  BY Zenon, <1>0, <1>1, <1>2, <1>3, <1>4 DEF HandoverChecks

(* Every operation of a running task keeps the rounds in order.            *)
LEMMA HandoverStep ==
    ASSUME HandoverInv, [Next]_vars
    PROVE  HandoverInv'
<1> SUFFICES ASSUME running' PROVE RoundInv'
  BY Zenon DEF HandoverInv
<1>1. CASE UNCHANGED vars
  <2>1. UNCHANGED <<join, running, cancelled, build, buildPeers, result, restoring, shards,
               parts, waiters, probeStarted, spillFunc, probe, probePeers, arrived, table>>
    BY Zenon, <1>1 DEF vars, taskVars, bridgeVars
  <2>2. RoundInv /\ DOMAIN probe = Probers /\ table \subseteq Row
    BY Zenon, <2>1 DEF HandoverInv, RoundInv, Types
  <2>3. \A q \in Probers : SameProber(q)
    BY Zenon, <2>1 DEF SameProber
  <2> QED
    BY Zenon, <2>1, <2>2, <2>3, SameProbersRound
<1>2. CASE \E b \in Builders : BuildStep(b)
  <2>1. PICK b \in Builders : BuildStep(b)
    BY Zenon, <1>2
  <2>2. running
    BY Zenon, <2>1 DEF BuildStep, AddBuildInput, FinishHashBuild, MergeTables,
                       PostHashBuildProcess, taskVars
  <2>3. RoundInv
    BY Zenon, <2>2 DEF HandoverInv
  <2> QED
    BY Zenon, <2>1, <2>3, AddBuildInputRound, FinishHashBuildRound, MergeTablesRound,
       PostHashBuildProcessRound DEF BuildStep
<1>3. CASE \E p \in Probers : ProbeStep(p)
  <2>1. PICK p \in Probers : ProbeStep(p)
    BY Zenon, <1>3
  <2>2. running
    BY Zenon, <2>1 DEF ProbeStep, TableOrFuture, AddProbeInput, GetOutput,
                       NoMoreProbeInput, EndProbe, taskVars
  <2>3. RoundInv
    BY Zenon, <2>2 DEF HandoverInv
  <2> QED
    BY Zenon, <2>1, <2>3, TableOrFutureRound, AddProbeInputRound, GetOutputRound,
       NoMoreProbeInputRound, EndProbeRound DEF ProbeStep
<1>4. CASE ReclaimBuild \/ ReclaimProbe \/ ReclaimBridge
  <2>1. running
    BY Zenon, <1>4 DEF ReclaimBuild, ReclaimProbe, ReclaimBridge, taskVars
  <2>2. RoundInv
    BY Zenon, <2>1 DEF HandoverInv
  <2> QED
    BY Zenon, <1>4, <2>2, ReclaimBuildRound, ReclaimProbeRound, ReclaimBridgeRound
<1>5. CASE \/ \E stay \in SUBSET OnThread : Terminate(stay)
           \/ Cancel \/ \E d \in Builders \cup Probers : Close(d)
  BY Zenon, <1>5 DEF Terminate, Cancel, Close, taskVars
<1> QED
  BY Zenon, <1>1, <1>2, <1>3, <1>4, <1>5 DEF Next

(* In every round of a join that spills, however often, the builders find  *)
(* the bridge without a table and a shard for each of them, the probers    *)
(* the input of the partition that was restored, the last prober the table *)
(* of its round, and no two rounds spill the same partition: none of the   *)
(* checks of HashJoinBridge.cpp and maybeSetupSpillInputReader fails.      *)
THEOREM HandoverIsChecked == Spec => []HandoverChecks
<1>1. Init => HandoverInv
  BY Zenon, InitRound DEF HandoverInv
<1>2. HandoverInv /\ [Next]_vars => HandoverInv'
  BY Zenon, HandoverStep
<1>3. HandoverInv => HandoverChecks
  BY Zenon, RoundChecks DEF HandoverInv, HandoverChecks
<1> QED
  BY <1>1, <1>2, <1>3, PTL DEF Spec
=============================================================================
