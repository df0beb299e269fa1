------------------------------ MODULE HashJoin ------------------------------
(* A hash join that may spill: the HashBuild operators of one pipeline, the *)
(* HashProbe operators of another, the HashJoinBridge between them, and the *)
(* barrier Task::allPeersFinished of either pipeline.  A step is one        *)
(* critical section, or what an operator does between two of them.  The     *)
(* memory arbitrator reclaims while the task is paused: all drivers are     *)
(* then between two calls of their operators, or in the reclaimable section *)
(* before the tables of the builders are merged.                            *)
(*                                                                          *)
(* A row is its key, a sequence of hash bits (or Null) with one bit for     *)
(* each level of spilling; a partition is a level and the bit there.        *)
EXTENDS Integers, Sequences, FiniteSets, Functions

CONSTANTS Builders, Probers,    \* the drivers of the two pipelines
          Joins,                \* the joins: kind, inputs, what may happen
          MaxLevel,             \* maxSpillLevel, from 1
          Null, None

Keys == [1..MaxLevel -> 0..1]
Ids == (1..MaxLevel) \X (0..1)       \* SpillPartitionId: level, bit

ASSUME HashJoinAssumption ==
    /\ IsFiniteSet(Builders) /\ IsFiniteSet(Probers)
    /\ Builders # {} /\ Probers # {} /\ Builders \cap Probers = {}
    /\ MaxLevel \in Nat \ {0}
    /\ \A j \in Joins :
          /\ j.kind \in {"inner", "right", "anti"}     \* anti: null aware
          /\ {j.spill, j.early, j.abort} \subseteq BOOLEAN
          /\ j.reclaims \in Nat          \* bound: reclaims that find something
          /\ j.build \in [Builders -> Seq(Keys \cup {Null})]
          /\ j.kind = "right" => j.build \in [Builders -> Seq(Keys)]
          /\ j.probe \in [Probers -> Seq(Keys)]

(* What a nullopt or a null key is told apart from                         *)
ASSUME NoneAssumption ==
    /\ Null \notin Keys /\ None \notin Ids
    /\ None \notin [null : BOOLEAN, restored : Ids \cup {None}, ids : SUBSET Ids]

VARIABLES
    join,                       \* chosen once
    running, cancelled,         \* the task; cancelled_ of the bridge
    result, restoring, shards,  \* buildResult_, restoringSpillPartitionId_, ..
    parts, waiters,             \* spillPartitionSets_, promises_
    probeStarted, spillFunc,    \* is tableSpillFunc_ set?
    build, buildPeers,          \* operators; who waits at their barrier
    probe, probePeers, arrived, \* .. and who has come to it: numRequested
    table,                      \* the rows of the table that was handed over
    output, repeated, reclaims  \* history: rows of the result, is one twice?

bridgeVars == <<result, restoring, shards, parts, probeStarted, spillFunc>>
historyVars == <<output, repeated>>
taskVars == <<join, running, cancelled>>
vars == <<taskVars, bridgeVars, waiters, build, buildPeers, probe, probePeers,
          arrived, table, historyVars, reclaims>>

(* SpillPartitionId, and which of several is restored first: operator<     *)
Id(key, level) == <<level, key[level]>>

MutPrecedes(i, j) == i[1] < j[1] \/ (i[1] = j[1] /\ i[2] < j[2])

Precedes(i, j) == i[1] > j[1] \/ (i[1] = j[1] /\ i[2] < j[2])

FirstPart ==
    CHOOSE i \in DOMAIN parts : \A j \in DOMAIN parts \ {i} : Precedes(i, j)

(* Spilled rows by partition, the empty partitions removed                 *)
Partitions(rows, level) ==
    [i \in {Id(r.key, level) : r \in rows} |-> {r \in rows : Id(r.key, level) = i}]

(* The files of a partition, with a row in each: their order is not told   *)
(* apart                                                                   *)
Files(rows) == CHOOSE f \in [1..Cardinality(rows) -> rows] : IsInjective(f)

(* SpillPartition::split: the first shards have one more                   *)
Split(rows) ==
    LET n == Cardinality(Builders)
        files == Files(rows)
    IN [s \in 1..n |-> {files[f] : f \in {f \in DOMAIN files : (f - 1) % n = s - 1}}]

Merge(f, g) == [i \in DOMAIN f \cup DOMAIN g |-> IF i \in DOMAIN g THEN g[i] ELSE f[i]]

Without(f, i) == [j \in DOMAIN f \ {i} |-> f[j]]

-----------------------------------------------------------------------------
(* HashJoinBridge                                                          *)

MutNotify == waiters' = waiters \ Probers

Notify == waiters' = {}

SetHashTable(rows, spilled, level, canReclaim) ==
    LET new == Partitions(spilled, level) IN
    /\ table' = rows
    /\ parts' = Merge(parts, new)
    /\ result' = [null |-> FALSE, restored |-> restoring, ids |-> DOMAIN new]
    /\ spillFunc' = IF probeStarted THEN spillFunc ELSE canReclaim
    /\ restoring' = None
    /\ Notify
    /\ UNCHANGED <<shards, probeStarted>>

SetAntiJoinHasNullKeys ==
    /\ result' = [null |-> TRUE, restored |-> None, ids |-> {}]
    /\ restoring' = None
    /\ parts' = <<>>
    /\ Notify
    /\ UNCHANGED <<table, shards, probeStarted, spillFunc>>

ProbeFinished ==
    /\ result' = None
    /\ probeStarted' = FALSE
    /\ Notify
    /\ spillFunc' = spillFunc
    /\ \/ /\ DOMAIN parts = {}
          /\ UNCHANGED <<parts, restoring, shards>>
       \/ /\ DOMAIN parts # {}
          /\ restoring' = FirstPart
          /\ shards' = Split(parts[FirstPart])
          /\ parts' = Without(parts, FirstPart)

(* The checks at the head of the operations                                *)
BuildChecks == result = None /\ shards = <<>>
ProbeChecks == result = None \/ (restoring = None /\ shards = <<>>)
FinishChecks == result # None /\ restoring = None /\ shards = <<>> /\ ~spillFunc
InputChecks ==
    /\ result # None => restoring = None
    /\ result = None /\ restoring = None => DOMAIN parts = {} /\ shards = <<>>
    /\ result = None /\ restoring # None => shards # <<>>

-----------------------------------------------------------------------------
(* HashBuild                                                               *)

Exceeded(level) == level > MaxLevel       \* exceedSpillLevelLimit

(* setupTable, setupSpiller                                                *)
NewBuild(level, input) ==
    [state |-> "running", input |-> input, level |-> level, table |-> {},
     disk |-> {}, spilled |-> FALSE, null |-> FALSE,
     spiller |-> join.spill /\ ~Exceeded(level)]

(* The first row goes to the table, or to disk once the builders spilled.  *)
(* A null key matches nothing: an inner join drops it, an anti join ends.  *)
AfterInput(r) ==
    LET row == Head(r.input) IN
    IF row.key = Null
    THEN IF join.kind = "anti"
         THEN [r EXCEPT !.null = TRUE, !.input = <<>>]
         ELSE [r EXCEPT !.input = Tail(@)]
    ELSE IF r.spilled
    THEN [r EXCEPT !.disk = @ \cup {row}, !.input = Tail(@)]
    ELSE [r EXCEPT !.table = @ \cup {row}, !.input = Tail(@)]

AddBuildInput(b) ==
    /\ build[b].state = "running" /\ build[b].input # <<>>
    /\ build' = [build EXCEPT ![b] = AfterInput(build[b])]
    /\ UNCHANGED <<taskVars, bridgeVars, waiters, buildPeers, probe, probePeers,
                   arrived, table, historyVars, reclaims>>

(* finishHashBuild, up to the merge of the tables.  After the task failed  *)
(* allPeersFinished throws.                                                *)
FinishHashBuild(b) ==
    /\ build[b].state = "running" /\ build[b].input = <<>> /\ running
    /\ IF buildPeers = Builders \ {b}
       THEN /\ build' = [build EXCEPT ![b].state = "merge"]
            /\ UNCHANGED buildPeers
       ELSE /\ build' = [build EXCEPT ![b].state = "waitForBuild"]
            /\ buildPeers' = buildPeers \cup {b}
    /\ UNCHANGED <<taskVars, bridgeVars, waiters, probe, probePeers, arrived,
                   table, historyVars, reclaims>>

HasNullKeys == join.kind = "anti" /\ \E b \in Builders : build[b].null

Closed(b) == build[b].state = "closed"

AllSpilled == UNION {build[b].disk : b \in Builders}

(* The last builder merges the tables; the peers go on in any case         *)
MergeTables(b) ==
    /\ build[b].state = "merge"
    /\ buildPeers' = {}
    /\ \/ /\ HasNullKeys
          /\ SetAntiJoinHasNullKeys
          /\ build' = [build EXCEPT ![b].state = "post"]
       \/ /\ ~HasNullKeys
          /\ \A c \in Builders : ~Closed(c)
          /\ SetHashTable(UNION {build[c].table : c \in Builders}, AllSpilled,
                build[b].level, join.spill /\ ~Exceeded(build[b].level))
          /\ build' = [c \in Builders |->
                [build[c] EXCEPT !.table = {}, !.disk = {}, !.spiller = FALSE,
                    !.state = IF c = b THEN "post" ELSE @]]
       \/ /\ ~HasNullKeys
          /\ \E c \in Builders : Closed(c)
          /\ build' = [build EXCEPT ![b].state = "closed"]
          /\ UNCHANGED <<bridgeVars, waiters, table>>
    /\ UNCHANGED <<taskVars, probe, probePeers, arrived, historyVars, reclaims>>

(* A wait that is over: at the barrier, or for the probe side              *)
BuildAwake(b) ==
    \/ build[b].state = "post"
    \/ build[b].state = "waitForBuild" /\ b \notin buildPeers
    \/ build[b].state = "waitForProbe" /\ b \notin waiters

(* postHashBuildProcess: spillInputOrFuture, setupSpillInput               *)
PostHashBuildProcess(b) ==
    /\ BuildAwake(b)
    /\ \/ /\ ~join.spill
          /\ build' = [build EXCEPT ![b].state = "finish"]
          /\ UNCHANGED <<waiters, shards>>
       \/ /\ join.spill /\ cancelled
          /\ build' = [build EXCEPT ![b].state = "closed"]
          /\ UNCHANGED <<waiters, shards>>
       \/ /\ join.spill /\ ~cancelled /\ result # None
          /\ build' = [build EXCEPT ![b].state = "waitForProbe"]
          /\ waiters' = waiters \cup {b}
          /\ UNCHANGED shards
       \/ /\ join.spill /\ ~cancelled /\ result = None /\ restoring = None
          /\ build' = [build EXCEPT ![b].state = "finish"]
          /\ UNCHANGED <<waiters, shards>>
       \/ /\ join.spill /\ ~cancelled /\ result = None /\ restoring # None
          /\ build' = [build EXCEPT ![b] =
                NewBuild(restoring[1] + 1, Files(shards[Len(shards)]))]
          /\ shards' = SubSeq(shards, 1, Len(shards) - 1)
          /\ UNCHANGED waiters
    /\ UNCHANGED <<taskVars, result, restoring, parts, probeStarted, spillFunc,
          buildPeers, probe, probePeers, arrived, table, historyVars, reclaims>>

-----------------------------------------------------------------------------
(* HashProbe                                                               *)

skipProbeOnEmptyBuild == join.kind \in {"inner", "right"}

NeedLastProbe(p) == join.kind = "right" /\ ~probe[p].skip

HasMoreSpillData(p) == DOMAIN probe[p].disk # {} \/ probe[p].ids # {}

(* The partitions of the rows the input spiller wrote                      *)
FinishSpill(p) ==
    Merge(probe[p].disk,
          [i \in probe[p].ids |-> {k \in probe[p].spilled : Id(k, i[1]) = i}])

(* asyncWaitForHashTable with the result of tableOrFuture                  *)
SetupProbe(p) ==
    LET restored == result.restored # None
        empty == table = {} /\ skipProbeOnEmptyBuild /\ result.ids = {}
        level == IF restored THEN result.restored[1] + 1 ELSE 1
    IN [probe[p] EXCEPT
          !.table = "current", !.ids = result.ids, !.level = level,
          !.reader = restored,
          !.input = IF restored THEN Files(probe[p].disk[result.restored]) ELSE @,
          !.disk = IF restored THEN Without(@, result.restored) ELSE @,
          !.skip = empty /\ ~restored /\ ~join.early,
          !.state = IF empty /\ (restored \/ join.early)
                    THEN "noMoreInput" ELSE "running"]

ProbeAwake(p) ==
    \/ probe[p].state = "table"
    \/ probe[p].state = "waitForBuild" /\ p \notin waiters

MutCheckCancelled == FALSE

CheckCancelled == cancelled

TableOrFuture(p) ==
    /\ ProbeAwake(p)
    /\ \/ /\ CheckCancelled
          /\ probe' = [probe EXCEPT ![p].state = "closed"]
          /\ UNCHANGED <<waiters, probeStarted, spillFunc>>
       \/ /\ ~CheckCancelled
          /\ probeStarted' = TRUE
          /\ spillFunc' = FALSE
          /\ \/ /\ result = None
                /\ waiters' = waiters \cup {p}
                /\ probe' = [probe EXCEPT ![p].state = "waitForBuild"]
             \/ /\ result # None /\ result.null
                /\ probe' = [probe EXCEPT ![p].state = "noMoreInput"]
                /\ UNCHANGED waiters
             \/ /\ result # None /\ ~result.null
                /\ probe' = [probe EXCEPT ![p] = SetupProbe(p)]
                /\ UNCHANGED waiters
    /\ UNCHANGED <<taskVars, result, restoring, shards, parts, build, buildPeers,
                   probePeers, arrived, table, historyVars, reclaims>>

(* The next row is spilled with its partition, or probes, or is dropped    *)
AfterProbeInput(r) ==
    LET key == Head(r.input) IN
    IF ~r.skip /\ \E i \in r.ids : Id(key, i[1]) = i
    THEN [r EXCEPT !.input = Tail(@), !.spilled = @ \cup {key}]
    ELSE IF r.skip \/ (table = {} /\ skipProbeOnEmptyBuild)
    THEN [r EXCEPT !.input = Tail(@)]
    ELSE [r EXCEPT !.input = Tail(@), !.pending = key]

(* addInput, from the source or the reader of a spilled partition          *)
AddProbeInput(p) ==
    /\ probe[p].state = "running" /\ probe[p].pending = None
    /\ probe[p].input # <<>>
    /\ probe' = [probe EXCEPT ![p] = AfterProbeInput(probe[p])]
    /\ UNCHANGED <<taskVars, bridgeVars, waiters, build, buildPeers, probePeers,
                   arrived, table, historyVars, reclaims>>

(* The rows of the result for the input of the operators of P              *)
Outputs(P) ==
    LET pending == {p \in P : probe[p].pending # None}
        matches(p) == {r \in table : r.key = probe[p].pending}
    IN UNION {IF join.kind = "anti"
              THEN {<<p, probe[p].pending, None>> : m \in {x \in {0} : matches(p) = {}}}
              ELSE {<<p, r.key, r.builder>> : r \in matches(p)} : p \in pending}

(* The probed flags of the rows they match are set                         *)
Probed(P) ==
    {[r EXCEPT !.probed = @ \/ \E p \in P : probe[p].pending = r.key] : r \in table}

BuildSideOutput(rows) == {<<None, r.key, r.builder>> : r \in {q \in rows : ~q.probed}}

Produce(rows) ==
    /\ output' = output \cup rows
    /\ repeated' = (repeated \/ rows \cap output # {})

GetOutput(p) ==
    /\ probe[p].state = "running" /\ probe[p].pending # None
    /\ Produce(Outputs({p}))
    /\ table' = Probed({p})
    /\ probe' = [probe EXCEPT ![p].pending = None]
    /\ UNCHANGED <<taskVars, bridgeVars, waiters, build, buildPeers, probePeers,
                   arrived, reclaims>>

(* noMoreInputInternal.  Without spilling nobody waits for the peers.      *)
NoMoreProbeInput(p) ==
    /\ running
    /\ \/ probe[p].state = "noMoreInput"
       \/ /\ probe[p].state = "running" /\ probe[p].pending = None
          /\ probe[p].input = <<>> /\ ~probe[p].noMoreSpillInput
    /\ LET last == arrived \cup {p} = Probers
           waits == join.spill /\ ~last
       IN /\ arrived' = IF last THEN {} ELSE arrived \cup {p}
          /\ probePeers' = IF waits THEN probePeers \cup {p} ELSE probePeers
          /\ probe' = [probe EXCEPT ![p] =
                [@ EXCEPT !.noMoreSpillInput = TRUE, !.input = <<>>,
                          !.disk = FinishSpill(p), !.spilled = {}, !.last = last,
                          !.state = IF waits THEN "waitForPeers" ELSE "running"]]
    /\ UNCHANGED <<taskVars, bridgeVars, waiters, build, buildPeers, table,
                   historyVars, reclaims>>

(* prepareForSpillRestore; the table that the last one clears is the one   *)
(* its peers still hold                                                    *)
Restored(p) ==
    [q \in Probers |->
        IF q = p
        THEN [probe[p] EXCEPT !.noMoreSpillInput = FALSE, !.table = "none",
                !.ids = {}, !.reader = FALSE, !.last = FALSE, !.state = "table"]
        ELSE [probe[q] EXCEPT
                !.table = IF probe[p].last /\ @ = "current" THEN "cleared" ELSE @]]

(* The end of getOutputInternal, when there is no more input: the peers    *)
(* follow the last one, which first returns the build side's rows          *)
EndProbe(p) ==
    /\ probe[p].state \in {"running", "waitForPeers"} /\ p \notin probePeers
    /\ probe[p].noMoreSpillInput /\ probe[p].pending = None
    /\ IF NeedLastProbe(p) /\ probe[p].last
       THEN Produce(BuildSideOutput(table)) ELSE UNCHANGED historyVars
    /\ probe' = IF HasMoreSpillData(p) THEN Restored(p)
                ELSE [probe EXCEPT ![p].state = "finish"]
    /\ IF probe[p].last /\ join.spill
       THEN /\ ProbeFinished /\ probePeers' = {}
            /\ table' = IF HasMoreSpillData(p) THEN {} ELSE table
       ELSE UNCHANGED <<bridgeVars, waiters, probePeers, table>>
    /\ UNCHANGED <<taskVars, build, buildPeers, arrived, reclaims>>

-----------------------------------------------------------------------------
(* HashJoinMemoryReclaimer::reclaim: one builder with its peers, one       *)
(* prober with its peers, and the bridge if that gave nothing              *)

Paused ==
    /\ running /\ reclaims > 0
    /\ \A b \in Builders : build[b].state # "post"
    /\ \A b \in Builders : build[b].state = "merge" => ~HasNullKeys
    /\ \A p \in Probers : probe[p].state \notin {"table", "noMoreInput"}

BuildReclaimable ==
    \A b \in Builders :
        build[b].state \in {"running", "waitForBuild", "merge"} /\ build[b].spiller

ReclaimBuild ==
    /\ Paused /\ BuildReclaimable
    /\ reclaims' = reclaims - 1
    /\ build' = [b \in Builders |->
          [build[b] EXCEPT !.disk = @ \cup build[b].table, !.table = {},
                           !.spilled = TRUE]]
    /\ UNCHANGED <<taskVars, bridgeVars, waiters, buildPeers, probe, probePeers,
                   arrived, table, historyVars>>

Unfinished == {p \in Probers : probe[p].state # "finish"}

(* nonReclaimableState of the operators and of their peers                 *)
ProbeReclaimable ==
    /\ join.spill /\ table # {} /\ Unfinished # {}
    /\ \A p \in Unfinished :
          /\ probe[p].state \in {"running", "waitForPeers"}
          /\ probe[p].ids = {} /\ probe[p].table = "current"
          /\ ~Exceeded(probe[p].level)

(* maybeSetupInputSpiller: nothing more will come for an operator that has *)
(* all of its input, but the peers' partitions must be there               *)
SetupInputSpiller(p, ids) ==
    [probe[p] EXCEPT
        !.pending = None, !.ids = ids,
        !.disk = IF probe[p].noMoreSpillInput
                 THEN Merge(@, [i \in ids |-> {}]) ELSE @]

MutTableToSpill == table

(* The table as it is spilled: after the output of the pending input       *)
TableToSpill == Probed(Unfinished)

ReclaimProbe ==
    LET more == \E p \in Unfinished : ~probe[p].noMoreSpillInput
        last == {p \in Unfinished : NeedLastProbe(p) /\ probe[p].last}
        level == probe[CHOOSE p \in Unfinished : TRUE].level
        new == IF more THEN Partitions(TableToSpill, level) ELSE <<>>
    IN
    /\ Paused /\ ~BuildReclaimable /\ ProbeReclaimable
    /\ reclaims' = reclaims - 1
    /\ Produce(Outputs(Unfinished) \cup
               (IF last # {} THEN BuildSideOutput(TableToSpill) ELSE {}))
    /\ parts' = Merge(parts, new)
    /\ probe' = [p \in Probers |-> IF p \in Unfinished
                    THEN SetupInputSpiller(p, DOMAIN new) ELSE probe[p]]
    /\ table' = {}
    /\ UNCHANGED <<taskVars, result, restoring, shards, probeStarted, spillFunc,
                   waiters, build, buildPeers, probePeers, arrived>>

(* HashJoinBridge::reclaim, before a prober has come for the table         *)
ReclaimBridge ==
    LET level == IF result.restored = None THEN 1 ELSE result.restored[1] + 1
        new == Partitions(table, level)
    IN
    /\ Paused /\ ~BuildReclaimable /\ ~ProbeReclaimable
    /\ spillFunc /\ result # None /\ table # {}
    /\ reclaims' = reclaims - 1
    /\ parts' = Merge(parts, new)
    /\ result' = [result EXCEPT !.ids = DOMAIN new]
    /\ table' = {}
    /\ UNCHANGED <<taskVars, restoring, shards, probeStarted, spillFunc, waiters,
                   build, buildPeers, probe, probePeers, arrived, historyVars>>

-----------------------------------------------------------------------------
(* Task::terminate after an error: the drivers that are not on a thread    *)
(* are closed, then the bridge is cancelled.  The others are closed when   *)
(* they leave their thread.                                                *)

OnThread ==
    {b \in Builders : build[b].state \in {"running", "merge", "post"}}
        \cup {p \in Probers : probe[p].state \in {"running", "table", "noMoreInput"}}

CloseAll(stay) ==
    /\ build' = [b \in Builders |-> IF b \in stay THEN build[b]
                    ELSE [build[b] EXCEPT !.state = "closed"]]
    /\ probe' = [p \in Probers |-> IF p \in stay THEN probe[p]
                    ELSE [probe[p] EXCEPT !.state = "closed"]]

Terminate(stay) ==
    /\ running /\ join.abort
    /\ running' = FALSE
    /\ CloseAll(stay)
    /\ UNCHANGED <<join, cancelled, bridgeVars, waiters, buildPeers, probePeers,
                   arrived, table, historyVars, reclaims>>

Cancel ==
    /\ ~running /\ ~cancelled
    /\ cancelled' = TRUE
    /\ waiters' = {} /\ buildPeers' = {} /\ arrived' = {}
    /\ UNCHANGED <<join, running, bridgeVars, build, probe, probePeers, table,
                   historyVars, reclaims>>

Close(d) ==
    /\ ~running /\ d \notin waiters
    /\ \/ d \in Builders /\ ~Closed(d)
       \/ d \in Probers /\ probe[d].state # "closed"
    /\ CloseAll((Builders \cup Probers) \ {d})
    /\ UNCHANGED <<taskVars, bridgeVars, waiters, buildPeers, probePeers, arrived,
                   table, historyVars, reclaims>>

-----------------------------------------------------------------------------
Init ==
    /\ join \in Joins
    /\ running = TRUE /\ cancelled = FALSE
    /\ result = None /\ restoring = None /\ shards = <<>> /\ parts = <<>>
    /\ waiters = {} /\ probeStarted = FALSE /\ spillFunc = FALSE
    /\ build = [b \in Builders |->
          NewBuild(1, [i \in DOMAIN join.build[b] |->
              [builder |-> b, key |-> join.build[b][i], probed |-> FALSE]])]
    /\ buildPeers = {} /\ probePeers = {} /\ arrived = {}
    /\ probe = [p \in Probers |->
          [state |-> "waitForBuild", input |-> join.probe[p], pending |-> None,
           table |-> "none", ids |-> {}, disk |-> <<>>, spilled |-> {},
           reader |-> FALSE, noMoreSpillInput |-> FALSE, last |-> FALSE,
           level |-> 1, skip |-> FALSE]]
    /\ table = {} /\ output = {} /\ repeated = FALSE
    /\ reclaims = join.reclaims

BuildStep(b) ==
    \/ AddBuildInput(b) \/ FinishHashBuild(b)
    \/ MergeTables(b) \/ PostHashBuildProcess(b)

ProbeStep(p) ==
    \/ TableOrFuture(p) \/ AddProbeInput(p) \/ GetOutput(p)
    \/ NoMoreProbeInput(p) \/ EndProbe(p)

Next ==
    \/ \E b \in Builders : BuildStep(b)
    \/ \E p \in Probers : ProbeStep(p)
    \/ ReclaimBuild \/ ReclaimProbe \/ ReclaimBridge
    \/ \E stay \in SUBSET OnThread : Terminate(stay)
    \/ Cancel
    \/ \E d \in Builders \cup Probers : Close(d)

(* The executor runs every driver that is not blocked                      *)
Spec ==
    /\ Init /\ [][Next]_vars
    /\ \A b \in Builders : WF_vars(BuildStep(b))
    /\ \A p \in Probers : WF_vars(ProbeStep(p))

-----------------------------------------------------------------------------
Finished ==
    /\ \A b \in Builders : build[b].state = "finish"
    /\ \A p \in Probers : probe[p].state = "finish"

Rows(seqs) == UNION {{<<d, k>> : k \in Range(seqs[d])} : d \in DOMAIN seqs}

(* The rows of the result, from the inputs                                 *)
Expected ==
    LET B == Rows(join.build)
        P == Rows(join.probe)
        pairs == {<<p[1], p[2], b[1]>> : p \in P, b \in B}
    IN CASE join.kind = "anti" ->
              IF \E b \in B : b[2] = Null THEN {}
              ELSE {<<p[1], p[2], None>> : p \in {q \in P : \A b \in B : b[2] # q[2]}}
         [] OTHER ->
              {x \in pairs : <<x[3], x[2]>> \in B /\ <<x[1], x[2]>> \in P}
              \cup IF join.kind = "inner" THEN {}
                   ELSE {<<None, b[2], b[1]>> : b \in {c \in B : \A p \in P : p[2] # c[2]}}

(* However often and whenever the build side, the probe side or the bridge *)
(* is spilled, the rounds of the join return each row of the result once,  *)
(* no other row, and all of them in the end.                               *)
JoinResult ==
    /\ ~repeated
    /\ output \subseteq Expected
    /\ Finished => output = Expected

(* No operator finds the bridge, or its own spilled partitions, in a state *)
(* that the checks of the operation it is about to call exclude            *)
(* (VELOX_CHECK in HashJoinBridge.cpp, maybeSetupSpillInputReader and the  *)
(* duplicate partitions of appendSpilledHashTablePartitionsLocked).        *)
HandoverChecks ==
    running =>
    /\ \A b \in Builders :
          /\ build[b].state = "merge" =>
                BuildChecks /\ {Id(r.key, build[b].level) : r \in AllSpilled}
                                    \cap DOMAIN parts = {}
          /\ BuildAwake(b) /\ join.spill => InputChecks
    /\ \A p \in Probers :
          /\ ProbeAwake(p) =>
                /\ ProbeChecks
                /\ result # None /\ result.restored # None
                      => result.restored \in DOMAIN probe[p].disk
          /\ probe[p].last /\ join.spill /\ probe[p].state = "running" => FinishChecks
    /\ probeStarted => ~spillFunc

(* Unless the task fails the join ends: the operators of the two pipelines *)
(* never all wait for each other, at the barriers or at the bridge, and no *)
(* number of spilled partitions makes the rounds go on for ever.           *)
JoinFinishes == <>(Finished \/ ~running)

(* Once the bridge of a failed task is cancelled nobody waits for it: an   *)
(* operator that comes late is told (the check of cancelled_ in            *)
(* tableOrFuture and spillInputOrFuture).                                  *)
CancelReleases == cancelled => waiters = {}
=============================================================================
