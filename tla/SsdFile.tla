------------------------------ MODULE SsdFile ------------------------------
(* A shard of the SSD cache: regions, pins and eviction, checkpoints, the   *)
(* eviction log, and recovery from them after a crash of the process.       *)
(* All entries have the size 1.  What holds the mutex is one step, except   *)
(* that a crash may come between the file operations of a checkpoint.       *)
EXTENDS Integers, Sequences, FiniteSets, FiniteSetsExt, Functions

CONSTANTS NumKeys,              \* entries of files to cache: 1..NumKeys
          Shapes,               \* the regions of a file and their size
          NumCandidates,        \* regions to evict at a time
          CheckpointInterval    \* checkpointIntervalBytes_

ASSUME SsdFileAssumption ==
    /\ {NumKeys, NumCandidates, CheckpointInterval} \subseteq Nat \ {0}
    /\ \A s \in Shapes : {s.maxRegions, s.regionSize} \subseteq Nat \ {0}

VARIABLES
    shape,                      \* chosen once
    disk, fileSize,             \* the cache file, its size in regions
    cpt, log,                   \* the checkpoint file and the eviction log
    numRegions, writable, regionSizes, erased, suspended, entries,
    enabled, cptOpen,           \* checkpoints are on, checkpointWriteFile_
    bytesAfter,                 \* bytesAfterCheckpoint_, up to the interval
    pins,                       \* <<key, run>> that loads have pinned
    step, batch, space,         \* the write in progress
    known                       \* what has gone wrong with the log

files == <<disk, fileSize, cpt, log>>
regions == <<numRegions, writable, regionSizes, erased, suspended, entries>>
writes == <<step, batch, space>>
switches == <<shape, enabled, cptOpen, bytesAfter>>
vars == <<files, regions, switches, pins, writes, known>>

Keys == 1..NumKeys
MaxRegions == shape.maxRegions
RegionSize == shape.regionSize      \* kRegionSize
Regions == 0..(MaxRegions - 1)
Runs == Regions \X (0..(RegionSize - 1))
Nothing == 0                    \* what a new region holds

(* The elements of S in any order, and in ascending order                  *)
Numberings(S) == {q \in [1..Cardinality(S) -> S] : IsInjective(q)}
Ascending(S) == {q \in Numberings(S) : \A i, j \in DOMAIN q : i < j => q[i] < q[j]}

DiskAt(run) == disk[run[1]][run[2]]
RegionPins(r) == Cardinality({p \in pins : p[2][1] = r})

(* The mutex is free: no checkpoint is being made                          *)
Unlocked == step \notin {"truncate", "append", "end", "log", "deleteLog", "delete"}

-----------------------------------------------------------------------------
(* Eviction                                                                *)

(* The record is written at the start of the log, over what is there       *)
LogEviction(rs) == rs \o SubSeq(log, Len(rs) + 1, Len(log))

(* Entries of regions rs are forgotten, the regions are empty              *)
Cleared(es, rs) == [k \in {k \in DOMAIN es : es[k][1] \notin rs} |-> es[k]]
Emptied(sizes, rs) == [r \in Regions |-> IF r \in rs THEN 0 ELSE sizes[r]]

Evict(rs, es, er) ==
    /\ log' = IF enabled THEN LogEviction(rs) ELSE log
    /\ known' = IF enabled /\ ~(Range(log) \subseteq Range(log'))
                THEN known \union {"overwritten"} ELSE known
    /\ entries' = Cleared(es, Range(rs))
    /\ regionSizes' = Emptied(regionSizes, Range(rs))
    /\ erased' = Emptied(er, Range(rs))

MutEvictable(ps) == Regions

Evictable(ps) == {r \in Regions : ~\E p \in ps : p[2][1] = r}

(* growOrEvictLocked: the file grows (truncate can also cut it) ..         *)
Grow ==
    /\ numRegions < MaxRegions
    /\ disk' = [r \in Regions |-> IF r <= numRegions /\ r < fileSize THEN disk[r]
                                  ELSE [i \in 0..(RegionSize - 1) |-> Nothing]]
    /\ fileSize' = numRegions + 1
    /\ writable' = Append(writable, numRegions)
    /\ regionSizes' = [regionSizes EXCEPT ![numRegions] = 0]
    /\ erased' = [erased EXCEPT ![numRegions] = 0]
    /\ numRegions' = numRegions + 1
    /\ UNCHANGED <<log, suspended, entries, known>>

(* .. or regions that are not pinned are evicted: any of them, the scores  *)
(* depend on the loads ..                                                  *)
EvictSome(ps) ==
    /\ numRegions = MaxRegions
    /\ \E n \in 1..NumCandidates :
          \E rs \in {q \in [1..n -> Evictable(ps)] : IsInjective(q)} :
              Evict(rs, entries, erased) /\ writable' = rs
    /\ suspended' = FALSE
    /\ UNCHANGED <<disk, fileSize, numRegions>>

(* .. or there are none                                                    *)
Suspend(ps) ==
    /\ numRegions = MaxRegions /\ Evictable(ps) = {}
    /\ suspended' = TRUE
    /\ UNCHANGED <<disk, fileSize, log, numRegions, writable, regionSizes,
                   erased, entries, known>>

GrowOrEvict(ps) == Grow \/ EvictSome(ps) \/ Suspend(ps)

-----------------------------------------------------------------------------
(* Loads                                                                   *)

(* find: an entry is pinned; SsdFile::load then reads it                   *)
Find(k) ==
    /\ Unlocked /\ ~suspended /\ k \in DOMAIN entries
    /\ <<k, entries[k]>> \notin pins
    /\ pins' = pins \union {<<k, entries[k]>>}
    /\ UNCHANGED <<files, regions, switches, writes, known>>

(* erase, after a load has failed and before its pin is given back: the    *)
(* size of the entry is not counted as erased from its region.             *)
Erase(p) ==
    /\ Unlocked /\ p[1] \in DOMAIN entries
    /\ entries' = [k \in DOMAIN entries \ {p[1]} |-> entries[k]]
    /\ UNCHANGED <<files, numRegions, writable, suspended, regionSizes, erased,
                   switches, writes, pins, known>>

MutResumes(p) == FALSE

Resumes(p) == suspended /\ RegionPins(p[2][1]) = 1

(* unpinRegion, when the load is done                                      *)
Unpin(p) ==
    /\ Unlocked
    /\ pins' = pins \ {p}
    /\ \/ /\ Resumes(p)
          /\ GrowOrEvict(pins')
       \/ /\ ~Resumes(p)
          /\ UNCHANGED <<disk, fileSize, log, regions, known>>
    /\ UNCHANGED <<cpt, switches, writes>>

-----------------------------------------------------------------------------
(* Writes.  SsdCache::startWrite lets one at a time, or one removal of     *)
(* files, or a forced checkpoint                                           *)

StartWrite(ks) ==
    /\ step = "idle"
    /\ step' = "getSpace"
    /\ batch' \in Ascending(ks)
    /\ UNCHANGED <<files, regions, switches, pins, space, known>>

(* getSpace takes what is left of the first writable region ..             *)
GetSpace ==
    /\ step = "getSpace" /\ batch # <<>> /\ writable # <<>>
    /\ LET r == Head(writable)
           n == IF Len(batch) < RegionSize - regionSizes[r]
                THEN Len(batch) ELSE RegionSize - regionSizes[r]
       IN \/ /\ n > 0
             /\ space' = [region |-> r, offset |-> regionSizes[r], size |-> n]
             /\ regionSizes' = [regionSizes EXCEPT ![r] = @ + n]
             /\ step' = "write"
             /\ UNCHANGED writable
          \/ /\ n = 0
             /\ writable' = Tail(writable)
             /\ UNCHANGED <<space, regionSizes, step>>
    /\ UNCHANGED <<files, numRegions, erased, suspended, entries, switches,
                   pins, batch, known>>

(* .. or makes room; without any the rest of the write is dropped          *)
MakeSpace ==
    /\ step = "getSpace" /\ batch # <<>> /\ writable = <<>>
    /\ GrowOrEvict(pins)
    /\ step' = IF suspended' THEN "idle" ELSE step
    /\ batch' = IF suspended' THEN <<>> ELSE batch
    /\ UNCHANGED <<cpt, switches, pins, space>>

(* The data goes to the file without the mutex, or the write fails         *)
WriteData ==
    /\ step = "write"
    /\ \/ /\ disk' = [disk EXCEPT ![space.region] =
                        [i \in DOMAIN @ |->
                            IF i \in space.offset..(space.offset + space.size - 1)
                            THEN batch[i - space.offset + 1] ELSE @[i]]]
          /\ step' = "publish"
          /\ UNCHANGED batch
       \/ /\ step' = "idle" /\ batch' = <<>>
          /\ UNCHANGED disk
    /\ UNCHANGED <<fileSize, cpt, log, regions, switches, pins, space, known>>

Publish ==
    /\ step = "publish"
    /\ entries' = [k \in DOMAIN entries \union Range(SubSeq(batch, 1, space.size)) |->
                     IF \E i \in 1..space.size : batch[i] = k
                     THEN <<space.region, space.offset +
                            (CHOOSE i \in 1..space.size : batch[i] = k) - 1>>
                     ELSE entries[k]]
    /\ bytesAfter' = IF bytesAfter + space.size < CheckpointInterval
                     THEN bytesAfter + space.size ELSE CheckpointInterval
    /\ batch' = SubSeq(batch, space.size + 1, Len(batch))
    /\ step' = "getSpace"
    /\ UNCHANGED <<files, numRegions, writable, regionSizes, erased, suspended,
                   shape, enabled, cptOpen, pins, space, known>>

(* removeFileEntries: entries in pinned regions stay; a region of which    *)
(* more than half has been erased is freed                                 *)
RemoveFileEntries(ks) ==
    /\ step = "idle"
    /\ LET gone == {k \in ks \intersect DOMAIN entries : RegionPins(entries[k][1]) = 0}
           left == [k \in DOMAIN entries \ gone |-> entries[k]]
           lost == [r \in Regions |->
                      erased[r] + Cardinality({k \in gone : entries[k][1] = r})]
           toFree == {r \in 0..(numRegions - 1) :
                        RegionPins(r) = 0 /\ lost[r] > (regionSizes[r] * 50) \div 100}
       IN /\ gone # {}
          /\ \/ /\ toFree = {}
                /\ entries' = left /\ erased' = lost
                /\ UNCHANGED <<log, known, regionSizes, writable>>
             \/ /\ toFree # {}
                /\ \E rs \in Ascending(toFree) : Evict(rs, left, lost)
                /\ \E new \in Ascending(toFree \ Range(writable)) :
                      writable' = writable \o new
    /\ UNCHANGED <<disk, fileSize, cpt, numRegions, suspended, switches, pins,
                   writes>>

-----------------------------------------------------------------------------
(* Checkpoints, with the mutex held throughout                             *)

NeedCheckpoint == enabled /\ bytesAfter >= CheckpointInterval

(* After a write, or because SsdCache::checkpoint or shutdown forces it    *)
FinishWrite ==
    /\ step = "getSpace" /\ batch = <<>>
    /\ \/ NeedCheckpoint /\ step' = "truncate" /\ bytesAfter' = 0
       \/ ~NeedCheckpoint /\ step' = "idle" /\ UNCHANGED bytesAfter
    /\ UNCHANGED <<files, regions, shape, enabled, cptOpen, pins, batch, space, known>>

ForceCheckpoint ==
    /\ step = "idle" /\ enabled
    /\ step' = "truncate" /\ bytesAfter' = 0
    /\ UNCHANGED <<files, regions, shape, enabled, cptOpen, pins, batch, space, known>>

NoCheckpoint == [state |-> "empty", numRegions |-> 0, entries |-> <<>>]

Truncate ==
    /\ step = "truncate"
    /\ \/ cptOpen /\ step' = "append" /\ cpt' = NoCheckpoint
       \/ ~cptOpen /\ step' = "deleteLog" /\ UNCHANGED cpt
    /\ UNCHANGED <<disk, fileSize, log, regions, switches, pins, batch, space, known>>

(* The buffers are appended, then the end marker, or a write fails         *)
AppendBuffers ==
    /\ step = "append"
    /\ cpt' = [state |-> "partial", numRegions |-> numRegions, entries |-> entries]
    /\ step' \in {"end", "deleteLog"}
    /\ UNCHANGED <<disk, fileSize, log, regions, switches, pins, batch, space, known>>

AppendEnd ==
    /\ step = "end"
    /\ \/ cpt' = [cpt EXCEPT !.state = "complete"] /\ step' = "log"
       \/ UNCHANGED cpt /\ step' = "deleteLog"
    /\ UNCHANGED <<disk, fileSize, log, regions, switches, pins, batch, space, known>>

TruncateLog ==
    /\ step = "log"
    /\ log' = <<>>
    /\ step' = "idle"
    /\ UNCHANGED <<disk, fileSize, cpt, regions, switches, pins, batch, space, known>>

(* checkpointError: both files are deleted, no more checkpoints are made   *)
DeleteLog ==
    /\ step = "deleteLog"
    /\ log' = <<>>
    /\ step' = "delete"
    /\ UNCHANGED <<disk, fileSize, cpt, regions, switches, pins, batch, space, known>>

DeleteCheckpoint ==
    /\ step = "delete"
    /\ cpt' = NoCheckpoint /\ cptOpen' = FALSE /\ enabled' = FALSE
    /\ step' = "idle"
    /\ UNCHANGED <<disk, fileSize, log, regions, shape, bytesAfter, pins, batch, space, known>>

-----------------------------------------------------------------------------
(* The process crashes and starts again                                    *)

MaxSize(es, r) ==
    LET used == {es[k][2] + 1 : k \in {k \in DOMAIN es : es[k][1] = r}}
    IN IF used = {} THEN 0 ELSE Max(used)

MutRecovered(es, rs) == es

(* Entries of regions in the log are not recovered                         *)
Recovered(es, rs) == Cleared(es, rs)

(* readCheckpoint of a complete checkpoint                                 *)
ReadCheckpoint ==
    /\ cpt.state = "complete"
    /\ numRegions' = cpt.numRegions
    /\ entries' = Recovered(cpt.entries, Range(log))
    /\ regionSizes' = [r \in Regions |-> MaxSize(entries', r)]
    /\ erased' = [r \in Regions |-> regionSizes'[r] -
                    Cardinality({k \in DOMAIN entries' : entries'[k][1] = r})]
    /\ writable' \in Numberings(Range(log))
    /\ cptOpen' = TRUE
    /\ UNCHANGED <<cpt, log>>

AllRegions == [i \in 1..fileSize |-> i - 1]

(* There is none, or it ends early: some of it may have been read          *)
NoRecovery ==
    /\ \/ /\ cpt.state = "empty"
          /\ numRegions' = fileSize /\ regionSizes' = [r \in Regions |-> 0]
          /\ cptOpen' = TRUE
          /\ UNCHANGED <<cpt, log>>
       \/ /\ cpt.state = "partial"
          /\ \/ numRegions' = fileSize /\ regionSizes' = [r \in Regions |-> 0]
             \/ /\ numRegions' = cpt.numRegions
                /\ regionSizes' = [r \in Regions |->
                        MaxSize(Recovered(cpt.entries, Range(log)), r)]
          /\ cptOpen' = FALSE /\ cpt' = NoCheckpoint /\ log' = <<>>
    /\ entries' = <<>>
    /\ erased' = [r \in Regions |-> 0]
    /\ writable' = AllRegions

Restart ==
    /\ ReadCheckpoint \/ NoRecovery
    /\ known' = IF \E r \in Range(writable') : r >= numRegions'
                THEN known \union {"beyond"} ELSE known
    /\ suspended' = FALSE /\ enabled' = TRUE /\ bytesAfter' = 0
    /\ pins' = {} /\ step' = "idle" /\ batch' = <<>>
    /\ UNCHANGED <<shape, disk, fileSize, space>>

-----------------------------------------------------------------------------
Init ==
    /\ shape \in Shapes
    /\ disk = [r \in Regions |-> [i \in 0..(RegionSize - 1) |-> Nothing]]
    /\ fileSize = 0 /\ cpt = NoCheckpoint /\ log = <<>>
    /\ numRegions = 0 /\ writable = <<>> /\ entries = <<>> /\ suspended = FALSE
    /\ regionSizes = [r \in Regions |-> 0]
    /\ erased = [r \in Regions |-> 0]
    /\ enabled = TRUE /\ cptOpen = TRUE /\ bytesAfter = 0
    /\ pins = {} /\ known = {}
    /\ step = "idle" /\ batch = <<>>
    /\ space = [region |-> 0, offset |-> 0, size |-> 0]

Next ==
    \/ \E k \in Keys : Find(k)
    \/ \E p \in pins : Unpin(p) \/ Erase(p)
    \/ \E ks \in SUBSET Keys \ {{}} : StartWrite(ks) \/ RemoveFileEntries(ks)
    \/ GetSpace \/ MakeSpace \/ WriteData \/ Publish \/ FinishWrite
    \/ ForceCheckpoint \/ Truncate \/ AppendBuffers \/ AppendEnd \/ TruncateLog
    \/ DeleteLog \/ DeleteCheckpoint
    \/ Restart

Spec == Init /\ [][Next]_vars

-----------------------------------------------------------------------------
EntryFresh(k) == DiskAt(entries[k]) = k

(* What a load finds on the SSD is the data of its key, also after crashes *)
(* at any moment, as long as no record of the eviction log has been        *)
(* overwritten and no region in use is beyond the recovered ones.          *)
EntriesFresh == known = {} => \A k \in DOMAIN entries : EntryFresh(k)

(* A region is not written while it is pinned: loads read their own data.  *)
PinnedData == known = {} => \A p \in pins : DiskAt(p[2]) = p[1]

(* The cache stops serving only while every region is pinned, so that      *)
(* removeFileEntries, which frees regions, finds it not suspended.         *)
SuspendedPinned == suspended => \A r \in 0..(numRegions - 1) : RegionPins(r) > 0

(* checkpoint truncates the log last, "so that we never recover from an    *)
(* old checkpoint file without log evictions".                             *)
RecoversEvictions ==
    "beyond" \notin known => \A k \in DOMAIN entries : EntryFresh(k)
============================================================================
