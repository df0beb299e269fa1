------------------------------ MODULE DataCache ------------------------------
(* A shard of the memory cache of file data, AsyncDataCache: threads that    *)
(* look up entries and load what is missing, one entry at a time             *)
(* (CacheInputStream::loadSync) or several (CoalescedLoad), threads that     *)
(* need memory and evict entries to get it (makeSpace), the write of entries *)
(* to SSD, the removal of files, shrink().                                   *)
(* A step is a critical section of the shard's mutex, a change of the atomic *)
(* numPins_, or what a thread does in between.  A large entry takes one page *)
(* of the allocator, a tiny one none.  Scores are left open.                 *)
EXTENDS Integers, Sequences, FiniteSets, FiniteSetsExt, TLC

CONSTANTS Threads,
          NumKeys,      \* one key for each file
          MaxEntries,   \* entries that exist at a time
          NumShards,    \* kNumShards; the other shards are empty
          Plans         \* pages of the allocator, what each thread asks for

VARIABLES
    plan,               \* chosen once
    entryMap, entries,  \* entryMap_ (0 for none), entries_
    allocated,          \* pages given out by the allocator
    threads,            \* where each thread is and what it holds
    load,               \* the CoalescedLoad: its state and who waits for it
    ssd,                \* the write to SSD: phase, slots it has pinned
    shrunk              \* pages of evicted entries that shrink() must free

cacheVars == <<entryMap, entries>>
vars == <<plan, cacheVars, allocated, threads, load, ssd, shrunk>>

Keys == 1..NumKeys
Slots == 1..MaxEntries
None == 0
kExclusive == -1

Tiny == 1               \* below kTinyDataSize
Large == 2
Larger == 3

FreeEntry == [live |-> FALSE, key |-> None, size |-> 0, numPins |-> 0, page |-> 0,
              content |-> None, promise |-> {}, ssdFile |-> FALSE, ssdSaveable |-> FALSE]

Idle == [pc |-> "idle", next |-> 1, key |-> None, size |-> 0, entry |-> None,
         owned |-> {}, pinned |-> {}, todo |-> {}, attempt |-> 0, acquired |-> 0,
         toFree |-> 0, failed |-> FALSE, loads |-> FALSE]

-----------------------------------------------------------------------------
(* Threads                                                                 *)

Capacity == plan.pages

Request(t) == plan.asks[t][threads[t].next]

At(t, pc) == threads[t].pc = pc

Go(t, changes) == threads' = [threads EXCEPT ![t] = changes @@ @]

(* The threads of ws stop waiting and try again; t goes on                 *)
WakeAndGo(t, ws, changes) ==
    threads' = [u \in Threads |-> IF u = t THEN changes @@ threads[t]
                                  ELSE IF u \in ws THEN [threads[u] EXCEPT !.pc = "find"]
                                  ELSE threads[u]]

AfterRequest(t) == [Idle EXCEPT !.next = threads[t].next + 1]

(* loadPosition, the executor's call of loadOrFuture, an allocation        *)
Start(t) ==
    /\ At(t, "idle") /\ threads[t].next <= Len(plan.asks[t])
    /\ Go(t, CASE Request(t).how = "sync" -> [pc |-> "find"]
               [] Request(t).how = "memory" -> [pc |-> "try"]
               [] OTHER -> [pc |-> "load"])
    /\ UNCHANGED <<plan, cacheVars, allocated, load, ssd, shrunk>>

-----------------------------------------------------------------------------
(* findOrCreate                                                            *)

Exclusive(e) == entries[e].numPins = kExclusive

Found(k) == entryMap[k] # None

Hit(k, size) == Found(k) /\ ~Exclusive(entryMap[k]) /\ entries[entryMap[k]].size >= size

Busy(k) == Found(k) /\ Exclusive(entryMap[k])

MutSuperseded(k) == entries

(* Readers of an entry that is too small keep their pins on it             *)
Superseded(k) ==
    IF Found(k) THEN [entries EXCEPT ![entryMap[k]].key = None] ELSE entries

(* A new entry, for the calling thread only; its key is set later          *)
Create(t, k, size, changes) ==
    /\ ~Hit(k, size) /\ ~Busy(k)
    /\ \E e \in Slots :
          /\ ~entries[e].live /\ \A f \in 1..(e - 1) : entries[f].live
          /\ entries' = [Superseded(k) EXCEPT ![e] =
                [FreeEntry EXCEPT !.live = TRUE, !.numPins = kExclusive, !.size = size]]
          /\ entryMap' = [entryMap EXCEPT ![k] = e]
          /\ Go(t, changes @@ [pc |-> "initialize", key |-> k, size |-> size, entry |-> e])

FindOrCreate(t) ==
    /\ At(t, "find")
    /\ LET k == Request(t).key
           size == Request(t).size
           e == entryMap[k]
       IN \/ /\ Busy(k)
             /\ entries' = [entries EXCEPT ![e].promise = @ \union {t}]
             /\ Go(t, [pc |-> "wait"])
             /\ UNCHANGED entryMap
          \/ /\ Hit(k, size)
             /\ entries' = [entries EXCEPT ![e].numPins = @ + 1]
             /\ Go(t, [pc |-> "read", pinned |-> {e}])
             /\ UNCHANGED entryMap
          \/ Create(t, k, size, <<>>)
    /\ UNCHANGED <<plan, allocated, load, ssd, shrunk>>

(* makePins: an entry that is there or being loaded is left out            *)
MakePins(t) ==
    /\ At(t, "pins") /\ threads[t].todo # {}
    /\ LET k == Min(threads[t].todo)
           rest == [todo |-> threads[t].todo \ {k}]
       IN \/ /\ Busy(k) \/ Hit(k, Large)
             /\ Go(t, rest)
             /\ UNCHANGED cacheVars
          \/ Create(t, k, Large, rest)
    /\ UNCHANGED <<plan, allocated, load, ssd, shrunk>>

PinsMade(t) ==
    /\ At(t, "pins") /\ threads[t].todo = {}
    /\ Go(t, [pc |-> IF threads[t].owned = {} THEN "endLoad" ELSE "io"])
    /\ UNCHANGED <<plan, cacheVars, allocated, load, ssd, shrunk>>

-----------------------------------------------------------------------------
(* initialize, which may have to make space                                *)

(* The entry is the thread's to fill                                       *)
Initialized(t) ==
    [pc |-> IF threads[t].loads THEN "pins" ELSE "io",
     owned |-> threads[t].owned \union {threads[t].entry}, attempt |-> 0]

Initialize(t) ==
    /\ At(t, "initialize")
    /\ entries' = [entries EXCEPT ![threads[t].entry].key = threads[t].key]
    /\ Go(t, IF threads[t].size = Tiny THEN Initialized(t) ELSE [pc |-> "try"])
    /\ UNCHANGED <<plan, entryMap, allocated, load, ssd, shrunk>>

(* makeSpace.  canTryAllocate; the pages it has acquired are freed before  *)
(* it allocates                                                            *)
Try(t) ==
    /\ At(t, "try")
    /\ LET left == allocated - threads[t].toFree
           can == threads[t].acquired = 1 \/ left < Capacity
       IN /\ allocated' = left - (IF can THEN threads[t].acquired ELSE 0)
          /\ Go(t, [pc |-> IF can THEN "allocate" ELSE "evict", toFree |-> 0,
                    acquired |-> IF can THEN 0 ELSE threads[t].acquired])
    /\ UNCHANGED <<plan, cacheVars, load, ssd, shrunk>>

Allocate(t) ==
    /\ At(t, "allocate")
    /\ \/ /\ allocated < Capacity
          /\ allocated' = allocated + 1
          /\ \/ /\ Request(t).how = "memory"
                /\ Go(t, [pc |-> "use"])
                /\ UNCHANGED entries
             \/ /\ Request(t).how # "memory"
                /\ entries' = [entries EXCEPT ![threads[t].entry].page = 1]
                /\ Go(t, Initialized(t))
       \/ /\ allocated >= Capacity
          /\ Go(t, [pc |-> "evict"])
          /\ UNCHANGED <<entries, allocated>>
    /\ UNCHANGED <<plan, entryMap, load, ssd, shrunk>>

MutEvictable(e) == entries[e].live /\ entries[e].numPins \in {0, 1}

Evictable(e) == entries[e].live /\ entries[e].numPins = 0

(* What an eviction may choose.  Entries that wait to be saved are skipped *)
(* during a write to SSD, except in the end.                               *)
Victims(all) ==
    LET es == {e \in Slots : Evictable(e)}
    IN IF all THEN {es}
       ELSE SUBSET {e \in es : ssd.phase = "none" \/ ~entries[e].ssdSaveable}

(* removeEntryLocked of each of es; the map finds them by their key        *)
Removed(es) == [k \in Keys |-> IF \E e \in es : entries[e].key = k THEN None ELSE entryMap[k]]

Freed(es) == [e \in Slots |-> IF e \in es THEN FreeEntry ELSE entries[e]]

Pages(es) == Cardinality({e \in es : entries[e].page = 1})

(* Attempts to make space, after which makeSpace gives up                  *)
MaxAttempts == 4 * NumShards

(* evict, into acquired as long as that is too little.  When threads       *)
(* contend, what was acquired is freed first.                              *)
Evict(t) ==
    /\ At(t, "evict")
    /\ \E es \in Victims(threads[t].attempt >= NumShards), kept \in {0, threads[t].acquired} :
          LET pages == Pages(es)
              taken == IF kept = 0 /\ pages > 0 THEN 1 ELSE 0
              last == threads[t].attempt + 1 = MaxAttempts
          IN /\ entryMap' = Removed(es)
             /\ entries' = Freed(es)
             /\ allocated' = allocated - (threads[t].acquired - kept)
             /\ Go(t, [pc |-> IF last THEN "giveUp" ELSE "try",
                       attempt |-> threads[t].attempt + 1,
                       acquired |-> kept + taken, toFree |-> pages - taken])
    /\ UNCHANGED <<plan, load, ssd, shrunk>>

MutReturned(t) == threads[t].toFree

Returned(t) == threads[t].toFree + threads[t].acquired

(* The guard frees what was acquired; the caller has no memory             *)
GiveUp(t) ==
    /\ At(t, "giveUp")
    /\ allocated' = allocated - Returned(t)
    /\ Go(t, IF Request(t).how = "memory" THEN AfterRequest(t)
             ELSE [pc |-> "release", acquired |-> 0, toFree |-> 0, attempt |-> 0,
                   failed |-> TRUE, owned |-> threads[t].owned \union {threads[t].entry}])
    /\ UNCHANGED <<plan, cacheVars, load, ssd, shrunk>>

Use(t) ==
    /\ At(t, "use")
    /\ allocated' = allocated - 1
    /\ Go(t, AfterRequest(t))
    /\ UNCHANGED <<plan, cacheVars, load, ssd, shrunk>>

-----------------------------------------------------------------------------
(* Loading                                                                 *)

(* The data comes from SSD or from storage, for all the entries or none    *)
Read(t) ==
    /\ At(t, "io")
    /\ \/ \E fromSsd \in BOOLEAN :
             /\ entries' = [e \in Slots |-> IF e \in threads[t].owned
                   THEN [entries[e] EXCEPT !.content = entries[e].key, !.ssdFile = fromSsd]
                   ELSE entries[e]]
             /\ Go(t, [pc |-> "share"])
       \/ /\ Go(t, [pc |-> "release", failed |-> TRUE])
          /\ UNCHANGED entries
    /\ UNCHANGED <<plan, entryMap, allocated, load, ssd, shrunk>>

(* setExclusiveToShared first opens the entry to readers ..                *)
Share(t) ==
    /\ At(t, "share") /\ threads[t].owned # {}
    /\ LET e == Min(threads[t].owned)
       IN /\ entries' = [entries EXCEPT ![e].numPins = 1]
          /\ Go(t, [pc |-> "fulfil", entry |-> e])
    /\ UNCHANGED <<plan, entryMap, allocated, load, ssd, shrunk>>

(* .. and then, in the mutex, takes the promise of those who wait for it   *)
Fulfil(t) ==
    /\ At(t, "fulfil")
    /\ LET e == threads[t].entry
       IN /\ \E b \in BOOLEAN :
                entries' = [entries EXCEPT ![e].promise = {},
                                           ![e].ssdSaveable = b /\ ~entries[e].ssdFile]
          /\ WakeAndGo(t, entries[e].promise,
                [pc |-> "share", owned |-> threads[t].owned \ {e},
                 pinned |-> threads[t].pinned \union {e}])
    /\ UNCHANGED <<plan, entryMap, allocated, load, ssd, shrunk>>

AllShared(t) ==
    /\ At(t, "share") /\ threads[t].owned = {}
    /\ Go(t, [pc |-> IF threads[t].loads THEN "endLoad" ELSE "read"])
    /\ UNCHANGED <<plan, cacheVars, allocated, load, ssd, shrunk>>

MutAbandoned(e) == {}

Abandoned(e) == entries[e].promise

(* release of an exclusive entry: its data could not be loaded.  It leaves *)
(* the map, the waiters try themselves ..                                  *)
Release(t) ==
    /\ At(t, "release") /\ threads[t].owned # {}
    /\ LET e == Min(threads[t].owned)
       IN /\ entryMap' = Removed({e})
          /\ allocated' = allocated - entries[e].page
          /\ entries' = [entries EXCEPT ![e] =
                [FreeEntry EXCEPT !.live = TRUE, !.numPins = kExclusive]]
          /\ WakeAndGo(t, Abandoned(e),
                [pc |-> "unpin", entry |-> e, owned |-> threads[t].owned \ {e}])
    /\ UNCHANGED <<plan, load, ssd, shrunk>>

(* .. and then it may be evicted                                           *)
Unpin(t) ==
    /\ At(t, "unpin")
    /\ entries' = [entries EXCEPT ![threads[t].entry].numPins = 0]
    /\ Go(t, IF threads[t].owned # {} THEN [pc |-> "release"]
             ELSE IF threads[t].loads THEN [pc |-> "endLoad"]
             ELSE AfterRequest(t))
    /\ UNCHANGED <<plan, entryMap, allocated, load, ssd, shrunk>>

(* The pins go one by one; the reader of a coalesced load then looks for   *)
(* its own entry                                                           *)
Done(t) == IF Request(t).how = "coalesced" /\ threads[t].loads
           THEN [AfterRequest(t) EXCEPT !.next = threads[t].next, !.pc = "find"]
           ELSE AfterRequest(t)

ReleaseShared(t) ==
    /\ At(t, "read") /\ threads[t].pinned # {}
    /\ LET e == Min(threads[t].pinned)
           rest == threads[t].pinned \ {e}
       IN /\ entries' = [entries EXCEPT ![e].numPins = @ - 1]
          /\ Go(t, IF rest = {} THEN Done(t) ELSE [pinned |-> rest])
    /\ UNCHANGED <<plan, entryMap, allocated, load, ssd, shrunk>>

-----------------------------------------------------------------------------
(* CoalescedLoad                                                           *)

LoadOrFuture(t) ==
    /\ At(t, "load")
    /\ \/ /\ load.state \in {"cancelled", "loaded"}
          /\ Go(t, IF Request(t).how = "prefetch" THEN AfterRequest(t) ELSE [pc |-> "find"])
          /\ UNCHANGED load
       \/ /\ load.state = "loading" /\ Request(t).how = "prefetch"
          /\ Go(t, AfterRequest(t))
          /\ UNCHANGED load
       \/ /\ load.state = "loading" /\ Request(t).how = "coalesced"
          /\ load' = [load EXCEPT !.waiters = @ \union {t}]
          /\ Go(t, [pc |-> "wait"])
       \/ /\ load.state = "planned"
          /\ load' = [load EXCEPT !.state = "loading"]
          /\ Go(t, [pc |-> "pins", todo |-> Keys, loads |-> TRUE])
    /\ UNCHANGED <<plan, cacheVars, allocated, ssd, shrunk>>

(* setEndState.  The error of a reader's load is logged: it will meet it   *)
(* again when it loads its own entry                                       *)
EndLoad(t) ==
    /\ At(t, "endLoad")
    /\ load' = [state |-> IF threads[t].failed THEN "cancelled" ELSE "loaded", waiters |-> {}]
    /\ WakeAndGo(t, load.waiters,
                 IF threads[t].pinned = {} THEN Done(t) ELSE [pc |-> "read"])
    /\ UNCHANGED <<plan, cacheVars, allocated, ssd, shrunk>>

(* The CachedBufferedInput that planned the load goes away                 *)
CancelLoad ==
    /\ load.state \in {"planned", "loading"}
    /\ load' = [state |-> "cancelled", waiters |-> {}]
    /\ threads' = [t \in Threads |-> IF t \in load.waiters
                                     THEN [threads[t] EXCEPT !.pc = "find"] ELSE threads[t]]
    /\ UNCHANGED <<plan, cacheVars, allocated, ssd, shrunk>>

-----------------------------------------------------------------------------
(* The cache's other users                                                 *)

(* saveToSsd, when enough entries are new: SsdCache::startWrite ..         *)
StartSave ==
    /\ ssd.phase = "none"
    /\ \E e \in Slots : entries[e].ssdSaveable
    /\ ssd' = [ssd EXCEPT !.phase = "append"]
    /\ UNCHANGED <<plan, cacheVars, allocated, threads, load, shrunk>>

(* .. then appendSsdSaveable pins entries, at most a share of them ..      *)
AppendSsdSaveable ==
    /\ ssd.phase = "append"
    /\ LET all == {e \in Slots : /\ entries[e].live /\ entries[e].ssdSaveable
                                 /\ ~Exclusive(e) /\ ~entries[e].ssdFile}
       IN \E es \in (IF all = {} THEN {{}} ELSE (SUBSET all) \ {{}}) :
             /\ entries' = [e \in Slots |-> IF e \in es
                   THEN [entries[e] EXCEPT !.numPins = @ + 1] ELSE entries[e]]
             /\ ssd' = [phase |-> "write", pins |-> es]
    /\ UNCHANGED <<plan, entryMap, allocated, threads, load, shrunk>>

(* .. and SsdFile::write writes them, or some, and gives up the pins       *)
WriteToSsd ==
    /\ ssd.phase = "write"
    /\ \E written \in SUBSET ssd.pins :
          entries' = [e \in Slots |-> IF e \in ssd.pins
             THEN [entries[e] EXCEPT !.numPins = @ - 1, !.ssdFile = @ \/ e \in written,
                                     !.ssdSaveable = @ /\ e \notin written]
             ELSE entries[e]]
    /\ ssd' = [phase |-> "none", pins |-> {}]
    /\ UNCHANGED <<plan, entryMap, allocated, threads, load, shrunk>>

(* removeFileEntries of one file, and shrink(): all that is not pinned.    *)
(* The pages are freed outside of the mutex.                               *)
RemoveAll(es) ==
    /\ es # {} /\ shrunk = 0
    /\ entryMap' = Removed(es)
    /\ entries' = Freed(es)
    /\ shrunk' = Pages(es)
    /\ UNCHANGED <<plan, allocated, threads, load, ssd>>

RemoveFileEntries(k) == RemoveAll({e \in Slots : Evictable(e) /\ entries[e].key = k})

Shrink == RemoveAll({e \in Slots : Evictable(e)})

FreeShrunk ==
    /\ shrunk > 0
    /\ allocated' = allocated - shrunk
    /\ shrunk' = 0
    /\ UNCHANGED <<plan, cacheVars, threads, load, ssd>>

-----------------------------------------------------------------------------
Init ==
    /\ plan \in Plans
    /\ entryMap = [k \in Keys |-> None]
    /\ entries = [e \in Slots |-> FreeEntry]
    /\ allocated = 0
    /\ threads = [t \in Threads |-> Idle]
    /\ load = [state |-> IF \E t \in Threads : \E n \in DOMAIN plan.asks[t] :
                                 plan.asks[t][n].how \in {"coalesced", "prefetch"}
                             THEN "planned" ELSE "cancelled", waiters |-> {}]
    /\ ssd = [phase |-> "none", pins |-> {}]
    /\ shrunk = 0

Thread(t) ==
    \/ Start(t) \/ FindOrCreate(t) \/ LoadOrFuture(t) \/ MakePins(t) \/ PinsMade(t)
    \/ Initialize(t) \/ Try(t) \/ Allocate(t) \/ Evict(t) \/ GiveUp(t) \/ Use(t)
    \/ Read(t) \/ Share(t) \/ Fulfil(t) \/ AllShared(t) \/ EndLoad(t)
    \/ Release(t) \/ Unpin(t) \/ ReleaseShared(t)

Next ==
    \/ \E t \in Threads : Thread(t)
    \/ CancelLoad
    \/ StartSave \/ AppendSsdSaveable \/ WriteToSsd
    \/ \E k \in Keys : RemoveFileEntries(k)
    \/ Shrink \/ FreeShrunk

(* Threads, the executor that writes to SSD among them, keep running       *)
Spec == Init /\ [][Next]_vars /\ \A t \in Threads : WF_vars(Thread(t))

-----------------------------------------------------------------------------
(* Properties                                                              *)

(* A thread that has got an entry from findOrCreate, or has loaded it,     *)
(* reads the bytes it asked for as long as it holds the pin: whatever is   *)
(* evicted, removed, superseded by a larger entry or saved meanwhile, its  *)
(* entry is not recycled.                                                  *)
ReadersKeepData ==
    \A t \in Threads : At(t, "read") =>
        \A e \in threads[t].pinned :
            /\ entries[e].live /\ entries[e].numPins > 0
            /\ ~threads[t].loads => /\ entries[e].content = Request(t).key
                                    /\ entries[e].size >= Request(t).size

(* An entry that has a key is the one the map has for that key: removal by *)
(* key, in removeEntryLocked, finds an entry and not another one that has  *)
(* superseded it.  What the map refers to is in use, and has that key or   *)
(* will get it from the one thread that creates it.                        *)
KeyedIsMapped ==
    /\ \A e \in Slots : entries[e].key # None => entryMap[entries[e].key] = e
    /\ \A k \in Keys : Found(k) =>
          \/ entries[entryMap[k]].key = k
          \/ /\ Exclusive(entryMap[k])
             /\ Cardinality({t \in Threads : At(t, "initialize") /\ threads[t].key = k
                                                /\ threads[t].entry = entryMap[k]}) = 1

(* Every page the allocator has given out is in an entry, on its way to be *)
(* freed, or in use by a query: makeSpace, failed loads and evictions leak *)
(* none and free none twice.                                               *)
PagesAccounted ==
    allocated = Pages(Slots) + shrunk
                 + Cardinality({t \in Threads : At(t, "use")})
                 + FoldSet(LAMBDA t, n : n + threads[t].acquired + threads[t].toFree,
                           0, Threads)

(* Every request ends.  Who waits for an entry or a load of another thread *)
(* is woken when that succeeds, fails or is cancelled, and makeSpace gives *)
(* up at some time.                                                        *)
RequestsFinish == <>(\A t \in Threads : threads[t].next > Len(plan.asks[t]))
==============================================================================
