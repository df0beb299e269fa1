--------------------------- MODULE SsdFileProofs ---------------------------
(* What a load reads from the SSD is the data of its key, for any number   *)
(* and size of regions, and over any number of crashes.                    *)
EXTENDS SsdFile, FiniteSetTheorems, TLAPS

(* Entries in memory or in a checkpoint: where the data of keys is.        *)
Placed(es) == DOMAIN es \subseteq Keys /\ \A k \in DOMAIN es : es[k] \in Runs

(* Steps of a checkpoint, which hold the mutex.                            *)
CheckpointSteps == {"truncate", "append", "end", "log", "deleteLog", "delete"}
Steps == {"idle", "getSpace", "write", "publish"} \cup CheckpointSteps

(* The types of what growOrEvictLocked can change ..                       *)
RegionTypes ==
    /\ numRegions \in 0..MaxRegions /\ fileSize \in 0..MaxRegions
    /\ disk \in [Regions -> [0..(RegionSize - 1) -> Keys \cup {Nothing}]]
    /\ regionSizes \in [Regions -> 0..RegionSize]
    /\ log \in Seq(Regions) /\ writable \in Seq(Regions)
    /\ Placed(entries)
    /\ suspended \in BOOLEAN

(* .. and of the rest                                                      *)
OtherTypes ==
    /\ pins \subseteq Keys \X Runs /\ IsFiniteSet(pins)
    /\ cpt = [state |-> cpt.state, numRegions |-> cpt.numRegions, entries |-> cpt.entries]
    /\ cpt.numRegions \in Nat /\ Placed(cpt.entries)
    /\ cpt.state \in {"empty", "partial", "complete"}
    /\ enabled \in BOOLEAN /\ cptOpen \in BOOLEAN
    /\ step \in Steps
    /\ batch \in Seq(Keys)
    /\ space \in [region : Regions, offset : Nat, size : Nat]
    /\ step \in {"write", "publish"} =>
          space.size <= Len(batch) /\ space.offset + space.size <= RegionSize

TypeInv == shape \in Shapes /\ RegionTypes /\ OtherTypes

(* A suspended cache has nowhere to write, and nobody is writing.          *)
SuspendInv ==
    suspended => /\ numRegions = MaxRegions /\ writable = <<>>
                 /\ Evictable(pins) = {}
                 /\ step \notin {"write", "publish"}

(* The checkpoint that is being made says what is in memory, and a         *)
(* complete one exists only while evictions are logged.                    *)
CheckpointInv ==
    /\ numRegions <= fileSize /\ cpt.numRegions <= numRegions
    /\ step \in CheckpointSteps => enabled
    /\ step \in {"append", "end", "log"} => cptOpen
    /\ step \in {"end", "log"} => cpt.entries = entries /\ cpt.numRegions = numRegions
    /\ cpt.state = "complete" => /\ enabled /\ cptOpen
                                 /\ step \notin {"append", "end", "deleteLog", "delete"}

(* From where on region r is free or being written.                        *)
Limit(r) == IF step \in {"write", "publish"} /\ r = space.region
            THEN space.offset ELSE regionSizes[r]

(* The data of key k is at run, and will not be written over.              *)
Kept(k, run) == run[1] < numRegions /\ run[2] < Limit(run[1]) /\ DiskAt(run) = k

(* The write in progress has its space to itself.                          *)
SpaceInv ==
    /\ step \in {"write", "publish"} =>
          /\ space.region < numRegions
          /\ space.offset + space.size <= regionSizes[space.region]
    /\ step = "publish" => \A i \in 1..space.size :
          disk[space.region][space.offset + i - 1] = batch[i]
    /\ \A i \in DOMAIN writable : writable[i] < numRegions

DataInv ==
    /\ \A k \in DOMAIN entries : Kept(k, entries[k])
    /\ \A p \in pins : Kept(p[1], p[2])
    /\ cpt.state = "complete" => \A k \in DOMAIN cpt.entries :
          /\ cpt.entries[k][1] < cpt.numRegions
          /\ cpt.entries[k][1] \in Range(log) \/ Kept(k, cpt.entries[k])

FileInv == known = {} => SpaceInv /\ DataInv

-----------------------------------------------------------------------------
(* Every file has a region, and every region has room for an entry.        *)
LEMMA ShapeType ==
    ASSUME shape \in Shapes
    PROVE  MaxRegions \in Nat \ {0} /\ RegionSize \in Nat \ {0} /\ NumKeys \in Nat
  BY Zenon, SsdFileAssumption DEF MaxRegions, RegionSize

(* A bounded set of sizes has a largest one.                               *)
LEMMA MaxOfSizes ==
    ASSUME NEW N \in Nat, NEW S, S \subseteq 0..N, S # {}
    PROVE  Max(S) \in S /\ \A x \in S : x <= Max(S)
<1> DEFINE T == {x \in Nat : x <= N /\ N - x \in S}
<1>1. T \subseteq Nat
  BY Zenon
<1>2. T # {}
  <2>1. PICK s \in S : TRUE
    BY Zenon
  <2>2. N - s \in Nat /\ N - s <= N /\ N - (N - s) = s
    BY <2>1
  <2> QED
    BY Zenon, <2>1, <2>2
<1> DEFINE R == {ss \in Nat \X Nat : ss[1] < ss[2]}
<1>0. IsWellFoundedOn(R, Nat)
  BY Zenon, NatLessThanWellFounded DEF OpToRel
<1> HIDE DEF T, R
<1>3. PICK m \in T : \A y \in T : ~(<<y, m>> \in R)
  BY Zenon, <1>0, <1>1, <1>2, WFMin
<1>4. \A y \in T : y >= m
  <2>1. TAKE y \in T
  <2>2. y \in Nat /\ m \in Nat
    BY Zenon, <1>1
  <2>3. y < m => <<y, m>> \in R
    BY Zenon, <2>2 DEF R
  <2> QED
    BY <1>3, <2>2, <2>3
<1>5. N - m \in S
  BY Zenon DEF T
<1>6. \A x \in S : x <= N - m
  <2>1. TAKE x \in S
  <2>2. N - x \in T
    <3>1. x \in Nat /\ x <= N /\ N - (N - x) = x
      OBVIOUS
    <3> QED
      BY <3>1 DEF T
  <2> QED
    BY <2>2, <1>4, <1>1
<1>7. \A y \in S : N - m >= y
  BY Zenon, <1>6, <1>1
<1>8. Max(S) \in S /\ \A y \in S : Max(S) >= y
  BY Zenon, <1>5, <1>7 DEF Max
<1> QED
  BY Zenon, <1>8

(* readCheckpoint makes a region as large as its last entry needs.         *)
LEMMA MaxSizeBounds ==
    ASSUME shape \in Shapes, NEW es, Placed(es), NEW r
    PROVE  /\ MaxSize(es, r) \in 0..RegionSize
           /\ \A k \in DOMAIN es : es[k][1] = r => es[k][2] < MaxSize(es, r)
<1> DEFINE used == {es[k][2] + 1 : k \in {k \in DOMAIN es : es[k][1] = r}}
<1>1. RegionSize \in Nat \ {0}
  BY Zenon, ShapeType
<1>2. \A k \in DOMAIN es : es[k][2] \in 0..(RegionSize - 1)
  BY Zenon DEF Placed, Runs
<1>3. used \subseteq 0..RegionSize
  BY <1>1, <1>2
<1>4. \A k \in DOMAIN es : es[k][1] = r => es[k][2] + 1 \in used
  BY Zenon
<1>5. MaxSize(es, r) = IF used = {} THEN 0 ELSE Max(used)
  BY Zenon DEF MaxSize
<1> HIDE DEF used
<1>6. CASE used = {}
  BY <1>1, <1>4, <1>5, <1>6
<1>7. CASE used # {}
  <2>1. Max(used) \in used /\ \A x \in used : x <= Max(used)
    BY Zenon, <1>1, <1>3, <1>7, MaxOfSizes
  <2>2. MaxSize(es, r) \in 0..RegionSize
    BY Zenon, <1>3, <1>5, <1>7, <2>1
  <2>3. ASSUME NEW k \in DOMAIN es, es[k][1] = r
        PROVE  es[k][2] < MaxSize(es, r)
    <3>1. es[k][2] + 1 <= Max(used) /\ es[k][2] \in Int
      BY <1>1, <1>2, <1>4, <2>1, <2>3
    <3> QED
      BY <1>5, <1>7, <2>2, <3>1
  <2> QED
    BY Zenon, <2>2, <2>3
<1> QED
  BY Zenon, <1>6, <1>7

(* Functions on 1..n are sequences.                                        *)
LEMMA SeqOf ==
    ASSUME NEW n \in Nat, NEW T, NEW q \in [1..n -> T]
    PROVE  q \in Seq(T)
  OBVIOUS

(* A numbering of a set of regions or of keys is a sequence.               *)
LEMMA NumberingType ==
    ASSUME NEW n \in Nat, NEW S, S \subseteq 0..n, NEW T, S \subseteq T,
           NEW q \in [1..Cardinality(S) -> S]
    PROVE  q \in Seq(T)
<1>0. IsFiniteSet(0..n)
  BY FS_Interval
<1>1. IsFiniteSet(S)
  BY Zenon, <1>0, FS_Subset
<1>2. Cardinality(S) \in Nat
  BY Zenon, <1>1, FS_CardinalityType
<1>3. q \in [1..Cardinality(S) -> T]
  BY Zenon
<1> QED
  BY Zenon, <1>2, <1>3, SeqOf

(* An empty log, or nothing to write.                                      *)
LEMMA NothingYet == \A S : <<>> \in Seq(S)
  OBVIOUS

-----------------------------------------------------------------------------
(* Types                                                                   *)

(* The number and the size of the regions do not change.                   *)
LEMMA ShapeFixed ==
    ASSUME shape' = shape
    PROVE  /\ MaxRegions' = MaxRegions /\ RegionSize' = RegionSize
           /\ Regions' = Regions /\ Runs' = Runs
  BY Zenon DEF MaxRegions, RegionSize, Regions, Runs

(* The types of a new cache file.                                          *)
LEMMA TypeInitially == Init => TypeInv
<1> SUFFICES ASSUME Init PROVE TypeInv
  BY Zenon
<1>1. shape \in Shapes
  BY Zenon DEF Init
<1>2. MaxRegions \in Nat \ {0} /\ RegionSize \in Nat \ {0}
  BY Zenon, <1>1, ShapeType
<1>3. RegionTypes
  <2>1. disk \in [Regions -> [0..(RegionSize - 1) -> Keys \cup {Nothing}]]
    BY Zenon DEF Init
  <2>2. regionSizes \in [Regions -> 0..RegionSize]
    BY <1>2 DEF Init
  <2>3. Placed(entries)
    BY DEF Init, Placed
  <2>4. log \in Seq(Regions) /\ writable \in Seq(Regions) /\ suspended \in BOOLEAN
    BY Zenon, NothingYet DEF Init
  <2>5. numRegions \in 0..MaxRegions /\ fileSize \in 0..MaxRegions
    BY <1>2 DEF Init
  <2> QED
    BY Zenon, <2>1, <2>2, <2>3, <2>4, <2>5 DEF RegionTypes
<1>4. cpt = [state |-> "empty", numRegions |-> 0, entries |-> <<>>]
  BY Zenon DEF Init, NoCheckpoint
<1>5. OtherTypes
  BY <1>2, <1>4, FS_EmptySet DEF Init, OtherTypes, Placed, Regions, Steps
<1> QED
  BY Zenon, <1>1, <1>3, <1>5 DEF TypeInv

(* clearRegionEntriesLocked and logEviction keep the types ..              *)
LEMMA EvictTypes ==
    ASSUME TypeInv, shape' = shape, NEW rs \in Seq(Regions), NEW es, Placed(es), NEW er,
           Evict(rs, es, er)
    PROVE  /\ log' \in Seq(Regions) /\ Placed(entries)'
           /\ regionSizes' \in [Regions -> 0..RegionSize]
<1>1. log \in Seq(Regions) /\ regionSizes \in [Regions -> 0..RegionSize] /\ RegionSize \in Nat
  BY Zenon, ShapeType DEF TypeInv, RegionTypes
<1>2. SubSeq(log, Len(rs) + 1, Len(log)) \in Seq(Regions)
  BY <1>1
<1>3. log' \in Seq(Regions)
  BY <1>1, <1>2 DEF Evict, LogEviction
<1>4. Placed(entries)'
  BY Zenon, ShapeFixed DEF Evict, Cleared, Placed
<1>5. regionSizes' \in [Regions -> 0..RegionSize]
  BY <1>1 DEF Evict, Emptied
<1> QED
  BY Zenon, <1>3, <1>4, <1>5

(* .. and so does growOrEvictLocked.                                       *)
LEMMA SpaceTypes ==
    ASSUME TypeInv, shape' = shape, NEW ps, GrowOrEvict(ps)
    PROVE  RegionTypes'
<1>1. MaxRegions \in Nat \ {0} /\ RegionSize \in Nat \ {0}
  BY Zenon, ShapeType DEF TypeInv
<1>2. CASE Grow
  <2>1. numRegions \in Regions /\ numRegions' \in 0..MaxRegions /\ fileSize' \in 0..MaxRegions
    BY <1>1, <1>2 DEF Grow, TypeInv, RegionTypes, Regions
  <2>2. disk' \in [Regions -> [0..(RegionSize - 1) -> Keys \cup {Nothing}]]
    BY Zenon, <1>2 DEF Grow, TypeInv, RegionTypes
  <2>3. regionSizes' \in [Regions -> 0..RegionSize] /\ writable' \in Seq(Regions)
    BY <1>1, <1>2, <2>1 DEF Grow, TypeInv, RegionTypes
  <2>4. Placed(entries)' /\ log' \in Seq(Regions) /\ suspended' \in BOOLEAN
    BY Zenon, <1>2, ShapeFixed DEF Grow, TypeInv, RegionTypes, Placed
  <2> QED
    BY Zenon, <2>1, <2>2, <2>3, <2>4, ShapeFixed DEF RegionTypes
<1>3. CASE EvictSome(ps)
  <2>1. PICK n \in 1..NumCandidates :
           \E rs \in {q \in [1..n -> Evictable(ps)] : IsInjective(q)} :
               Evict(rs, entries, erased) /\ writable' = rs
    BY Zenon, <1>3 DEF EvictSome
  <2>2. PICK rs \in [1..n -> Evictable(ps)] :
           Evict(rs, entries, erased) /\ writable' = rs
    BY Zenon, <2>1
  <2>3. n \in Nat
    BY SsdFileAssumption
  <2>4. rs \in [1..n -> Regions]
    BY Zenon DEF Evictable
  <2>5. rs \in Seq(Regions)
    BY Zenon, <2>3, <2>4, SeqOf
  <2>6. Placed(entries)
    BY Zenon DEF TypeInv, RegionTypes
  <2>7. /\ log' \in Seq(Regions) /\ Placed(entries)'
        /\ regionSizes' \in [Regions -> 0..RegionSize]
    BY Zenon, <2>2, <2>5, <2>6, EvictTypes
  <2>8. writable' \in Seq(Regions)
    BY Zenon, <2>2, <2>5
  <2> QED
    BY Zenon, <1>3, <2>7, <2>8, ShapeFixed DEF EvictSome, TypeInv, RegionTypes
<1>4. CASE Suspend(ps)
  BY Zenon, <1>4, ShapeFixed DEF Suspend, TypeInv, RegionTypes, Placed
<1> QED
  BY Zenon, <1>2, <1>3, <1>4 DEF GrowOrEvict

(* Steps that leave alone one half of the state.                           *)
LEMMA RegionTypesFrame ==
    ASSUME TypeInv, shape' = shape,
           UNCHANGED <<disk, fileSize, log, numRegions, writable, regionSizes, suspended, entries>>
    PROVE  RegionTypes'
  BY Zenon, ShapeFixed DEF TypeInv, RegionTypes, Placed

(* Steps that change only the write in progress.                           *)
LEMMA OtherTypesFrame ==
    ASSUME TypeInv, shape' = shape, UNCHANGED <<pins, cpt, enabled, cptOpen, space>>,
           step' \in Steps, batch' \in Seq(Keys),
           step' \in {"write", "publish"} => step \in {"write", "publish"} /\ batch' = batch
    PROVE  OtherTypes'
  BY Zenon, ShapeFixed DEF TypeInv, OtherTypes, Placed

(* Loads: find, erase and unpinRegion.                                     *)
LEMMA LoadTypes ==
    ASSUME TypeInv, (\E k \in Keys : Find(k)) \/ \E p \in pins : Unpin(p) \/ Erase(p)
    PROVE  TypeInv'
<1>1. ASSUME NEW k \in Keys, Find(k) PROVE TypeInv'
  <2>1. shape' = shape /\ RegionTypes'
    BY Zenon, <1>1, RegionTypesFrame DEF Find, switches, files, regions
  <2>2. pins' = pins \cup {<<k, entries[k]>>} /\ entries[k] \in Runs
    BY Zenon, <1>1 DEF Find, TypeInv, RegionTypes, Placed
  <2>3. pins' \subseteq Keys \X Runs
    BY <2>2 DEF TypeInv, OtherTypes
  <2>4. IsFiniteSet(pins')
    BY Zenon, <2>2, FS_AddElement DEF TypeInv, OtherTypes
  <2>5. OtherTypes'
    BY Zenon, <1>1, <2>1, <2>3, <2>4, ShapeFixed
    DEF Find, files, switches, writes, TypeInv, OtherTypes, Placed
  <2> QED
    BY Zenon, <2>1, <2>5 DEF TypeInv
<1>2. ASSUME NEW p \in pins, Unpin(p) PROVE TypeInv'
  <2>1. shape' = shape
    BY Zenon, <1>2 DEF Unpin, switches
  <2>2. RegionTypes'
    <3>1. CASE GrowOrEvict(pins')
      BY Zenon, <2>1, <3>1, SpaceTypes
    <3>2. CASE UNCHANGED <<disk, fileSize, log, regions, known>>
      BY Zenon, <2>1, <3>2, RegionTypesFrame DEF regions
    <3> QED
      BY Zenon, <1>2, <3>1, <3>2 DEF Unpin
  <2>3. pins' \subseteq Keys \X Runs
    BY Zenon, <1>2 DEF Unpin, TypeInv, OtherTypes
  <2>4. IsFiniteSet(pins')
    BY Zenon, <1>2, FS_RemoveElement DEF Unpin, TypeInv, OtherTypes
  <2>5. OtherTypes'
    BY Zenon, <1>2, <2>1, <2>3, <2>4, ShapeFixed
    DEF Unpin, switches, writes, TypeInv, OtherTypes, Placed
  <2> QED
    BY Zenon, <2>1, <2>2, <2>5 DEF TypeInv
<1>3. ASSUME NEW p \in pins, Erase(p) PROVE TypeInv'
  <2>1. shape' = shape /\ UNCHANGED <<pins, cpt, enabled, cptOpen, space, step, batch>>
    BY Zenon, <1>3 DEF Erase, files, switches, writes
  <2>2. Placed(entries)'
    BY Zenon, <1>3, <2>1, ShapeFixed DEF Erase, TypeInv, RegionTypes, Placed
  <2>3. RegionTypes'
    BY Zenon, <1>3, <2>1, <2>2, ShapeFixed DEF Erase, files, TypeInv, RegionTypes
  <2>4. OtherTypes'
    BY Zenon, <2>1, OtherTypesFrame DEF TypeInv, OtherTypes
  <2> QED
    BY Zenon, <2>1, <2>3, <2>4 DEF TypeInv
<1> QED
  BY Zenon, <1>1, <1>2, <1>3

(* A write is given a sequence of keys.                                    *)
LEMMA StartWriteTypes ==
    ASSUME TypeInv, NEW ks \in SUBSET Keys, StartWrite(ks)
    PROVE  TypeInv'
<1>1. shape' = shape /\ RegionTypes'
  BY Zenon, RegionTypesFrame DEF StartWrite, switches, files, regions
<1>2. batch' \in [1..Cardinality(ks) -> ks]
  BY Zenon DEF StartWrite, Ascending, Numberings
<1>3. NumKeys \in Nat /\ ks \subseteq 0..NumKeys
  BY ShapeType DEF TypeInv, Keys
<1>4. batch' \in Seq(Keys)
  BY Zenon, <1>2, <1>3, NumberingType
<1>5. OtherTypes'
  BY Zenon, <1>1, <1>4, OtherTypesFrame DEF StartWrite, files, switches, Steps
<1> QED
  BY Zenon, <1>1, <1>5 DEF TypeInv

(* getSpace takes no more than is free in the region.                      *)
LEMMA GetSpaceTypes ==
    ASSUME TypeInv, GetSpace
    PROVE  TypeInv'
<1> DEFINE r == Head(writable)
           free == RegionSize - regionSizes[r]
           n == IF Len(batch) < free THEN Len(batch) ELSE free
<1>1. /\ shape' = shape /\ UNCHANGED <<disk, fileSize, log, numRegions, suspended, entries>>
      /\ UNCHANGED <<pins, cpt, enabled, cptOpen, batch>>
  BY Zenon DEF GetSpace, files, switches
<1>2. /\ r \in Regions /\ Tail(writable) \in Seq(Regions)
      /\ RegionSize \in Nat /\ regionSizes[r] \in 0..RegionSize /\ Len(batch) \in Nat
  <2>1. writable \in Seq(Regions) /\ writable # <<>>
    BY Zenon DEF GetSpace, TypeInv, RegionTypes
  <2>2. r \in Regions /\ Tail(writable) \in Seq(Regions)
    BY <2>1
  <2>3. regionSizes \in [Regions -> 0..RegionSize] /\ batch \in Seq(Keys)
    BY Zenon DEF TypeInv, RegionTypes, OtherTypes
  <2> QED
    BY <2>2, <2>3, ShapeType DEF TypeInv
<1>3. \/ /\ space' = [region |-> r, offset |-> regionSizes[r], size |-> n]
         /\ regionSizes' = [regionSizes EXCEPT ![r] = @ + n]
         /\ step' = "write" /\ writable' = writable
      \/ writable' = Tail(writable) /\ UNCHANGED <<space, regionSizes, step>>
  BY Zenon DEF GetSpace
<1>4. n \in Nat /\ n <= Len(batch) /\ regionSizes[r] + n <= RegionSize
  BY <1>2
<1> HIDE DEF n, r
<1>5. regionSizes' \in [Regions -> 0..RegionSize] /\ writable' \in Seq(Regions)
  <2>1. regionSizes \in [Regions -> 0..RegionSize] /\ writable \in Seq(Regions)
    BY Zenon DEF TypeInv, RegionTypes
  <2>2. regionSizes[r] + n \in 0..RegionSize
    BY <1>2, <1>4
  <2> QED
    BY Zenon, <1>2, <1>3, <2>1, <2>2
<1>6. RegionTypes'
  BY Zenon, <1>1, <1>5, ShapeFixed DEF TypeInv, RegionTypes, Placed
<1>7. /\ step' \in Steps /\ space' \in [region : Regions, offset : Nat, size : Nat]
      /\ step' \in {"write", "publish"} =>
            space'.size <= Len(batch) /\ space'.offset + space'.size <= RegionSize
  BY <1>2, <1>3, <1>4 DEF TypeInv, OtherTypes, Steps
<1>8. OtherTypes'
  BY Zenon, <1>1, <1>7, ShapeFixed DEF TypeInv, OtherTypes, Placed
<1> QED
  BY Zenon, <1>1, <1>6, <1>8 DEF TypeInv

(* getSpace, when it has to grow the file or to evict.                     *)
LEMMA MakeSpaceTypes ==
    ASSUME TypeInv, MakeSpace
    PROVE  TypeInv'
<1>1. shape' = shape /\ UNCHANGED <<pins, cpt, enabled, cptOpen, space>>
  BY Zenon DEF MakeSpace, switches
<1>2. RegionTypes'
  BY Zenon, <1>1, SpaceTypes DEF MakeSpace
<1>3. step' \in Steps /\ batch' \in Seq(Keys) /\ step' \notin {"write", "publish"}
  BY DEF MakeSpace, TypeInv, OtherTypes, Steps
<1>4. OtherTypes'
  BY Zenon, <1>1, <1>3, OtherTypesFrame
<1> QED
  BY Zenon, <1>1, <1>2, <1>4 DEF TypeInv

(* The data of a write stays in its region.                                *)
LEMMA WriteTypes ==
    ASSUME TypeInv, WriteData
    PROVE  TypeInv'
<1>1. /\ shape' = shape /\ UNCHANGED <<pins, cpt, enabled, cptOpen, space>>
      /\ UNCHANGED <<fileSize, log, numRegions, writable, regionSizes, suspended, entries>>
  BY Zenon DEF WriteData, switches, regions
<1>2. /\ step = "write" /\ step' \in {"publish", "idle"} /\ batch' \in Seq(Keys)
      /\ step' = "publish" => batch' = batch
  BY Zenon, NothingYet DEF WriteData, TypeInv, OtherTypes
<1>3. OtherTypes'
  BY Zenon, <1>1, <1>2, OtherTypesFrame DEF Steps
<1>4. disk' \in [Regions -> [0..(RegionSize - 1) -> Keys \cup {Nothing}]]
  <2>1. CASE UNCHANGED disk
    BY Zenon, <2>1 DEF TypeInv, RegionTypes
  <2>2. CASE disk' = [disk EXCEPT ![space.region] =
                        [i \in DOMAIN @ |->
                            IF i \in space.offset..(space.offset + space.size - 1)
                            THEN batch[i - space.offset + 1] ELSE @[i]]]
    <3> DEFINE new == [i \in DOMAIN disk[space.region] |->
                            IF i \in space.offset..(space.offset + space.size - 1)
                            THEN batch[i - space.offset + 1] ELSE disk[space.region][i]]
    <3>1. /\ space.region \in Regions /\ space.offset \in Nat /\ space.size \in Nat
          /\ space.size <= Len(batch) /\ batch \in Seq(Keys) /\ RegionSize \in Nat
      BY Zenon, <1>2, ShapeType DEF TypeInv, OtherTypes
    <3>2. disk[space.region] \in [0..(RegionSize - 1) -> Keys \cup {Nothing}]
      BY Zenon, <3>1 DEF TypeInv, RegionTypes
    <3>3. \A i \in space.offset..(space.offset + space.size - 1) :
             batch[i - space.offset + 1] \in Keys
      BY <3>1
    <3>4. new \in [0..(RegionSize - 1) -> Keys \cup {Nothing}]
      BY Zenon, <3>2, <3>3
    <3>5. disk' = [disk EXCEPT ![space.region] = new]
      BY Zenon, <2>2, <3>1 DEF TypeInv, RegionTypes
    <3> QED
      BY Zenon, <3>1, <3>4, <3>5 DEF TypeInv, RegionTypes
  <2> QED
    BY Zenon, <2>1, <2>2 DEF WriteData
<1>5. RegionTypes'
  BY Zenon, <1>1, <1>4, ShapeFixed DEF TypeInv, RegionTypes, Placed
<1> QED
  BY Zenon, <1>1, <1>3, <1>5 DEF TypeInv

(* The entries that a write adds are in its region.                        *)
LEMMA PublishTypes ==
    ASSUME TypeInv, Publish
    PROVE  TypeInv'
<1>1. /\ shape' = shape /\ UNCHANGED <<pins, cpt, enabled, cptOpen, space>>
      /\ UNCHANGED <<disk, fileSize, log, numRegions, writable, regionSizes, suspended>>
  BY Zenon DEF Publish, files
<1>2. /\ space.region \in Regions /\ space.offset \in Nat /\ space.size \in Nat
      /\ space.size <= Len(batch) /\ batch \in Seq(Keys)
      /\ RegionSize \in Nat /\ space.offset + space.size <= RegionSize
  BY Zenon, ShapeType DEF Publish, TypeInv, OtherTypes
<1>3. batch' \in Seq(Keys) /\ step' = "getSpace"
  BY <1>2 DEF Publish
<1>4. OtherTypes'
  BY Zenon, <1>1, <1>3, OtherTypesFrame DEF Steps
<1>5. Range(SubSeq(batch, 1, space.size)) \subseteq Keys
  BY <1>2 DEF Range
<1>6. ASSUME NEW k \in DOMAIN entries' PROVE k \in Keys /\ entries'[k] \in Runs
  <2>1. Placed(entries)
    BY Zenon DEF TypeInv, RegionTypes
  <2>2. CASE \E i \in 1..space.size : batch[i] = k
    <3> DEFINE j == CHOOSE i \in 1..space.size : batch[i] = k
    <3>1. j \in 1..space.size /\ batch[j] = k
      BY Zenon, <2>2
    <3>2. entries'[k] = <<space.region, space.offset + j - 1>>
      BY Zenon, <1>6, <2>2 DEF Publish
    <3> HIDE DEF j
    <3>3. space.offset + j - 1 \in 0..(RegionSize - 1)
      BY <1>2, <3>1
    <3>4. k \in Keys
      BY <1>2, <3>1
    <3> QED
      BY <1>2, <3>2, <3>3, <3>4 DEF Runs
  <2>3. CASE ~\E i \in 1..space.size : batch[i] = k
    <3>1. k \in DOMAIN entries \cup Range(SubSeq(batch, 1, space.size))
      BY Zenon, <1>6 DEF Publish
    <3>2. \A i \in 1..Len(SubSeq(batch, 1, space.size)) :
             i \in 1..space.size /\ SubSeq(batch, 1, space.size)[i] = batch[i]
      BY <1>2
    <3>3. k \in DOMAIN entries
      BY <1>2, <2>3, <3>1, <3>2 DEF Range
    <3>4. entries'[k] = entries[k]
      BY Zenon, <2>3, <1>6 DEF Publish
    <3> QED
      BY Zenon, <2>1, <3>3, <3>4 DEF Placed
  <2> QED
    BY Zenon, <2>2, <2>3
<1>7. Placed(entries)'
  BY Zenon, <1>1, <1>6, ShapeFixed DEF Placed
<1>8. RegionTypes'
  BY Zenon, <1>1, <1>7, ShapeFixed DEF TypeInv, RegionTypes
<1> QED
  BY Zenon, <1>1, <1>4, <1>8 DEF TypeInv

(* removeFileEntries frees regions of the file.                            *)
LEMMA RemoveTypes ==
    ASSUME TypeInv, NEW ks, RemoveFileEntries(ks)
    PROVE  TypeInv'
<1> DEFINE gone == {k \in ks \intersect DOMAIN entries : RegionPins(entries[k][1]) = 0}
           left == [k \in DOMAIN entries \ gone |-> entries[k]]
           lost == [r \in Regions |->
                      erased[r] + Cardinality({k \in gone : entries[k][1] = r})]
           toFree == {r \in 0..(numRegions - 1) :
                        RegionPins(r) = 0 /\ lost[r] > (regionSizes[r] * 50) \div 100}
<1>1. /\ shape' = shape /\ UNCHANGED <<pins, cpt, enabled, cptOpen, space, step, batch>>
      /\ UNCHANGED <<disk, fileSize, numRegions, suspended>>
  BY Zenon DEF RemoveFileEntries, switches, writes
<1>2. OtherTypes'
  BY Zenon, <1>1, OtherTypesFrame DEF TypeInv, OtherTypes
<1>3. Placed(left)
  BY Zenon DEF TypeInv, RegionTypes, Placed
<1>4. \/ entries' = left /\ UNCHANGED <<log, regionSizes, writable>>
      \/ /\ \E rs \in Ascending(toFree) : Evict(rs, left, lost)
         /\ \E new \in Ascending(toFree \ Range(writable)) : writable' = writable \o new
  BY Zenon DEF RemoveFileEntries
<1> HIDE DEF lost, left
<1>5. \A r \in toFree : r \in 0..(numRegions - 1)
  BY Zenon
<1> HIDE DEF toFree
<1>6. MaxRegions \in Nat /\ toFree \subseteq 0..MaxRegions /\ toFree \subseteq Regions
  BY <1>5, ShapeType DEF TypeInv, RegionTypes, Regions
<1>7. CASE entries' = left /\ UNCHANGED <<log, regionSizes, writable>>
  <2>1. Placed(entries)'
    BY Zenon, <1>1, <1>3, <1>7, ShapeFixed DEF Placed
  <2> QED
    BY Zenon, <1>1, <1>2, <1>7, <2>1, ShapeFixed DEF TypeInv, RegionTypes
<1>8. CASE /\ \E rs \in Ascending(toFree) : Evict(rs, left, lost)
           /\ \E new \in Ascending(toFree \ Range(writable)) : writable' = writable \o new
  <2>1. PICK rs \in Ascending(toFree) : Evict(rs, left, lost)
    BY Zenon, <1>8
  <2>2. PICK new \in Ascending(toFree \ Range(writable)) : writable' = writable \o new
    BY Zenon, <1>8
  <2>3. rs \in [1..Cardinality(toFree) -> toFree]
    BY Zenon DEF Ascending, Numberings
  <2>4. rs \in Seq(Regions)
    BY Zenon, <1>6, <2>3, NumberingType
  <2>5. new \in [1..Cardinality(toFree \ Range(writable)) -> toFree \ Range(writable)]
    BY Zenon DEF Ascending, Numberings
  <2>6. /\ toFree \ Range(writable) \subseteq 0..MaxRegions
        /\ toFree \ Range(writable) \subseteq Regions
    BY Zenon, <1>6
  <2>7. new \in Seq(Regions)
    BY Zenon, <1>6, <2>5, <2>6, NumberingType
  <2>8. writable' \in Seq(Regions)
    BY <2>2, <2>7 DEF TypeInv, RegionTypes
  <2>9. /\ log' \in Seq(Regions) /\ Placed(entries)'
        /\ regionSizes' \in [Regions -> 0..RegionSize]
    BY Zenon, <1>1, <1>3, <2>1, <2>4, EvictTypes
  <2> QED
    BY Zenon, <1>1, <1>2, <2>8, <2>9, ShapeFixed DEF TypeInv, RegionTypes
<1> QED
  BY Zenon, <1>4, <1>7, <1>8

(* The steps of a checkpoint, and of its failure.                          *)
LEMMA CheckpointTypes ==
    ASSUME TypeInv,
           \/ FinishWrite \/ ForceCheckpoint \/ Truncate \/ AppendBuffers \/ AppendEnd
           \/ TruncateLog \/ DeleteLog \/ DeleteCheckpoint
    PROVE  TypeInv'
<1>1. /\ shape' = shape /\ UNCHANGED <<disk, fileSize, numRegions, writable, regionSizes,
                                        suspended, entries, pins, batch, space>>
  BY Zenon DEF FinishWrite, ForceCheckpoint, Truncate, AppendBuffers, AppendEnd, TruncateLog,
         DeleteLog, DeleteCheckpoint, files, regions, switches
<1>2. log' \in {log, <<>>}
  BY Zenon DEF FinishWrite, ForceCheckpoint, Truncate, AppendBuffers, AppendEnd, TruncateLog,
         DeleteLog, DeleteCheckpoint, files
<1>3. RegionTypes'
  BY Zenon, <1>1, <1>2, NothingYet, ShapeFixed DEF TypeInv, RegionTypes, Placed
<1>4. step' \in Steps /\ step' \notin {"write", "publish"}
  BY Zenon DEF FinishWrite, ForceCheckpoint, Truncate, AppendBuffers, AppendEnd, TruncateLog,
         DeleteLog, DeleteCheckpoint, Steps, CheckpointSteps
<1>5. enabled' \in BOOLEAN /\ cptOpen' \in BOOLEAN
  BY Zenon DEF FinishWrite, ForceCheckpoint, Truncate, AppendBuffers, AppendEnd, TruncateLog,
         DeleteLog, DeleteCheckpoint, switches, TypeInv, OtherTypes
<1>6. \/ cpt' = cpt
      \/ cpt' = [state |-> "empty", numRegions |-> 0, entries |-> <<>>]
      \/ cpt' = [state |-> "partial", numRegions |-> numRegions, entries |-> entries]
      \/ cpt' = [cpt EXCEPT !.state = "complete"]
  BY Zenon DEF FinishWrite, ForceCheckpoint, Truncate, AppendBuffers, AppendEnd, TruncateLog,
         DeleteLog, DeleteCheckpoint, files, NoCheckpoint
<1>7. /\ cpt' = [state |-> cpt'.state, numRegions |-> cpt'.numRegions, entries |-> cpt'.entries]
      /\ cpt'.numRegions \in Nat /\ Placed(cpt'.entries)
      /\ cpt'.state \in {"empty", "partial", "complete"}
  <2>1. CASE cpt' = cpt
    BY Zenon, <2>1 DEF TypeInv, OtherTypes
  <2>2. CASE cpt' = [state |-> "empty", numRegions |-> 0, entries |-> <<>>]
    BY <2>2 DEF Placed
  <2>3. CASE cpt' = [state |-> "partial", numRegions |-> numRegions, entries |-> entries]
    BY <2>3, ShapeType DEF TypeInv, RegionTypes
  <2>4. CASE cpt' = [cpt EXCEPT !.state = "complete"]
    <3>1. cpt' = [state |-> "complete", numRegions |-> cpt.numRegions, entries |-> cpt.entries]
      BY Zenon, <2>4 DEF TypeInv, OtherTypes
    <3> QED
      BY Zenon, <3>1 DEF TypeInv, OtherTypes
  <2> QED
    BY Zenon, <1>6, <2>1, <2>2, <2>3, <2>4
<1>8. OtherTypes'
  BY Zenon, <1>1, <1>4, <1>5, <1>7, ShapeFixed DEF TypeInv, OtherTypes, Placed
<1> QED
  BY Zenon, <1>1, <1>3, <1>8 DEF TypeInv

(* What readCheckpoint recovers are entries of the checkpoint.             *)
LEMMA RecoveredPlaced ==
    ASSUME NEW es, NEW rs, Placed(es)
    PROVE  Placed(Recovered(es, rs))
  BY Zenon DEF Recovered, Cleared, Placed

(* Recovery, from a checkpoint of no more regions than the file has.       *)
LEMMA RestartTypes ==
    ASSUME TypeInv, CheckpointInv, Restart
    PROVE  TypeInv'
<1>1. /\ shape' = shape /\ UNCHANGED <<disk, fileSize, space>>
      /\ suspended' = FALSE /\ enabled' = TRUE /\ pins' = {} /\ step' = "idle" /\ batch' = <<>>
  BY Zenon DEF Restart
<1>2. MaxRegions \in Nat /\ RegionSize \in Nat
  BY Zenon, ShapeType DEF TypeInv
<1>3. numRegions \in 0..MaxRegions /\ fileSize \in 0..MaxRegions /\ log \in Seq(Regions)
  BY Zenon DEF TypeInv, RegionTypes
<1>4. cpt.numRegions \in 0..MaxRegions
  BY <1>2, <1>3 DEF CheckpointInv, TypeInv, OtherTypes
<1>5. Placed(Recovered(cpt.entries, Range(log)))
  BY Zenon, RecoveredPlaced DEF TypeInv, OtherTypes
<1>6. CASE ReadCheckpoint
  <2>1. entries' = Recovered(cpt.entries, Range(log)) /\ Placed(entries')
    BY Zenon, <1>5, <1>6 DEF ReadCheckpoint
  <2>2. regionSizes' \in [Regions -> 0..RegionSize]
    BY Zenon, <1>6, <2>1, MaxSizeBounds DEF ReadCheckpoint, TypeInv
  <2>3. Range(log) \subseteq Regions
    BY <1>3 DEF Range
  <2>4. Range(log) \subseteq 0..MaxRegions
    BY <1>2, <2>3 DEF Regions
  <2>5. writable' \in [1..Cardinality(Range(log)) -> Range(log)]
    BY Zenon, <1>6 DEF ReadCheckpoint, Numberings
  <2>6. writable' \in Seq(Regions)
    BY Zenon, <1>2, <2>3, <2>4, <2>5, NumberingType
  <2>7. RegionTypes'
    BY Zenon, <1>1, <1>4, <1>6, <2>1, <2>2, <2>6, ShapeFixed
    DEF ReadCheckpoint, TypeInv, RegionTypes, Placed
  <2>8. cpt' = cpt /\ cptOpen' \in BOOLEAN
    BY Zenon, <1>6 DEF ReadCheckpoint
  <2>9. OtherTypes'
    BY Zenon, <1>1, <2>8, ShapeFixed, FS_EmptySet, NothingYet DEF TypeInv, OtherTypes, Placed, Steps
  <2> QED
    BY Zenon, <1>1, <2>7, <2>9 DEF TypeInv
<1>7. CASE NoRecovery
  <2>1. entries' = <<>> /\ Placed(entries')
    BY <1>7 DEF NoRecovery, Placed
  <2>2. \A r : MaxSize(Recovered(cpt.entries, Range(log)), r) \in 0..RegionSize
    BY Zenon, <1>5, MaxSizeBounds DEF TypeInv
  <2>3. numRegions' \in 0..MaxRegions /\ regionSizes' \in [Regions -> 0..RegionSize]
    BY <1>2, <1>3, <1>4, <1>7, <2>2 DEF NoRecovery
  <2>4. writable' \in [1..fileSize -> Regions]
    BY <1>2, <1>3, <1>7 DEF NoRecovery, AllRegions, Regions
  <2>5. writable' \in Seq(Regions)
    BY <1>3, <2>4, SeqOf
  <2>6. log' \in Seq(Regions) /\ cptOpen' \in BOOLEAN
    BY Zenon, <1>3, <1>7, NothingYet DEF NoRecovery
  <2>7. RegionTypes'
    BY Zenon, <1>1, <2>1, <2>3, <2>5, <2>6, ShapeFixed DEF TypeInv, RegionTypes, Placed
  <2>8. \/ cpt' = cpt
        \/ cpt' = [state |-> "empty", numRegions |-> 0, entries |-> <<>>]
    BY Zenon, <1>7 DEF NoRecovery, NoCheckpoint
  <2>9. OtherTypes'
    <3>1. CASE cpt' = cpt
      BY Zenon, <1>1, <2>6, <3>1, ShapeFixed, FS_EmptySet, NothingYet
      DEF TypeInv, OtherTypes, Placed, Steps
    <3>2. CASE cpt' = [state |-> "empty", numRegions |-> 0, entries |-> <<>>]
      BY <1>1, <2>6, <3>2, ShapeFixed, FS_EmptySet, NothingYet
      DEF TypeInv, OtherTypes, Placed, Steps
    <3> QED
      BY Zenon, <2>8, <3>1, <3>2
  <2> QED
    BY Zenon, <1>1, <2>7, <2>9 DEF TypeInv
<1> QED
  BY Zenon, <1>6, <1>7 DEF Restart

(* One of the lemmas above for each action.                                *)
LEMMA TypeStep == TypeInv /\ CheckpointInv /\ [Next]_vars => TypeInv'
<1> SUFFICES ASSUME TypeInv, CheckpointInv, [Next]_vars PROVE TypeInv'
  BY Zenon
<1>1. CASE Next
  BY Zenon, <1>1, LoadTypes, StartWriteTypes, GetSpaceTypes, MakeSpaceTypes, WriteTypes, PublishTypes,
     RemoveTypes, CheckpointTypes, RestartTypes DEF Next
<1>2. CASE UNCHANGED vars
  BY Zenon, <1>2, ShapeFixed DEF vars, files, regions, switches, writes, TypeInv, RegionTypes,
     OtherTypes, Placed
<1> QED
  BY Zenon, <1>1, <1>2

-----------------------------------------------------------------------------
(* Checkpoints                                                             *)

(* There is no checkpoint yet.                                             *)
LEMMA CheckpointInitially == Init => CheckpointInv
  BY DEF Init, NoCheckpoint, CheckpointInv, CheckpointSteps

(* Steps between checkpoints change neither the checkpoint nor the file    *)
(* that the regions are in, except to make it longer.                      *)
LEMMA CheckpointFrame ==
    ASSUME TypeInv, CheckpointInv, UNCHANGED <<cpt, enabled, cptOpen>>,
           step' \notin CheckpointSteps,
           \/ UNCHANGED <<numRegions, fileSize>>
           \/ numRegions' = numRegions + 1 /\ fileSize' = numRegions + 1
    PROVE  CheckpointInv'
<1>1. numRegions \in Int /\ fileSize \in Int /\ cpt.numRegions \in Int
  BY ShapeType DEF TypeInv, RegionTypes, OtherTypes
<1>2. numRegions' <= fileSize' /\ cpt'.numRegions <= numRegions'
  BY <1>1 DEF CheckpointInv
<1> QED
  BY Zenon, <1>2 DEF CheckpointInv, CheckpointSteps

(* growOrEvictLocked changes the size of the file only to grow.            *)
LEMMA SpaceKeepsCheckpoint ==
    ASSUME NEW ps, GrowOrEvict(ps)
    PROVE  \/ UNCHANGED <<numRegions, fileSize>>
           \/ numRegions' = numRegions + 1 /\ fileSize' = numRegions + 1
  BY Zenon DEF GrowOrEvict, Grow, EvictSome, Suspend

(* checkpoint and its failure, then recovery from it.                      *)
LEMMA CheckpointStep == TypeInv /\ CheckpointInv /\ [Next]_vars => CheckpointInv'
<1> SUFFICES ASSUME TypeInv, CheckpointInv, [Next]_vars PROVE CheckpointInv'
  BY Zenon
<1> USE DEF files, regions, switches, writes
<1>1. ASSUME NEW k \in Keys, Find(k) PROVE CheckpointInv'
  BY Zenon, <1>1, CheckpointFrame DEF Find, Unlocked, CheckpointSteps
<1>2. ASSUME NEW p \in pins, Unpin(p) PROVE CheckpointInv'
  <2>1. UNCHANGED <<cpt, enabled, cptOpen>> /\ step' \notin CheckpointSteps
    BY Zenon, <1>2 DEF Unpin, Unlocked, CheckpointSteps
  <2>2. GrowOrEvict(pins') \/ UNCHANGED <<numRegions, fileSize>>
    BY Zenon, <1>2 DEF Unpin
  <2> QED
    BY Zenon, <2>1, <2>2, SpaceKeepsCheckpoint, CheckpointFrame
<1>3. ASSUME NEW p \in pins, Erase(p) PROVE CheckpointInv'
  BY Zenon, <1>3, CheckpointFrame DEF Erase, Unlocked, CheckpointSteps
<1>4. ASSUME NEW ks, StartWrite(ks) PROVE CheckpointInv'
  BY Zenon, <1>4, CheckpointFrame DEF StartWrite, CheckpointSteps
<1>5. ASSUME NEW ks, RemoveFileEntries(ks) PROVE CheckpointInv'
  <2>1. UNCHANGED <<cpt, enabled, cptOpen, numRegions, fileSize>> /\ step' = "idle"
    BY Zenon, <1>5 DEF RemoveFileEntries
  <2> QED
    BY Zenon, <2>1, CheckpointFrame DEF CheckpointSteps
<1>6. CASE GetSpace
  BY Zenon, <1>6, CheckpointFrame DEF GetSpace, CheckpointSteps
<1>7. CASE MakeSpace
  <2>1. UNCHANGED <<cpt, enabled, cptOpen>> /\ step' \notin CheckpointSteps /\ GrowOrEvict(pins)
    BY Zenon, <1>7 DEF MakeSpace, CheckpointSteps
  <2> QED
    BY Zenon, <2>1, SpaceKeepsCheckpoint, CheckpointFrame
<1>8. CASE WriteData
  BY Zenon, <1>8, CheckpointFrame DEF WriteData, CheckpointSteps
<1>9. CASE Publish
  BY Zenon, <1>9, CheckpointFrame DEF Publish, CheckpointSteps
<1>10. CASE FinishWrite \/ ForceCheckpoint
  BY Zenon, <1>10 DEF FinishWrite, ForceCheckpoint, NeedCheckpoint, CheckpointInv, CheckpointSteps
<1>11. CASE Truncate
  <2>1. cptOpen => cpt'.state = "empty" /\ cpt'.numRegions = 0
    BY <1>11 DEF Truncate, NoCheckpoint
  <2>2. numRegions \in Nat
    BY ShapeType DEF TypeInv, RegionTypes
  <2> QED
    BY <1>11, <2>1, <2>2 DEF Truncate, CheckpointInv, CheckpointSteps
<1>12. CASE AppendBuffers
  <2>1. numRegions \in Nat
    BY ShapeType DEF TypeInv, RegionTypes
  <2> QED
    BY <1>12, <2>1 DEF AppendBuffers, CheckpointInv, CheckpointSteps
<1>13. CASE AppendEnd
  <2>1. CASE UNCHANGED cpt /\ step' = "deleteLog"
    BY Zenon, <1>13, <2>1 DEF AppendEnd, CheckpointInv, CheckpointSteps
  <2>2. CASE cpt' = [cpt EXCEPT !.state = "complete"] /\ step' = "log"
    <3>1. cpt' = [state |-> "complete", numRegions |-> cpt.numRegions, entries |-> cpt.entries]
      BY Zenon, <2>2 DEF TypeInv, OtherTypes
    <3> QED
      BY Zenon, <1>13, <2>2, <3>1 DEF AppendEnd, CheckpointInv, CheckpointSteps
  <2> QED
    BY Zenon, <1>13, <2>1, <2>2 DEF AppendEnd
<1>14. CASE TruncateLog \/ DeleteLog
  BY Zenon, <1>14 DEF TruncateLog, DeleteLog, CheckpointInv, CheckpointSteps
<1>15. CASE DeleteCheckpoint
  <2>1. numRegions \in Nat
    BY ShapeType DEF TypeInv, RegionTypes
  <2> QED
    BY <1>15, <2>1 DEF DeleteCheckpoint, NoCheckpoint, CheckpointInv, CheckpointSteps
<1>16. CASE Restart
  <2>1. numRegions \in Nat /\ fileSize \in Nat /\ cpt.numRegions \in Nat
    BY ShapeType DEF TypeInv, RegionTypes, OtherTypes
  <2>2. CASE ReadCheckpoint
    BY <1>16, <2>1, <2>2 DEF Restart, ReadCheckpoint, CheckpointInv, CheckpointSteps
  <2>3. CASE NoRecovery
    <3>1. numRegions' <= fileSize' /\ cpt'.numRegions <= numRegions' /\ cpt'.state # "complete"
      BY <1>16, <2>1, <2>3 DEF Restart, NoRecovery, NoCheckpoint, CheckpointInv
    <3> QED
      BY Zenon, <1>16, <3>1 DEF Restart, CheckpointInv, CheckpointSteps
  <2> QED
    BY Zenon, <1>16, <2>2, <2>3 DEF Restart
<1>17. CASE UNCHANGED vars
  BY Zenon, <1>17 DEF vars, CheckpointInv
<1> QED
  BY <1>1, <1>2, <1>3, <1>4, <1>5, <1>6, <1>7, <1>8, <1>9, <1>10, <1>11, <1>12, <1>13, <1>14,
     <1>15, <1>16, <1>17 DEF Next

-----------------------------------------------------------------------------
(* Suspension                                                              *)

(* The pins of a region are counted: none of them, or one.                 *)
LEMMA PinCount ==
    ASSUME TypeInv, NEW r
    PROVE  /\ RegionPins(r) \in Nat
           /\ RegionPins(r) = 0 <=> ~\E p \in pins : p[2][1] = r
           /\ \A p \in pins : p[2][1] = r /\ RegionPins(r) # 1 =>
                 \E q \in pins \ {p} : q[2][1] = r
<1> DEFINE Q == {p \in pins : p[2][1] = r}
<1>1. IsFiniteSet(pins) /\ Q \in SUBSET pins
  BY Zenon DEF TypeInv, OtherTypes
<1>2. IsFiniteSet(Q) /\ RegionPins(r) = Cardinality(Q)
  BY Zenon, <1>1, FS_Subset DEF RegionPins
<1>3. Cardinality(Q) \in Nat
  BY Zenon, <1>2, FS_CardinalityType
<1>4. Cardinality(Q) = 0 <=> Q = {}
  BY Zenon, <1>2, FS_EmptySet
<1>5. Cardinality(Q) = 1 <=> \E x : Q = {x}
  BY Zenon, <1>2, FS_Singleton
<1>6. ASSUME NEW p \in pins, p[2][1] = r, Cardinality(Q) # 1
      PROVE  \E q \in pins \ {p} : q[2][1] = r
  <2>1. p \in Q /\ Q # {p}
    BY Zenon, <1>5, <1>6
  <2>2. PICK q \in Q : q # p
    BY Zenon, <2>1
  <2> QED
    BY Zenon, <2>2
<1> QED
  BY Zenon, <1>2, <1>3, <1>4, <1>6

(* A new cache is not suspended.                                           *)
LEMMA SuspendInitially == Init => SuspendInv
  BY Zenon DEF Init, SuspendInv

(* unpinRegion: the cache goes on only when a region is left without pins. *)
LEMMA UnpinSuspend ==
    ASSUME TypeInv, SuspendInv, NEW p \in pins, Unpin(p)
    PROVE  SuspendInv'
<1>0. UNCHANGED <<shape, step>> /\ pins' = pins \ {p}
  BY Zenon DEF Unpin, switches, writes
<1>1. MaxRegions' = MaxRegions /\ Regions' = Regions
  BY Zenon, <1>0, ShapeFixed
<1>2. CASE ~suspended
  <2>1. suspended' = suspended
    BY Zenon, <1>2 DEF Unpin, Resumes, regions
  <2> QED
    BY Zenon, <1>2, <2>1 DEF SuspendInv
<1>3. CASE suspended
  <2>1. /\ numRegions = MaxRegions /\ writable = <<>> /\ step \notin {"write", "publish"}
        /\ \A r \in Regions : \E q \in pins : q[2][1] = r
    BY Zenon, <1>3 DEF SuspendInv, Evictable
  <2>2. MaxRegions \in Nat
    BY Zenon, ShapeType DEF TypeInv
  <2>3. CASE Resumes(p) /\ GrowOrEvict(pins')
    <3>1. ~Grow
      BY <2>1, <2>2 DEF Grow
    <3>2. CASE EvictSome(pins')
      BY Zenon, <3>2 DEF EvictSome, SuspendInv
    <3>3. CASE Suspend(pins')
      <4>1. numRegions' = MaxRegions' /\ writable' = <<>> /\ step' \notin {"write", "publish"}
        BY Zenon, <1>0, <1>1, <2>1, <3>3 DEF Suspend
      <4>2. Evictable(pins)' = {}
        BY Zenon, <1>1, <3>3 DEF Suspend, Evictable
      <4> QED
        BY Zenon, <4>1, <4>2 DEF SuspendInv
    <3> QED
      BY Zenon, <2>3, <3>1, <3>2, <3>3 DEF GrowOrEvict
  <2>4. CASE ~Resumes(p) /\ UNCHANGED <<disk, fileSize, log, regions, known>>
    <3>1. RegionPins(p[2][1]) # 1
      BY Zenon, <1>3, <2>4 DEF Resumes
    <3>2. \E q \in pins \ {p} : q[2][1] = p[2][1]
      BY Zenon, <3>1, PinCount
    <3>3. \A r \in Regions : \E q \in pins \ {p} : q[2][1] = r
      BY Zenon, <2>1, <3>2
    <3>4. Evictable(pins)' = {}
      BY Zenon, <1>0, <1>1, <3>3 DEF Evictable
    <3> QED
      BY Zenon, <1>0, <1>1, <2>1, <2>4, <3>4 DEF SuspendInv, regions
  <2> QED
    BY Zenon, <2>3, <2>4 DEF Unpin
<1> QED
  BY Zenon, <1>2, <1>3 DEF TypeInv, RegionTypes

(* removeFileEntries finds no entry to remove in a suspended cache.        *)
LEMMA RemoveNotSuspended ==
    ASSUME TypeInv, SuspendInv, NEW ks, RemoveFileEntries(ks)
    PROVE  ~suspended
<1>1. PICK k \in DOMAIN entries : RegionPins(entries[k][1]) = 0
  BY Zenon DEF RemoveFileEntries
<1>2. entries[k][1] \in Regions
  BY Zenon DEF TypeInv, RegionTypes, Placed, Runs
<1>3. entries[k][1] \in Evictable(pins)
  BY Zenon, <1>1, <1>2, PinCount DEF Evictable
<1> QED
  BY Zenon, <1>3 DEF SuspendInv

(* Only growOrEvictLocked and unpinRegion set suspended_.                  *)
LEMMA SuspendStep == TypeInv /\ SuspendInv /\ [Next]_vars => SuspendInv'
<1> SUFFICES ASSUME TypeInv, SuspendInv, [Next]_vars PROVE SuspendInv'
  BY Zenon
<1> USE DEF files, regions, switches, writes
<1>1. ASSUME NEW k \in Keys, Find(k) PROVE SuspendInv'
  BY Zenon, <1>1 DEF Find, SuspendInv
<1>2. ASSUME NEW p \in pins, Unpin(p) PROVE SuspendInv'
  BY Zenon, <1>2, UnpinSuspend
<1>3. ASSUME /\ shape' = shape /\ step' \notin {"write", "publish"}
             /\ UNCHANGED <<numRegions, writable, suspended, pins>>
      PROVE  SuspendInv'
  <2>1. MaxRegions' = MaxRegions /\ Evictable(pins)' = Evictable(pins)
    BY Zenon, <1>3, ShapeFixed DEF Evictable
  <2> QED
    BY Zenon, <1>3, <2>1 DEF SuspendInv
<1>4. ASSUME NEW p \in pins, Erase(p) PROVE SuspendInv'
  <2>1. shape' = shape /\ UNCHANGED <<numRegions, writable, suspended, pins, step>>
    BY Zenon, <1>4 DEF Erase
  <2>2. MaxRegions' = MaxRegions /\ Evictable(pins)' = Evictable(pins)
    BY Zenon, <2>1, ShapeFixed DEF Evictable
  <2> QED
    BY Zenon, <2>1, <2>2 DEF SuspendInv
<1>5. ASSUME NEW ks, StartWrite(ks) PROVE SuspendInv'
  BY Zenon, <1>3, <1>5 DEF StartWrite
<1>6. ASSUME NEW ks, RemoveFileEntries(ks) PROVE SuspendInv'
  <2>1. suspended' = suspended
    BY Zenon, <1>6 DEF RemoveFileEntries
  <2> QED
    BY Zenon, <1>6, <2>1, RemoveNotSuspended DEF SuspendInv
<1>7. CASE GetSpace
  BY Zenon, <1>7 DEF GetSpace, SuspendInv
<1>8. CASE MakeSpace
  <2>1. shape' = shape /\ pins' = pins /\ writable = <<>> /\ (suspended' => step' = "idle")
    BY Zenon, <1>8 DEF MakeSpace
  <2>2. MaxRegions' = MaxRegions /\ Evictable(pins)' = Evictable(pins) /\ MaxRegions \in Nat
    BY Zenon, <2>1, ShapeFixed, ShapeType DEF Evictable, TypeInv
  <2>3. CASE Grow
    <3>1. ~suspended /\ suspended' = suspended
      BY <2>2, <2>3 DEF Grow, SuspendInv
    <3> QED
      BY Zenon, <3>1 DEF SuspendInv
  <2>4. CASE EvictSome(pins)
    BY Zenon, <2>4 DEF EvictSome, SuspendInv
  <2>5. CASE Suspend(pins)
    BY Zenon, <2>1, <2>2, <2>5 DEF Suspend, SuspendInv
  <2> QED
    BY Zenon, <1>8, <2>3, <2>4, <2>5 DEF MakeSpace, GrowOrEvict
<1>9. CASE WriteData \/ Publish
  BY Zenon, <1>9 DEF WriteData, Publish, SuspendInv
<1>10. CASE FinishWrite \/ ForceCheckpoint \/ Truncate \/ AppendBuffers \/ AppendEnd
  BY Zenon, <1>3, <1>10 DEF FinishWrite, ForceCheckpoint, Truncate, AppendBuffers, AppendEnd
<1>11. CASE TruncateLog \/ DeleteLog \/ DeleteCheckpoint
  BY Zenon, <1>3, <1>11 DEF TruncateLog, DeleteLog, DeleteCheckpoint
<1>12. CASE Restart
  BY Zenon, <1>12 DEF Restart, SuspendInv
<1>13. CASE UNCHANGED vars
  BY Zenon, <1>13 DEF vars, SuspendInv, Evictable, MaxRegions, Regions
<1> QED
  BY Zenon, <1>1, <1>2, <1>4, <1>5, <1>6, <1>7, <1>8, <1>9, <1>10, <1>11, <1>12, <1>13 DEF Next

-----------------------------------------------------------------------------
(* Data                                                                    *)

(* Limits are numbers.                                                     *)
LEMMA LimitType ==
    ASSUME TypeInv, NEW r \in Regions
    PROVE  Limit(r) \in Int /\ regionSizes[r] \in Int
  BY ShapeType DEF Limit, TypeInv, RegionTypes, OtherTypes

(* What a step must keep, if it evicts the regions rs: what is on the SSD  *)
(* in the others, and a record in the log of the ones evicted.             *)
LEMMA DataFrame ==
    ASSUME TypeInv, DataInv, NEW rs,
           \A k : \A run \in Runs : Kept(k, run) /\ run[1] \notin rs => Kept(k, run)',
           \A k \in DOMAIN entries' :
              \/ k \in DOMAIN entries /\ entries'[k] = entries[k] /\ entries[k][1] \notin rs
              \/ Kept(k, entries[k])',
           \A p \in pins' : (p \in pins /\ p[2][1] \notin rs) \/ Kept(p[1], p[2])',
           cpt'.state = "complete" =>
              \/ cpt' = cpt /\ Range(log) \cup rs \subseteq Range(log')
              \/ cpt'.entries = entries' /\ cpt'.numRegions = numRegions'
    PROVE  DataInv'
<1>1. Placed(entries) /\ Placed(cpt.entries) /\ pins \subseteq Keys \X Runs
  BY Zenon DEF TypeInv, RegionTypes, OtherTypes
<1>2. \A k \in DOMAIN entries' : Kept(k, entries[k])'
  <2>1. TAKE k \in DOMAIN entries'
  <2>2. CASE Kept(k, entries[k])'
    BY Zenon, <2>2
  <2>3. CASE k \in DOMAIN entries /\ entries'[k] = entries[k] /\ entries[k][1] \notin rs
    <3>1. entries[k] \in Runs /\ Kept(k, entries[k])
      BY Zenon, <1>1, <2>3 DEF DataInv, Placed
    <3>2. PICK run \in Runs : run = entries[k]
      BY Zenon, <3>1
    <3>3. Kept(k, run)'
      BY Zenon, <2>3, <3>1, <3>2
    <3>4. entries'[k] = run
      BY Zenon, <2>3, <3>2
    <3> QED
      BY Zenon, <3>3, <3>4 DEF Kept, DiskAt, Limit
  <2> QED
    BY Zenon, <2>2, <2>3
<1>3. \A p \in pins' : Kept(p[1], p[2])'
  <2>1. TAKE p \in pins'
  <2>2. p \in pins => p[2] \in Runs /\ Kept(p[1], p[2])
    BY Zenon, <1>1 DEF DataInv
  <2> QED
    BY Zenon, <2>2
<1>4. CASE cpt'.state # "complete"
  BY Zenon, <1>2, <1>3, <1>4 DEF DataInv
<1>5. CASE /\ cpt'.state = "complete"
           /\ cpt'.entries = entries' /\ cpt'.numRegions = numRegions'
  <2>1. \A k \in DOMAIN entries' : entries'[k][1] < numRegions'
    BY Zenon, <1>2 DEF Kept
  <2> QED
    BY Zenon, <1>2, <1>3, <1>5, <2>1 DEF DataInv
<1>6. CASE /\ cpt'.state = "complete"
           /\ cpt' = cpt /\ Range(log) \cup rs \subseteq Range(log')
  <2>1. ASSUME NEW k \in DOMAIN cpt.entries
        PROVE  /\ cpt.entries[k][1] < cpt.numRegions
               /\ cpt.entries[k][1] \in Range(log') \/ Kept(k, cpt.entries[k])'
    <3>1. /\ cpt.entries[k][1] < cpt.numRegions /\ cpt.entries[k] \in Runs
          /\ cpt.entries[k][1] \in Range(log) \/ Kept(k, cpt.entries[k])
      BY Zenon, <1>1, <1>6 DEF DataInv, Placed
    <3>2. Kept(k, cpt.entries[k]) /\ cpt.entries[k][1] \notin rs => Kept(k, cpt.entries[k])'
      BY Zenon, <1>6, <3>1 DEF Kept, DiskAt, Limit
    <3> QED
      BY Zenon, <1>6, <3>1, <3>2
  <2>2. \A k \in DOMAIN cpt'.entries :
           /\ cpt'.entries[k][1] < cpt'.numRegions
           /\ cpt'.entries[k][1] \in Range(log') \/ Kept(k, cpt.entries[k])'
    BY Zenon, <1>6, <2>1
  <2> QED
    BY Zenon, <1>2, <1>3, <2>2 DEF DataInv
<1> QED
  BY Zenon, <1>4, <1>5, <1>6

(* A step that writes nothing and makes no region smaller.                 *)
LEMMA KeptFrame ==
    ASSUME UNCHANGED <<disk, numRegions, regionSizes>>,
           \/ step' \notin {"write", "publish"} /\ step \notin {"write", "publish"}
           \/ UNCHANGED <<step, space>>
    PROVE  \A k : \A run \in Runs : Kept(k, run) => Kept(k, run)'
  BY Zenon DEF Kept, DiskAt, Limit

(* logEviction: the new record is in the log ..                            *)
LEMMA EvictLogs ==
    ASSUME TypeInv, NEW rs \in Seq(Regions), NEW es, NEW er, Evict(rs, es, er),
           enabled, known' = {}
    PROVE  Range(log) \cup Range(rs) \subseteq Range(log')
<1>1. Range(log) \subseteq Range(log')
  BY Zenon DEF Evict
<1>2. log' = LogEviction(rs) /\ log \in Seq(Regions)
  BY Zenon DEF Evict, TypeInv, RegionTypes
<1>3. SubSeq(log, Len(rs) + 1, Len(log)) \in Seq(Regions)
  BY <1>2
<1>4. \A i \in 1..Len(rs) : i \in 1..Len(log') /\ log'[i] = rs[i]
  BY <1>2, <1>3 DEF LogEviction
<1>5. DOMAIN log' = 1..Len(log') /\ DOMAIN rs = 1..Len(rs)
  BY <1>2, <1>3 DEF LogEviction
<1>6. Range(rs) \subseteq Range(log')
  BY Zenon, <1>4, <1>5 DEF Range
<1> QED
  BY Zenon, <1>1, <1>6

(* .. and what is left after the eviction is where it was.                 *)
LEMMA EvictKeepsData ==
    ASSUME TypeInv, CheckpointInv, known = {} => DataInv, shape' = shape,
           NEW rs \in Seq(Regions), NEW es, NEW er, Evict(rs, es, er), known' = {},
           \A k \in DOMAIN es : k \in DOMAIN entries /\ es[k] = entries[k],
           \A p \in pins' : p \in pins /\ p[2][1] \notin Range(rs),
           step \notin {"write", "publish"}, step' \notin {"write", "publish"},
           UNCHANGED <<disk, numRegions, cpt>>
    PROVE  DataInv' /\ known = {}
<1>1. known = {}
  BY Zenon DEF Evict
<1>2. \A k : \A run \in Runs : Kept(k, run) /\ run[1] \notin Range(rs) => Kept(k, run)'
  <2>1. TAKE k
  <2>2. TAKE run \in Runs
  <2>3. run[1] \in Regions
    BY Zenon DEF Runs
  <2>4. run[1] \notin Range(rs) => regionSizes'[run[1]] = regionSizes[run[1]]
    BY Zenon, <2>3 DEF Evict, Emptied
  <2> QED
    BY Zenon, <2>4 DEF Kept, DiskAt, Limit
<1>3. \A k \in DOMAIN entries' :
         k \in DOMAIN entries /\ entries'[k] = entries[k] /\ entries[k][1] \notin Range(rs)
  BY Zenon DEF Evict, Cleared
<1>4. cpt'.state = "complete" => cpt' = cpt /\ Range(log) \cup Range(rs) \subseteq Range(log')
  BY Zenon, EvictLogs DEF CheckpointInv
<1>5. DataInv'
  BY Zenon, <1>1, <1>2, <1>3, <1>4, DataFrame
<1> QED
  BY Zenon, <1>1, <1>5

-----------------------------------------------------------------------------
(* Every step keeps FileInv                                                *)

(* A new cache has no entries.                                             *)
LEMMA FileInitially == Init => FileInv
  BY DEF Init, FileInv, SpaceInv, DataInv, NoCheckpoint

(* growOrEvictLocked: neither the entries that stay nor the pinned ones    *)
(* are in a region that will be written from its start.                    *)
LEMMA SpaceKeepsData ==
    ASSUME TypeInv, CheckpointInv, FileInv, shape' = shape, pins' \subseteq pins,
           NEW ps, ps = pins', GrowOrEvict(ps), cpt' = cpt,
           step \notin {"write", "publish"}, step' \notin {"write", "publish"}
    PROVE  FileInv'
<1> SUFFICES ASSUME known' = {} PROVE SpaceInv' /\ DataInv'
  BY Zenon DEF FileInv
<1>0. MaxRegions \in Nat /\ numRegions \in 0..MaxRegions /\ fileSize \in Nat
      /\ regionSizes \in [Regions -> 0..RegionSize] /\ writable \in Seq(Regions)
  BY ShapeType DEF TypeInv, RegionTypes
<1>1. CASE Grow
  <2>1. known = {} /\ SpaceInv /\ DataInv
    BY Zenon, <1>1 DEF Grow, FileInv
  <2>2. numRegions <= fileSize /\ numRegions' = numRegions + 1
    BY Zenon, <1>1 DEF CheckpointInv, Grow
  <2>3. ASSUME NEW run \in Runs, run[1] < numRegions
        PROVE  DiskAt(run)' = DiskAt(run) /\ regionSizes'[run[1]] = regionSizes[run[1]]
    <3>1. run[1] \in Regions /\ run[1] \in Int /\ run[1] # numRegions
      BY <1>0, <2>3 DEF Runs, Regions
    <3>2. disk'[run[1]] = disk[run[1]]
      BY <1>0, <1>1, <2>2, <2>3, <3>1 DEF Grow
    <3>3. regionSizes'[run[1]] = regionSizes[run[1]]
      BY Zenon, <1>0, <1>1, <3>1 DEF Grow
    <3> QED
      BY Zenon, <3>2, <3>3 DEF DiskAt
  <2>4. \A k : \A run \in Runs : Kept(k, run) /\ run[1] \notin {} => Kept(k, run)'
    <3>1. TAKE k
    <3>2. TAKE run \in Runs
    <3>3. run[1] \in Int
      BY <1>0 DEF Runs, Regions
    <3> QED
      BY <1>0, <2>2, <2>3, <3>3 DEF Kept, Limit
  <2>5. UNCHANGED <<entries, log>>
    BY Zenon, <1>1 DEF Grow
  <2>6. DataInv'
    BY <2>1, <2>4, <2>5, DataFrame
  <2>7. \A i \in DOMAIN writable' : writable'[i] < numRegions'
    <3>1. writable' = Append(writable, numRegions)
      BY Zenon, <1>1 DEF Grow
    <3>2. \A i \in DOMAIN writable : writable[i] < numRegions /\ writable[i] \in Int
      BY <1>0, <2>1 DEF SpaceInv, Regions
    <3> QED
      BY <1>0, <2>2, <3>1, <3>2
  <2> QED
    BY Zenon, <2>6, <2>7 DEF SpaceInv
<1>2. CASE EvictSome(ps)
  <2>1. numRegions = MaxRegions /\ UNCHANGED <<disk, numRegions>>
    BY Zenon, <1>2 DEF EvictSome
  <2>2. PICK n \in 1..NumCandidates :
           \E rs \in {q \in [1..n -> Evictable(ps)] : IsInjective(q)} :
               Evict(rs, entries, erased) /\ writable' = rs
    BY Zenon, <1>2 DEF EvictSome
  <2>3. PICK rs \in [1..n -> Evictable(ps)] :
           Evict(rs, entries, erased) /\ writable' = rs
    BY Zenon, <2>2
  <2>4. n \in Nat /\ rs \in [1..n -> Regions]
    BY SsdFileAssumption DEF Evictable
  <2>5. rs \in Seq(Regions)
    BY Zenon, <2>4, SeqOf
  <2>6. \A p \in pins' : p \in pins /\ p[2][1] \notin Range(rs)
    BY Zenon DEF Evictable, Range
  <2>7. known = {} => DataInv
    BY Zenon DEF FileInv
  <2>8. DataInv'
    BY Zenon, <2>1, <2>3, <2>5, <2>6, <2>7, EvictKeepsData
  <2>9. \A i \in DOMAIN writable' : writable'[i] < numRegions'
    BY <1>0, <2>1, <2>3, <2>4 DEF Regions
  <2> QED
    BY Zenon, <2>8, <2>9 DEF SpaceInv
<1>3. CASE Suspend(ps)
  <2>1. UNCHANGED <<disk, numRegions, regionSizes, writable, entries, log, known>>
    BY Zenon, <1>3 DEF Suspend
  <2>2. SpaceInv /\ DataInv
    BY Zenon, <2>1 DEF FileInv
  <2>3. \A k : \A run \in Runs : Kept(k, run) /\ run[1] \notin {} => Kept(k, run)'
    BY Zenon, <2>1, KeptFrame
  <2>4. DataInv'
    BY Zenon, <2>1, <2>2, <2>3, DataFrame
  <2> QED
    BY Zenon, <2>1, <2>2, <2>4 DEF SpaceInv
<1> QED
  BY Zenon, <1>1, <1>2, <1>3 DEF GrowOrEvict

(* Steps that touch neither the regions nor what is being written.         *)
LEMMA FileFrame ==
    ASSUME TypeInv, FileInv,
           UNCHANGED <<disk, numRegions, regionSizes, writable, known>>,
           \/ step' \notin {"write", "publish"} /\ step \notin {"write", "publish"}
           \/ UNCHANGED <<step, space, batch>>,
           \A k \in DOMAIN entries' : k \in DOMAIN entries /\ entries'[k] = entries[k],
           \A p \in pins' : p \in pins \/ (p[1] \in DOMAIN entries /\ p[2] = entries[p[1]]),
           cpt'.state = "complete" =>
              \/ cpt' = cpt /\ log' = log
              \/ cpt'.entries = entries' /\ cpt'.numRegions = numRegions'
    PROVE  FileInv'
<1> SUFFICES ASSUME known = {} PROVE SpaceInv' /\ DataInv'
  BY Zenon DEF FileInv
<1>1. SpaceInv /\ DataInv
  BY Zenon DEF FileInv
<1>2. \A k : \A run \in Runs : Kept(k, run) => Kept(k, run)'
  BY Zenon, KeptFrame
<1>3. ASSUME NEW p \in pins', p \notin pins PROVE Kept(p[1], p[2])'
  <2>1. p[1] \in DOMAIN entries /\ p[2] = entries[p[1]]
    BY Zenon, <1>3
  <2>2. p[2] \in Runs /\ Kept(p[1], p[2])
    BY Zenon, <1>1, <2>1 DEF DataInv, TypeInv, RegionTypes, Placed
  <2> QED
    BY Zenon, <1>2, <2>2
<1>4. DataInv'
  <2>1. \A k : \A run \in Runs : Kept(k, run) /\ run[1] \notin {} => Kept(k, run)'
    BY Zenon, <1>2
  <2>2. \A p \in pins' : (p \in pins /\ p[2][1] \notin {}) \/ Kept(p[1], p[2])'
    BY Zenon, <1>3
  <2> QED
    BY <1>1, <2>1, <2>2, DataFrame
<1>5. SpaceInv'
  BY Zenon, <1>1 DEF SpaceInv
<1> QED
  BY Zenon, <1>4, <1>5

(* find, erase and unpinRegion, which may evict for a suspended write.     *)
LEMMA LoadKeepsFile ==
    ASSUME TypeInv, CheckpointInv, SuspendInv, FileInv,
           (\E k \in Keys : Find(k)) \/ \E p \in pins : Unpin(p) \/ Erase(p)
    PROVE  FileInv'
<1> USE DEF files, regions, switches, writes
<1>1. ASSUME NEW k \in Keys, Find(k) PROVE FileInv'
  <2>1. /\ UNCHANGED <<disk, numRegions, regionSizes, writable, known, step, space, batch,
                       entries, cpt, log>>
        /\ \A p \in pins' : p \in pins \/ (p[1] \in DOMAIN entries /\ p[2] = entries[p[1]])
    BY <1>1 DEF Find
  <2> QED
    BY Zenon, <2>1, FileFrame
<1>2. ASSUME NEW p \in pins, Erase(p) PROVE FileInv'
  <2>1. /\ UNCHANGED <<disk, numRegions, regionSizes, writable, known, step, space, batch,
                       pins, cpt, log>>
        /\ \A k \in DOMAIN entries' : k \in DOMAIN entries /\ entries'[k] = entries[k]
    BY Zenon, <1>2 DEF Erase
  <2> QED
    BY Zenon, <2>1, FileFrame
<1>3. ASSUME NEW p \in pins, Unpin(p) PROVE FileInv'
  <2>1. pins' \subseteq pins /\ UNCHANGED <<shape, cpt, step, space, batch>>
    BY Zenon, <1>3 DEF Unpin
  <2>2. CASE Resumes(p) /\ GrowOrEvict(pins')
    <3>1. step \notin {"write", "publish"} /\ step' \notin {"write", "publish"}
      BY Zenon, <2>1, <2>2 DEF Resumes, SuspendInv
    <3> QED
      BY Zenon, <2>1, <2>2, <3>1, SpaceKeepsData
  <2>3. CASE UNCHANGED <<disk, fileSize, log, regions, known>>
    BY Zenon, <2>1, <2>3, FileFrame
  <2> QED
    BY Zenon, <1>3, <2>2, <2>3 DEF Unpin
<1> QED
  BY Zenon, <1>1, <1>2, <1>3

(* getSpace, when it has to grow the file or to evict.                     *)
LEMMA MakeSpaceKeepsFile ==
    ASSUME TypeInv, CheckpointInv, FileInv, MakeSpace
    PROVE  FileInv'
<1>1. /\ shape' = shape /\ pins' = pins /\ cpt' = cpt /\ GrowOrEvict(pins)
      /\ step \notin {"write", "publish"} /\ step' \notin {"write", "publish"}
  BY Zenon DEF MakeSpace, switches
<1> QED
  BY Zenon, <1>1, SpaceKeepsData

(* The space that getSpace takes is after all entries of the region.       *)
LEMMA GetSpaceKeepsFile ==
    ASSUME TypeInv, FileInv, GetSpace
    PROVE  FileInv'
<1> DEFINE r == Head(writable)
           free == RegionSize - regionSizes[r]
           n == IF Len(batch) < free THEN Len(batch) ELSE free
<1> SUFFICES ASSUME known' = {} PROVE SpaceInv' /\ DataInv'
  BY Zenon DEF FileInv
<1>1. UNCHANGED <<disk, numRegions, entries, pins, cpt, log, batch, known>> /\ step = "getSpace"
  BY Zenon DEF GetSpace, files, switches
<1>2. SpaceInv /\ DataInv
  BY Zenon, <1>1 DEF FileInv
<1>3. \/ /\ n > 0
         /\ space' = [region |-> r, offset |-> regionSizes[r], size |-> n]
         /\ regionSizes' = [regionSizes EXCEPT ![r] = @ + n]
         /\ step' = "write" /\ writable' = writable
      \/ writable' = Tail(writable) /\ UNCHANGED <<space, regionSizes, step>>
  BY Zenon DEF GetSpace
<1>4. /\ regionSizes \in [Regions -> 0..RegionSize] /\ writable \in Seq(Regions)
      /\ writable # <<>> /\ RegionSize \in Nat /\ Len(batch) \in Nat
  <2>1. regionSizes \in [Regions -> 0..RegionSize] /\ writable \in Seq(Regions)
    BY Zenon DEF TypeInv, RegionTypes
  <2>2. RegionSize \in Nat
    BY Zenon, ShapeType DEF TypeInv
  <2>3. Len(batch) \in Nat
    BY DEF TypeInv, OtherTypes
  <2>4. writable # <<>>
    BY Zenon DEF GetSpace
  <2> QED
    BY Zenon, <2>1, <2>2, <2>3, <2>4
<1>5. /\ r \in Regions /\ 1 \in DOMAIN writable /\ r = writable[1]
      /\ \A i \in DOMAIN Tail(writable) :
            i + 1 \in DOMAIN writable /\ Tail(writable)[i] = writable[i + 1]
  BY <1>4
<1>6. r < numRegions /\ \A i \in DOMAIN writable : writable[i] < numRegions
  BY Zenon, <1>2, <1>5 DEF SpaceInv
<1>7. CASE writable' = Tail(writable) /\ UNCHANGED <<space, regionSizes, step>>
  <2>1. \A k : \A run \in Runs : Kept(k, run) /\ run[1] \notin {} => Kept(k, run)'
    BY Zenon, <1>1, <1>7, KeptFrame
  <2>2. DataInv'
    BY Zenon, <1>1, <1>2, <1>7, <2>1, DataFrame
  <2> QED
    BY Zenon, <1>1, <1>2, <1>5, <1>6, <1>7, <2>2 DEF SpaceInv
<1>8. CASE /\ n > 0
           /\ space' = [region |-> r, offset |-> regionSizes[r], size |-> n]
           /\ regionSizes' = [regionSizes EXCEPT ![r] = @ + n]
           /\ step' = "write" /\ writable' = writable
  <2> HIDE DEF n, r
  <2>1. \A x \in Regions : Limit(x)' = regionSizes[x] /\ Limit(x) = regionSizes[x]
    BY Zenon, <1>1, <1>4, <1>5, <1>8 DEF Limit
  <2>2. \A k : \A run \in Runs : Kept(k, run) /\ run[1] \notin {} => Kept(k, run)'
    <3>1. TAKE k
    <3>2. TAKE run \in Runs
    <3>3. run[1] \in Regions
      BY Zenon DEF Runs
    <3>4. Limit(run[1])' = Limit(run[1])
      BY Zenon, <2>1, <3>3
    <3> QED
      BY Zenon, <1>1, <3>4 DEF Kept, DiskAt
  <2>3. DataInv'
    BY Zenon, <1>1, <1>2, <2>2, DataFrame
  <2>4. /\ space'.region = r /\ space'.offset = regionSizes[r] /\ space'.size = n
        /\ regionSizes'[r] = regionSizes[r] + n /\ regionSizes[r] \in Int /\ n \in Int
    BY <1>4, <1>5, <1>8 DEF n
  <2>5. SpaceInv'
    BY <1>1, <1>6, <1>8, <2>4 DEF SpaceInv
  <2> QED
    BY Zenon, <2>3, <2>5
<1> QED
  BY Zenon, <1>3, <1>7, <1>8

(* SsdFile::write: only the space that getSpace has taken is written.      *)
LEMMA WriteKeepsFile ==
    ASSUME TypeInv, FileInv, WriteData
    PROVE  FileInv'
<1> SUFFICES ASSUME known' = {} PROVE SpaceInv' /\ DataInv'
  BY Zenon DEF FileInv
<1>1. /\ UNCHANGED <<numRegions, regionSizes, writable, entries, pins, cpt, log, space, known>>
      /\ step = "write"
  BY Zenon DEF WriteData, regions
<1>2. SpaceInv /\ DataInv
  BY Zenon, <1>1 DEF FileInv
<1>3. /\ space.region \in Regions /\ space.offset \in Nat /\ space.size \in Nat
      /\ disk \in [Regions -> [0..(RegionSize - 1) -> Keys \cup {Nothing}]]
      /\ space.offset + space.size <= RegionSize /\ RegionSize \in Nat
      /\ regionSizes[space.region] \in Int
  BY Zenon, <1>1, LimitType, ShapeType DEF TypeInv, RegionTypes, OtherTypes
<1>4. /\ space.region < numRegions
      /\ space.offset + space.size <= regionSizes[space.region]
      /\ \A i \in DOMAIN writable : writable[i] < numRegions
  BY Zenon, <1>1, <1>2 DEF SpaceInv
<1>5. CASE step' = "idle" /\ UNCHANGED disk
  <2>1. \A k : \A run \in Runs : Kept(k, run) /\ run[1] \notin {} => Kept(k, run)'
    <3>1. TAKE k
    <3>2. TAKE run \in Runs
    <3>3. run[2] \in Int
      BY <1>3 DEF Runs
    <3>4. run[2] < Limit(run[1]) => run[2] < Limit(run[1])'
      BY <1>1, <1>3, <1>4, <1>5, <3>3 DEF Limit
    <3> QED
      BY <1>1, <1>5, <3>4 DEF Kept, DiskAt
  <2>2. DataInv'
    BY Zenon, <1>1, <1>2, <2>1, DataFrame
  <2> QED
    BY Zenon, <1>1, <1>4, <1>5, <2>2 DEF SpaceInv
<1>6. CASE /\ disk' = [disk EXCEPT ![space.region] =
                        [i \in DOMAIN @ |->
                            IF i \in space.offset..(space.offset + space.size - 1)
                            THEN batch[i - space.offset + 1] ELSE @[i]]]
           /\ step' = "publish" /\ UNCHANGED batch
  <2>1. \A x \in Regions \ {space.region} : disk'[x] = disk[x]
    BY <1>3, <1>6
  <2>2. \A i \in 0..(RegionSize - 1) : disk'[space.region][i] =
           IF i \in space.offset..(space.offset + space.size - 1)
           THEN batch[i - space.offset + 1] ELSE disk[space.region][i]
    BY <1>3, <1>6
  <2>3. \A k : \A run \in Runs : Kept(k, run) /\ run[1] \notin {} => Kept(k, run)'
    <3>1. TAKE k
    <3>2. TAKE run \in Runs
    <3>3. run[1] \in Regions /\ run[2] \in 0..(RegionSize - 1)
      BY DEF Runs
    <3>4. Limit(run[1])' = Limit(run[1])
      BY <1>1, <1>6 DEF Limit
    <3>5. run[2] < Limit(run[1]) => disk'[run[1]][run[2]] = disk[run[1]][run[2]]
      <4>1. CASE run[1] # space.region
        BY <2>1, <3>3, <4>1
      <4>2. CASE run[1] = space.region
        <5>1. Limit(run[1]) = space.offset
          BY <1>1, <4>2 DEF Limit
        <5>2. run[2] < space.offset => run[2] \notin space.offset..(space.offset + space.size - 1)
          BY <1>3, <3>3
        <5> QED
          BY <2>2, <3>3, <4>2, <5>1, <5>2
      <4> QED
        BY <4>1, <4>2
    <3> QED
      BY <1>1, <3>4, <3>5 DEF Kept, DiskAt
  <2>4. DataInv'
    BY <1>1, <1>2, <2>3, DataFrame
  <2>5. ASSUME NEW i \in 1..space.size
        PROVE  disk'[space.region][space.offset + i - 1] = batch[i]
    <3>1. /\ space.offset + i - 1 \in 0..(RegionSize - 1)
          /\ space.offset + i - 1 \in space.offset..(space.offset + space.size - 1)
          /\ (space.offset + i - 1) - space.offset + 1 = i
      BY <1>3
    <3> QED
      BY <2>2, <3>1
  <2>6. SpaceInv'
    BY <1>1, <1>4, <1>6, <2>5 DEF SpaceInv
  <2> QED
    BY <2>4, <2>6
<1> QED
  BY Zenon, <1>5, <1>6 DEF WriteData

(* The entries that a write adds are where it has written them.            *)
LEMMA PublishKeepsFile ==
    ASSUME TypeInv, FileInv, Publish
    PROVE  FileInv'
<1> SUFFICES ASSUME known' = {} PROVE SpaceInv' /\ DataInv'
  BY DEF FileInv
<1>1. /\ UNCHANGED <<disk, numRegions, regionSizes, writable, pins, cpt, log, space, known>>
      /\ step = "publish" /\ step' = "getSpace"
  BY DEF Publish, files
<1>2. SpaceInv /\ DataInv
  BY <1>1 DEF FileInv
<1>3. /\ space.region \in Regions /\ space.offset \in Nat /\ space.size \in Nat
      /\ regionSizes[space.region] \in Int /\ batch \in Seq(Keys) /\ space.size <= Len(batch)
  BY <1>1, LimitType DEF TypeInv, OtherTypes
<1>4. /\ space.region < numRegions
      /\ space.offset + space.size <= regionSizes[space.region]
      /\ \A i \in 1..space.size : disk[space.region][space.offset + i - 1] = batch[i]
      /\ \A i \in DOMAIN writable : writable[i] < numRegions
  BY <1>1, <1>2 DEF SpaceInv
<1>5. \A r : Limit(r)' = regionSizes[r]
  BY <1>1 DEF Limit
<1>6. \A k : \A run \in Runs : Kept(k, run) /\ run[1] \notin {} => Kept(k, run)'
  <2>1. TAKE k
  <2>2. TAKE run \in Runs
  <2>3. run[2] \in Int
    BY ShapeType DEF Runs, TypeInv
  <2>4. run[2] < Limit(run[1]) => run[2] < regionSizes[run[1]]
    BY <1>3, <1>4, <2>3 DEF Limit
  <2> QED
    BY <1>1, <1>5, <2>4 DEF Kept, DiskAt
<1>7. ASSUME NEW k \in DOMAIN entries'
      PROVE  \/ k \in DOMAIN entries /\ entries'[k] = entries[k] /\ entries[k][1] \notin {}
             \/ Kept(k, entries[k])'
  <2>1. CASE \E i \in 1..space.size : batch[i] = k
    <3> DEFINE j == CHOOSE i \in 1..space.size : batch[i] = k
    <3>1. j \in 1..space.size /\ batch[j] = k
      BY <2>1
    <3>2. entries'[k] = <<space.region, space.offset + j - 1>>
      BY <1>7, <2>1 DEF Publish
    <3> HIDE DEF j
    <3>3. disk'[space.region][space.offset + j - 1] = k
      BY <1>1, <1>4, <3>1
    <3>4. space.offset + j - 1 < regionSizes[space.region]
      <4>1. space.size \in Nat /\ space.offset \in Nat /\ regionSizes[space.region] \in Int
        BY Zenon, <1>3
      <4>2. j \in Nat /\ j <= space.size
        BY <3>1, <4>1
      <4>3. space.offset + space.size <= regionSizes[space.region]
        BY Zenon, <1>4
      <4> QED
        BY <4>1, <4>2, <4>3
    <3>5. Kept(k, entries[k])'
      BY <1>1, <1>4, <1>5, <3>2, <3>3, <3>4 DEF Kept, DiskAt, Limit
    <3> QED
      BY <3>5
  <2>2. CASE ~\E i \in 1..space.size : batch[i] = k
    <3>1. k \in DOMAIN entries \cup Range(SubSeq(batch, 1, space.size))
      BY Zenon, <1>7 DEF Publish
    <3>2. \A i \in 1..Len(SubSeq(batch, 1, space.size)) :
             i \in 1..space.size /\ SubSeq(batch, 1, space.size)[i] = batch[i]
      BY <1>3
    <3>3. k \in DOMAIN entries
      BY <1>3, <2>2, <3>1, <3>2 DEF Range
    <3>4. entries'[k] = entries[k]
      BY <2>2, <1>7 DEF Publish
    <3> QED
      BY <3>3, <3>4
  <2> QED
    BY <2>1, <2>2
<1>8. cpt'.state = "complete" => cpt' = cpt /\ Range(log) \cup {} \subseteq Range(log')
  BY <1>1
<1>9. DataInv'
  BY Zenon, <1>1, <1>2, <1>6, <1>7, <1>8, DataFrame
<1>10. SpaceInv'
  BY <1>1, <1>4 DEF SpaceInv
<1> QED
  BY <1>9, <1>10

(* removeFileEntries frees regions without pins, and logs them.            *)
LEMMA RemoveKeepsFile ==
    ASSUME TypeInv, CheckpointInv, FileInv, NEW ks, RemoveFileEntries(ks)
    PROVE  FileInv'
<1> DEFINE gone == {k \in ks \intersect DOMAIN entries : RegionPins(entries[k][1]) = 0}
           left == [k \in DOMAIN entries \ gone |-> entries[k]]
           lost == [r \in Regions |->
                      erased[r] + Cardinality({k \in gone : entries[k][1] = r})]
           toFree == {r \in 0..(numRegions - 1) :
                        RegionPins(r) = 0 /\ lost[r] > (regionSizes[r] * 50) \div 100}
<1>1. /\ shape' = shape /\ UNCHANGED <<pins, cpt, space, step, batch, disk, numRegions>>
      /\ step = "idle"
  BY Zenon DEF RemoveFileEntries, switches, writes
<1>2. \A k \in DOMAIN left : k \in DOMAIN entries /\ left[k] = entries[k]
  OBVIOUS
<1>3. \/ entries' = left /\ UNCHANGED <<log, known, regionSizes, writable>>
      \/ /\ \E rs \in Ascending(toFree) : Evict(rs, left, lost)
         /\ \E new \in Ascending(toFree \ Range(writable)) : writable' = writable \o new
  BY Zenon DEF RemoveFileEntries
<1> HIDE DEF lost, left
<1>4. \A r \in toFree : r \in 0..(numRegions - 1) /\ RegionPins(r) = 0
  BY Zenon
<1> HIDE DEF toFree
<1>5. /\ MaxRegions \in Nat /\ numRegions \in 0..MaxRegions
      /\ toFree \subseteq 0..MaxRegions /\ \A r \in toFree : r < numRegions
      /\ toFree \subseteq Regions
  BY <1>4, ShapeType DEF TypeInv, RegionTypes, Regions
<1>6. CASE entries' = left /\ UNCHANGED <<log, known, regionSizes, writable>>
  BY <1>1, <1>2, <1>6, FileFrame
<1>7. CASE /\ \E rs \in Ascending(toFree) : Evict(rs, left, lost)
           /\ \E new \in Ascending(toFree \ Range(writable)) : writable' = writable \o new
  <2> SUFFICES ASSUME known' = {} PROVE SpaceInv' /\ DataInv'
    BY DEF FileInv
  <2>1. PICK rs \in Ascending(toFree) : Evict(rs, left, lost)
    BY <1>7
  <2>2. PICK new \in Ascending(toFree \ Range(writable)) : writable' = writable \o new
    BY Zenon, <1>7
  <2>3. rs \in [1..Cardinality(toFree) -> toFree]
    BY DEF Ascending, Numberings
  <2>4. rs \in Seq(Regions)
    BY Zenon, <1>4, <1>5, <2>3, NumberingType
  <2>5. \A p \in pins' : p \in pins /\ p[2][1] \notin Range(rs)
    BY <1>1, <1>4, <2>3, PinCount DEF Range
  <2>6. known = {} => DataInv
    BY DEF FileInv
  <2>7. DataInv' /\ known = {}
    BY Zenon, <1>1, <1>2, <2>1, <2>4, <2>5, <2>6, EvictKeepsData
  <2>8. new \in [1..Cardinality(toFree \ Range(writable)) -> toFree \ Range(writable)]
    BY Zenon DEF Ascending, Numberings
  <2>9. new \in Seq(toFree) /\ writable \in Seq(Regions)
    BY Zenon, <1>5, <2>8, NumberingType DEF TypeInv, RegionTypes
  <2>10. \A i \in DOMAIN writable : writable[i] < numRegions
    BY <2>7 DEF FileInv, SpaceInv
  <2>11. \A i \in DOMAIN writable' : writable'[i] < numRegions'
    <3>0. \A i \in 1..Len(new) : new[i] \in toFree
      BY <2>9
    <3>1. \A i \in 1..Len(new) : new[i] < numRegions
      BY Zenon, <1>5, <3>0
    <3>2. ASSUME NEW i \in 1..(Len(writable) + Len(new)) PROVE (writable \o new)[i] < numRegions
      <4>1. CASE i <= Len(writable)
        BY <2>9, <2>10, <4>1
      <4>2. CASE i > Len(writable)
        <5>1. i - Len(writable) \in 1..Len(new) /\ (writable \o new)[i] = new[i - Len(writable)]
          BY <2>9, <4>2
        <5> QED
          BY <3>1, <5>1
      <4> QED
        BY <2>9, <4>1, <4>2
    <3>3. DOMAIN (writable \o new) = 1..(Len(writable) + Len(new))
      BY <2>9
    <3> QED
      BY <1>1, <2>2, <3>2, <3>3
  <2> QED
    BY <1>1, <2>7, <2>11 DEF SpaceInv
<1> QED
  BY Zenon, <1>3, <1>6, <1>7

(* A checkpoint becomes complete with what is in memory, and then the log  *)
(* can be truncated.                                                       *)
LEMMA CheckpointKeepsFile ==
    ASSUME TypeInv, CheckpointInv, FileInv,
           \/ (\E ks : StartWrite(ks)) \/ FinishWrite \/ ForceCheckpoint \/ Truncate
           \/ AppendBuffers \/ AppendEnd \/ TruncateLog \/ DeleteLog \/ DeleteCheckpoint
    PROVE  FileInv'
<1> USE DEF files, regions, switches
<1>1. ASSUME UNCHANGED <<disk, numRegions, regionSizes, writable, known, entries, pins>>,
             step \notin {"write", "publish"}, step' \notin {"write", "publish"},
             cpt'.state = "complete" =>
               \/ cpt' = cpt /\ log' = log
               \/ cpt'.entries = entries' /\ cpt'.numRegions = numRegions'
      PROVE  FileInv'
  BY <1>1, FileFrame
<1>2. CASE (\E ks : StartWrite(ks)) \/ FinishWrite \/ ForceCheckpoint
  BY Zenon, <1>1, <1>2 DEF StartWrite, FinishWrite, ForceCheckpoint
<1>3. CASE Truncate
  BY <1>1, <1>3 DEF Truncate, NoCheckpoint
<1>4. CASE AppendBuffers
  BY <1>1, <1>4 DEF AppendBuffers
<1>5. CASE AppendEnd
  <2>1. cpt'.entries = cpt.entries /\ cpt'.numRegions = cpt.numRegions
    BY <1>5 DEF AppendEnd, TypeInv, OtherTypes
  <2> QED
    BY <1>1, <1>5, <2>1 DEF AppendEnd, CheckpointInv
<1>6. CASE TruncateLog
  BY <1>1, <1>6 DEF TruncateLog, CheckpointInv
<1>7. CASE DeleteLog
  BY <1>1, <1>7 DEF DeleteLog, CheckpointInv
<1>8. CASE DeleteCheckpoint
  BY <1>1, <1>8 DEF DeleteCheckpoint, NoCheckpoint
<1> QED
  BY Zenon, <1>2, <1>3, <1>4, <1>5, <1>6, <1>7, <1>8

(* Recovery: the entries of a complete checkpoint, except those of regions *)
(* in the log, are still where they were when it was made.                 *)
LEMMA RestartKeepsFile ==
    ASSUME TypeInv, CheckpointInv, FileInv, Restart
    PROVE  FileInv'
<1> SUFFICES ASSUME known' = {} PROVE SpaceInv' /\ DataInv'
  BY Zenon DEF FileInv
<1>1. known = {} /\ \A r \in Range(writable') : ~(r >= numRegions')
  BY Zenon DEF Restart
<1>2. DataInv
  BY Zenon, <1>1 DEF FileInv
<1>3. UNCHANGED <<shape, disk>> /\ pins' = {} /\ step' = "idle"
  BY Zenon DEF Restart
<1>4. SpaceInv'
  <2>1. TypeInv'
    BY Zenon, RestartTypes
  <2>2. \A i \in DOMAIN writable' : writable'[i] \in Int /\ numRegions' \in Int
    <3>1. writable' \in Seq(Regions) /\ numRegions' \in 0..MaxRegions
      BY Zenon, <1>3, <2>1, ShapeFixed DEF TypeInv, RegionTypes
    <3>2. \A i \in DOMAIN writable' : writable'[i] \in Regions
      BY <3>1
    <3> QED
      BY <3>1, <3>2 DEF Regions
  <2>3. \A i \in DOMAIN writable' : writable'[i] < numRegions'
    BY <1>1, <2>2 DEF Range
  <2> QED
    BY Zenon, <1>3, <2>3 DEF SpaceInv
<1>5. CASE NoRecovery
  <2>1. entries' = <<>> /\ cpt'.state # "complete"
    BY <1>5 DEF NoRecovery, NoCheckpoint
  <2> QED
    BY <1>3, <1>4, <2>1 DEF DataInv
<1>6. CASE ReadCheckpoint
  <2>1. /\ cpt.state = "complete" /\ cpt' = cpt /\ log' = log /\ numRegions' = cpt.numRegions
        /\ entries' = Cleared(cpt.entries, Range(log))
        /\ regionSizes' = [r \in Regions |-> MaxSize(entries', r)]
    BY Zenon, <1>6 DEF ReadCheckpoint, Recovered
  <2>2. Placed(cpt.entries) /\ Placed(entries')
    BY Zenon, <2>1, RecoveredPlaced DEF TypeInv, OtherTypes, Recovered
  <2>3. ASSUME NEW k \in DOMAIN cpt.entries, cpt.entries[k][1] \notin Range(log)
        PROVE  /\ k \in DOMAIN entries' /\ entries'[k] = cpt.entries[k]
               /\ Kept(k, cpt.entries[k])'
    <3>1. k \in DOMAIN entries' /\ entries'[k] = cpt.entries[k]
      BY Zenon, <2>1, <2>3 DEF Cleared
    <3>2. cpt.entries[k][1] < cpt.numRegions /\ Kept(k, cpt.entries[k])
      BY Zenon, <1>2, <2>1, <2>3 DEF DataInv
    <3>3. cpt.entries[k][1] \in Regions
      BY Zenon, <2>2 DEF Placed, Runs
    <3>4. cpt.entries[k][2] < MaxSize(entries', cpt.entries[k][1])
      BY Zenon, <2>2, <3>1, MaxSizeBounds DEF TypeInv
    <3>5. cpt.entries[k][2] < regionSizes'[cpt.entries[k][1]]
      BY Zenon, <2>1, <3>3, <3>4
    <3>6. disk'[cpt.entries[k][1]][cpt.entries[k][2]] = k
      BY Zenon, <1>3, <3>2 DEF Kept, DiskAt
    <3>7. Kept(k, cpt.entries[k])'
      BY Zenon, <1>3, <2>1, <3>2, <3>5, <3>6 DEF Kept, DiskAt, Limit
    <3> QED
      BY Zenon, <3>1, <3>7
  <2>4. \A k \in DOMAIN entries' :
           k \in DOMAIN cpt.entries /\ cpt.entries[k][1] \notin Range(log)
    BY Zenon, <2>1 DEF Cleared
  <2>5. \A k \in DOMAIN entries' : Kept(k, entries[k])'
    <3>1. TAKE k \in DOMAIN entries'
    <3>2. entries'[k] = cpt'.entries[k] /\ Kept(k, cpt.entries[k])'
      BY Zenon, <2>1, <2>3, <2>4
    <3> QED
      BY Zenon, <3>2 DEF Kept, DiskAt, Limit
  <2>6. \A k \in DOMAIN cpt'.entries :
           /\ cpt'.entries[k][1] < cpt'.numRegions
           /\ cpt'.entries[k][1] \in Range(log') \/ Kept(k, cpt.entries[k])'
    BY Zenon, <1>2, <2>1, <2>3 DEF DataInv
  <2> QED
    BY Zenon, <1>3, <1>4, <2>5, <2>6 DEF DataInv
<1> QED
  BY Zenon, <1>5, <1>6 DEF Restart

-----------------------------------------------------------------------------
(* The theorems                                                            *)

CacheInv == TypeInv /\ CheckpointInv /\ SuspendInv /\ FileInv

(* The invariant from which the theorems follow.                           *)
LEMMA CacheInvariant == Spec => []CacheInv
<1>1. Init => CacheInv
  BY Zenon, TypeInitially, CheckpointInitially, SuspendInitially, FileInitially DEF CacheInv
<1>2. CacheInv /\ [Next]_vars => CacheInv'
  <2> SUFFICES ASSUME CacheInv, [Next]_vars PROVE CacheInv'
    BY Zenon
  <2>1. TypeInv' /\ CheckpointInv' /\ SuspendInv'
    BY Zenon, TypeStep, CheckpointStep, SuspendStep DEF CacheInv
  <2>2. CASE Next
    <3>1. FileInv'
      BY Zenon, <2>2, LoadKeepsFile, MakeSpaceKeepsFile, GetSpaceKeepsFile, WriteKeepsFile,
         PublishKeepsFile, RemoveKeepsFile, CheckpointKeepsFile, RestartKeepsFile
      DEF Next, CacheInv
    <3> QED
      BY Zenon, <2>1, <3>1 DEF CacheInv
  <2>3. CASE UNCHANGED vars
    <3>1. FileInv'
      BY Zenon, <2>3, FileFrame DEF CacheInv, vars, files, regions, writes
    <3> QED
      BY Zenon, <2>1, <3>1 DEF CacheInv
  <2> QED
    BY Zenon, <2>2, <2>3
<1> QED
  BY <1>1, <1>2, PTL DEF Spec

(* What find returns is on the SSD where it says, also after crashes at    *)
(* any moment of writes, evictions and checkpoints, unless a record of the *)
(* eviction log has been overwritten or a region is beyond the others.     *)
THEOREM EntriesStayFresh == Spec => []EntriesFresh
<1>1. CacheInv => EntriesFresh
  BY Zenon DEF CacheInv, FileInv, DataInv, Kept, EntriesFresh, EntryFresh
<1> QED
  BY <1>1, CacheInvariant, PTL

(* growOrEvictLocked and removeFileEntries leave pinned regions alone: a   *)
(* load reads the data of its key however long it takes.                   *)
THEOREM PinnedDataStays == Spec => []PinnedData
<1>1. CacheInv => PinnedData
  BY Zenon DEF CacheInv, FileInv, DataInv, Kept, PinnedData
<1> QED
  BY <1>1, CacheInvariant, PTL

(* suspended_ is set only while every region is pinned, and unpinRegion    *)
(* clears it with the last pin of one of them.                             *)
THEOREM SuspendedOnlyWhenPinned == Spec => []SuspendedPinned
<1>1. ASSUME CacheInv PROVE SuspendedPinned
  <2> SUFFICES ASSUME suspended, NEW r \in 0..(numRegions - 1) PROVE RegionPins(r) > 0
    BY Zenon DEF SuspendedPinned
  <2>1. numRegions = MaxRegions /\ Evictable(pins) = {} /\ TypeInv
    BY Zenon, <1>1 DEF CacheInv, SuspendInv
  <2>2. r \in Regions
    BY Zenon, <2>1 DEF Regions
  <2>3. \E p \in pins : p[2][1] = r
    BY Zenon, <2>1, <2>2 DEF Evictable
  <2> QED
    BY <2>1, <2>3, PinCount
<1> QED
  BY <1>1, CacheInvariant, PTL

============================================================================
