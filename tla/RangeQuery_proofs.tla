-------------------------- MODULE RangeQuery_proofs --------------------------
(***************************************************************************)
(* Proofs about RangeQuery, for every number of callers, every set of keys, *)
(* jobs and windows, every chunk size and every U64Max; and, from           *)
(* "Gas: what the blocks are charged" on, about GasQuery, for every chain   *)
(* of transactions and every largest amount.                                *)
(***************************************************************************)
EXTENDS GasQuery, BlockRangeCache_proofs

-----------------------------------------------------------------------------
(* Types *)

LEMMA NoQueryType == NoQuery \in [job : Jobs, lo : Blocks, hi : Blocks, settled : BOOLEAN]
  BY RangeQueryAssumption, U64MaxAssumption DEF NoQuery, Blocks

LEMMA EmptyAggregateType == EmptyAggregate \in Aggregate
  BY DEF EmptyAggregate, Aggregate

LEMMA ScannedType ==
    ASSUME NEW job \in Jobs, NEW from \in Nat, NEW to \in Blocks, head \in Blocks
    PROVE  Scanned(job, from, to) \in Aggregate
<1>1. from .. to \subseteq Blocks
  BY U64MaxAssumption DEF Blocks
<1> QED
  BY <1>1 DEF Scanned, Aggregate, Contributions

LEMMA ChunkEndBounds ==
    ASSUME NEW from \in Nat, NEW hi \in Blocks, from <= hi
    PROVE  ChunkEnd(from, hi) \in Blocks /\ from <= ChunkEnd(from, hi) /\ ChunkEnd(from, hi) <= hi
  BY RangeQueryAssumption, U64MaxAssumption DEF ChunkEnd, Blocks

LEMMA WithinQueryType ==
    ASSUME TypeOK, NEW key, NEW lo, NEW hi
    PROVE  /\ WithinQuery(cache, key, lo, hi) \in SUBSET Entry
           /\ IsFiniteSet(WithinQuery(cache, key, lo, hi))
<1>1. WithinQuery(cache, key, lo, hi) \subseteq cache
  BY DEF WithinQuery
<1> QED
  BY <1>1, FS_Subset DEF TypeOK

LEMMA TypeInit == Init => TypeOK
<1> SUFFICES ASSUME Init PROVE TypeOK
  OBVIOUS
<1>1. cache \subseteq Entry /\ IsFiniteSet(cache)
  BY FS_EmptySet DEF Init
<1> QED
  BY <1>1, NoQueryType, EmptyAggregateType, RangeQueryAssumption, U64MaxAssumption
     DEF Init, TypeOK, Blocks

LEMMA TypeLookup ==
    ASSUME TypeOK, NEW t \in Tasks, Lookup(t)
    PROVE  TypeOK'
<1>1. PICK job \in Jobs, r \in Ranges : \/ LookupMiss(t, job, r[1], r[2])
                                        \/ LookupHit(t, job, r[1], r[2])
                                        \/ LookupPartial(t, job, r[1], r[2])
  BY DEF Lookup
<1> DEFINE lo == r[1]  hi == r[2]
           W == WithinQuery(cache, KeyOf[job], lo, hi)
<1>2. lo \in Blocks /\ hi \in Blocks
  BY RangeQueryAssumption
<1>3. W \in SUBSET Entry /\ IsFiniteSet(W) /\ MergeEntries(W) \in Aggregate
  BY WithinQueryType, MergeEntriesType
<1> HIDE DEF lo, hi
<1>4. Ask(t, job, lo, hi)
  BY <1>1 DEF LookupMiss, LookupHit, LookupPartial, lo, hi
<1>5. /\ cache' \subseteq Entry /\ IsFiniteSet(cache')
      /\ head' \in Blocks
      /\ query' \in [Tasks -> [job : Jobs, lo : Blocks, hi : Blocks, settled : BOOLEAN]]
      /\ part' \in [Tasks -> Aggregate]
      /\ degraded' \in [Tasks -> BOOLEAN]
  BY <1>2, <1>4 DEF Ask, TypeOK, Blocks
<1>6. CASE LookupMiss(t, job, lo, hi)
  BY <1>2, <1>5, <1>6, U64MaxAssumption DEF LookupMiss, TypeOK, Gap, Blocks
<1>7. CASE LookupHit(t, job, lo, hi)
  BY <1>3, <1>5, <1>7 DEF LookupHit, TypeOK
<1>8. CASE LookupPartial(t, job, lo, hi)
  <2>1. PICK pos \in SortedPositions(W) :
             LET gaps == Gaps(W, lo, hi, pos)
             IN  /\ todo' = [todo EXCEPT ![t] = gaps]
                 /\ \E g \in gaps : /\ IsNext(gaps, g)
                                    /\ cursor' = [cursor EXCEPT ![t] = g.lo]
    BY <1>8 DEF LookupPartial
  <2>2. Gaps(W, lo, hi, pos) \in SUBSET Gap
    BY <1>2, <1>3, GapsType DEF Gap
  <2>3. PICK g \in Gaps(W, lo, hi, pos) : cursor' = [cursor EXCEPT ![t] = g.lo]
    BY <2>1
  <2>4. g.lo \in 0 .. U64Max + 1
    BY <2>2, <2>3, U64MaxAssumption DEF Gap, Blocks
  <2>5. todo' \in [Tasks -> SUBSET Gap] /\ cursor' \in [Tasks -> 0 .. U64Max + 1]
    BY <2>1, <2>2, <2>3, <2>4 DEF TypeOK
  <2>6. acc' \in [Tasks -> Aggregate] /\ pc' \in [Tasks -> {"idle", "busy", "done"}]
    BY <1>3, <1>8 DEF LookupPartial, TypeOK
  <2> QED
    BY <1>5, <2>5, <2>6 DEF TypeOK
<1> QED
  BY <1>1, <1>6, <1>7, <1>8 DEF lo, hi

LEMMA TypeScanChunk ==
    ASSUME TypeOK, NEW t \in Tasks, ScanChunk(t)
    PROVE  TypeOK'
<1>1. PICK g \in todo[t] :
        /\ cursor[t] <= g.hi
        /\ part' = [part EXCEPT ![t] =
                     Merge(@, Scanned(query[t].job, cursor[t], ChunkEnd(cursor[t], g.hi)))]
        /\ cursor' = [cursor EXCEPT ![t] = ChunkEnd(cursor[t], g.hi) + 1]
  BY DEF ScanChunk
<1>2. cursor[t] \in Nat /\ g.hi \in Blocks /\ query[t].job \in Jobs /\ part[t] \in Aggregate
  BY U64MaxAssumption DEF TypeOK, Gap
<1>3. ChunkEnd(cursor[t], g.hi) \in Blocks
  BY <1>1, <1>2, ChunkEndBounds
<1>4. Merge(part[t], Scanned(query[t].job, cursor[t], ChunkEnd(cursor[t], g.hi))) \in Aggregate
  BY <1>2, <1>3, ScannedType, MergeType DEF TypeOK
<1>5. ChunkEnd(cursor[t], g.hi) + 1 \in 0 .. U64Max + 1
  BY <1>3, U64MaxAssumption DEF Blocks
<1> QED
  BY <1>1, <1>4, <1>5 DEF ScanChunk, TypeOK

LEMMA TypeForget ==
    ASSUME TypeOK, NEW t \in Tasks, Forget(t)
    PROVE  TypeOK'
  BY NoQueryType, EmptyAggregateType, U64MaxAssumption DEF Forget, TypeOK

LEMMA TypeNextGap ==
    ASSUME TypeOK, NEW t \in Tasks, NEW g \in todo[t], NEW found \in Aggregate,
           NextGap(t, g, found), cache' \in SUBSET Entry, IsFiniteSet(cache'),
           degraded' \in [Tasks -> BOOLEAN]
    PROVE  TypeOK'
<1>1. todo' \in [Tasks -> SUBSET Gap]
  BY DEF NextGap, TypeOK
<1>2. cursor' \in [Tasks -> 0 .. U64Max + 1]
  <2>1. \A h \in todo[t] : h.lo \in 0 .. U64Max + 1
    BY U64MaxAssumption DEF TypeOK, Gap, Blocks
  <2>2. 0 \in 0 .. U64Max + 1
    BY U64MaxAssumption
  <2> QED
    BY <2>1, <2>2 DEF NextGap, TypeOK
<1>3. acc' \in [Tasks -> Aggregate] /\ part' \in [Tasks -> Aggregate]
  <2>1. Merge(acc[t], found) \in Aggregate
    BY MergeType DEF TypeOK
  <2> QED
    BY <2>1, EmptyAggregateType DEF NextGap, TypeOK
<1> QED
  BY <1>1, <1>2, <1>3 DEF NextGap, TypeOK

LEMMA TypeFinishGap ==
    ASSUME TypeOK, NEW t \in Tasks, FinishGap(t)
    PROVE  TypeOK'
<1>1. PICK g \in todo[t] : /\ cache' = Insert(cache, KeyOfTask(t), g.lo, g.hi, part[t])
                           /\ NextGap(t, g, part[t])
  BY DEF FinishGap
<1>2. /\ g.lo \in Blocks /\ g.hi \in Blocks /\ part[t] \in Aggregate /\ KeyOfTask(t) \in Keys
  BY RangeQueryAssumption DEF TypeOK, Gap, KeyOfTask
<1>3. cache' \in SUBSET Entry /\ IsFiniteSet(cache')
  BY <1>1, <1>2, InsertType DEF TypeOK
<1>4. degraded' \in [Tasks -> BOOLEAN]
  BY DEF FinishGap, TypeOK
<1> QED
  BY <1>1, <1>2, <1>3, <1>4, TypeNextGap

LEMMA TypeDegradeGap ==
    ASSUME TypeOK, NEW t \in Tasks, DegradeGap(t)
    PROVE  TypeOK'
<1>1. PICK g \in todo[t], kept \in (SUBSET part[t].seen) \ {part[t].seen} :
        NextGap(t, g, [part[t] EXCEPT !.seen = kept])
  BY DEF DegradeGap
<1>2. [part[t] EXCEPT !.seen = kept] \in Aggregate
  BY DEF TypeOK, Aggregate
<1>3. cache' \in SUBSET Entry /\ IsFiniteSet(cache') /\ degraded' \in [Tasks -> BOOLEAN]
  BY DEF DegradeGap, TypeOK
<1> QED
  BY <1>1, <1>2, <1>3, TypeNextGap

LEMMA TypeWriteBack ==
    ASSUME TypeOK, NEW t \in Tasks, WriteBack(t)
    PROVE  TypeOK'
<1>1. /\ query[t].lo \in Blocks /\ query[t].hi \in Blocks /\ acc[t] \in Aggregate
      /\ KeyOfTask(t) \in Keys
  BY RangeQueryAssumption DEF TypeOK, KeyOfTask
<1>2. cache' \in SUBSET Entry /\ IsFiniteSet(cache')
  BY <1>1, InsertType DEF WriteBack, TypeOK
<1> QED
  BY <1>2 DEF WriteBack, TypeOK

LEMMA TypeClear ==
    ASSUME TypeOK, Clear
    PROVE  TypeOK'
<1>1. cache' \in SUBSET cache /\ UNCHANGED <<head, pc, query, todo, cursor, part, acc, degraded>>
  BY DEF Clear, ClearSignerData, ClearOldBlocks, WithoutKey, WithoutBlocksBelow
<1>2. IsFiniteSet(cache')
  BY <1>1, FS_Subset DEF TypeOK
<1> QED
  BY <1>1, <1>2 DEF TypeOK

\* The variables keep their types: every gap the walk reports, for any windows
\* and any cache, is made of block numbers, and every scan stays inside u64.
THEOREM TypeCorrect == Spec => []TypeOK
<1>1. TypeOK /\ [Next]_vars => TypeOK'
  <2> SUFFICES ASSUME TypeOK, [Next]_vars PROVE TypeOK'
    OBVIOUS
  <2>1. ASSUME NEW t \in Tasks, Step(t) PROVE TypeOK'
    <3>1. CASE ScanFails(t) \/ Return(t)
      BY <3>1, TypeForget DEF ScanFails, Return
    <3> QED
      BY <2>1, <3>1, TypeLookup, TypeScanChunk, TypeFinishGap, TypeDegradeGap, TypeWriteBack
         DEF Step
  <2>2. CASE NewBlock
    BY <2>2, U64MaxAssumption DEF NewBlock, TypeOK, Blocks
  <2>3. CASE UNCHANGED vars
    BY <2>3 DEF vars, TypeOK
  <2> QED
    BY <2>1, <2>2, <2>3, TypeClear DEF Next
<1> QED
  BY <1>1, TypeInit, PTL DEF Spec

-----------------------------------------------------------------------------
(* The ranges of a key are disjoint *)

\* How a step changes the cache: it inserts one range, or it is a clear, which
\* only removes.
LEMMA CacheStep ==
    ASSUME TypeOK, [Next]_vars
    PROVE  \/ cache' = cache
           \/ \E key \in Keys, lo, hi \in Blocks, value \in Aggregate :
                cache' = Insert(cache, key, lo, hi, value)
           \/ Clear /\ cache' \in SUBSET cache
<1>1. ASSUME NEW t \in Tasks, FinishGap(t)
      PROVE  \E key \in Keys, lo, hi \in Blocks, value \in Aggregate :
                cache' = Insert(cache, key, lo, hi, value)
  <2>1. PICK g \in todo[t] : cache' = Insert(cache, KeyOfTask(t), g.lo, g.hi, part[t])
    BY <1>1 DEF FinishGap
  <2>2. /\ g.lo \in Blocks /\ g.hi \in Blocks /\ part[t] \in Aggregate /\ KeyOfTask(t) \in Keys
    BY RangeQueryAssumption DEF TypeOK, Gap, KeyOfTask
  <2> QED
    BY <2>1, <2>2
<1>2. ASSUME NEW t \in Tasks, WriteBack(t)
      PROVE  \/ cache' = cache
             \/ \E key \in Keys, lo, hi \in Blocks, value \in Aggregate :
                  cache' = Insert(cache, key, lo, hi, value)
  <2>1. /\ query[t].lo \in Blocks /\ query[t].hi \in Blocks /\ acc[t] \in Aggregate
        /\ KeyOfTask(t) \in Keys
    BY RangeQueryAssumption DEF TypeOK, KeyOfTask
  <2> QED
    BY <1>2, <2>1 DEF WriteBack
<1>3. CASE Clear
  BY <1>3 DEF Clear, ClearSignerData, ClearOldBlocks, WithoutKey, WithoutBlocksBelow
<1>4. ASSUME NEW t \in Tasks,
             Lookup(t) \/ ScanChunk(t) \/ ScanFails(t) \/ DegradeGap(t) \/ Return(t)
      PROVE  cache' = cache
  BY <1>4 DEF Lookup, LookupMiss, LookupHit, LookupPartial, Ask, ScanChunk, ScanFails,
              DegradeGap, Return, Forget
<1>5. CASE NewBlock \/ UNCHANGED vars
  BY <1>5 DEF NewBlock, vars
<1> QED
  BY <1>1, <1>2, <1>3, <1>4, <1>5 DEF Next, Step

\* block_range.rs 42-45: whatever windows callers ask for, in order or not,
\* below the head or past it, and however they interleave, the ranges the
\* cache holds under one key never overlap.
THEOREM Disjointness == Spec => []RangesDisjoint
<1>1. Init => RangesDisjoint
  BY DEF Init, RangesDisjoint, Disjoint
<1>2. TypeOK /\ RangesDisjoint /\ [Next]_vars => RangesDisjoint'
  <2> SUFFICES ASSUME TypeOK, Disjoint(cache), [Next]_vars PROVE Disjoint(cache')
    BY DEF RangesDisjoint
  <2>1. cache \in SUBSET Entry
    BY DEF TypeOK
  <2> QED
    BY <2>1, CacheStep, InsertKeepsDisjoint, SubsetKeepsDisjoint
<1> QED
  BY <1>1, <1>2, TypeCorrect, PTL DEF Spec

\* Inserting never uncovers a block of any key.
LEMMA InsertKeepsCoverage ==
    ASSUME NEW entries \in SUBSET Entry, NEW key \in Keys, NEW lo \in Blocks, NEW hi \in Blocks,
           NEW value, NEW e \in entries, NEW b \in e.lo .. e.hi
    PROVE  \E f \in Insert(entries, key, lo, hi, value) : f.key = e.key /\ b \in f.lo .. f.hi
<1> DEFINE new == [key |-> key, lo |-> lo, hi |-> hi, value |-> value]
           over == Overlapping(entries, key, lo, hi)
           result == Insert(entries, key, lo, hi, value)
<1>1. CASE e \in result
  BY <1>1
<1>2. CASE e \notin result
  <2>1. \A f \in over : f.lo >= lo /\ f.hi <= hi
    BY <1>2 DEF Insert
  <2>2. new \in result
    BY <2>1 DEF Insert, Store
  <2>3. e.key = key /\ (e \in over \/ (e.lo = lo /\ e.hi = hi))
    BY <1>2, <2>1 DEF Insert, Store, Overlapping
  <2>4. e.lo >= lo /\ e.hi <= hi /\ e.lo \in Int /\ e.hi \in Int /\ lo \in Int /\ hi \in Int
    BY <2>1, <2>3 DEF Entry, Blocks
  <2>5. b \in lo .. hi
    BY <2>4
  <2> QED
    BY <2>2, <2>3, <2>5
<1> QED
  BY <1>1, <1>2

\* Scanning is paid for once: only a clear makes the cache forget a block.
THEOREM CoverageGrows == Spec => CoverageOnlyGrows
<1>1. TypeOK /\ [Next]_vars =>
        [~Clear => \A key \in Keys : Covered(key) \subseteq Covered(key)']_vars
  <2> SUFFICES ASSUME TypeOK, Next, ~Clear, NEW key \in Keys
               PROVE  Covered(key) \subseteq Covered(key)'
    BY DEF vars
  <2>1. cache' = cache \/ \E k \in Keys, lo, hi \in Blocks, value \in Aggregate :
                             cache' = Insert(cache, k, lo, hi, value)
    BY CacheStep
  <2>2. cache \in SUBSET Entry
    BY DEF TypeOK
  <2>3. \A e \in cache : \A b \in e.lo .. e.hi :
          \E f \in cache' : f.key = e.key /\ b \in f.lo .. f.hi
    BY <2>1, <2>2, InsertKeepsCoverage
  <2> QED
    BY <2>3 DEF Covered
<1> QED
  BY <1>1, TypeCorrect, PTL DEF Spec, CoverageOnlyGrows

-----------------------------------------------------------------------------
(* Nothing is counted twice *)

\* A step that leaves the call u alone
Undisturbed(u) ==
    /\ pc'[u] = pc[u] /\ query'[u] = query[u] /\ todo'[u] = todo[u]
    /\ cursor'[u] = cursor[u] /\ part'[u] = part[u] /\ acc'[u] = acc[u]
    /\ degraded'[u] = degraded[u]

\* A call that a step leaves alone keeps its part of the invariant.
LEMMA OthersStayCounted ==
    ASSUME NEW u \in Tasks, CallCounted(u), Undisturbed(u)
    PROVE  CallCounted(u)'
  BY DEF Undisturbed, CallCounted, GapsRemain, ScanCounted, KeyOfTask

\* An idle call that Ask starts on a proper window.
LEMMA AskStarts ==
    ASSUME TypeOK, NEW t \in Tasks, NEW job \in Jobs, NEW r \in Ranges, ProperQueries,
           CallCounted(t), Ask(t, job, r[1], r[2])
    PROVE  /\ r[1] \in Blocks /\ r[2] \in Blocks /\ r[1] <= r[2] /\ r[2] < U64Max
           /\ query'[t] = [job |-> job, lo |-> r[1], hi |-> r[2], settled |-> r[2] <= head]
           /\ KeyOfTask(t)' = KeyOf[job]
           /\ part'[t] = part[t] /\ part'[t].again = {} /\ part'[t].seen = {}
           /\ acc[t].seen = {} /\ acc[t].again = {} /\ ~degraded'[t] /\ todo[t] = {}
  BY RangeQueryAssumption DEF ProperQueries, CallCounted, Ask, TypeOK, KeyOfTask

\* The entries a lookup merges, and what their merge is.
LEMMA MergedEntries ==
    ASSUME TypeOK, RangesDisjoint, EntriesCounted, NEW key \in Keys,
           NEW lo \in Blocks, NEW hi \in Blocks
    PROVE  LET W == WithinQuery(cache, key, lo, hi)
           IN  /\ W \in SUBSET Entry /\ IsFiniteSet(W)
               /\ \A e \in W : Proper(e) /\ lo <= e.lo /\ e.hi <= hi
               /\ MergeEntries(W).again = {}
               /\ MergeEntries(W).seen \subseteq CellsOf(key, lo, hi)
               /\ \A c \in MergeEntries(W).seen : \E e \in W : Covers(e, c[2])
<1> DEFINE W == WithinQuery(cache, key, lo, hi)
           J == {job \in Jobs : KeyOf[job] = key}
<1>1. W \in SUBSET Entry /\ IsFiniteSet(W)
  BY WithinQueryType
<1>2. \A e \in W : e \in cache /\ e.key = key /\ lo <= e.lo /\ e.hi <= hi
                  /\ e.lo \in Int /\ e.hi \in Int /\ lo \in Int /\ hi \in Int
  BY <1>1 DEF WithinQuery, Entry, Blocks
<1>3. \A e \in W : Proper(e) /\ e.value.again = {} /\ e.value.seen \subseteq J \X (e.lo .. e.hi)
  BY <1>2 DEF EntriesCounted, Proper, CellsOf
<1>4. Disjoint(W)
  BY <1>2 DEF RangesDisjoint, Disjoint
<1> HIDE DEF W
<1>5. MergeEntries(W).again = {}
  BY <1>1, <1>2, <1>3, <1>4, MergeEntriesCountsOnce
<1>6. \A c \in MergeEntries(W).seen :
        \E e \in W : c \in J \X (e.lo .. e.hi)
  <2>1. MergeEntries(W).seen = UNION {e.value.seen : e \in W}
    BY DEF MergeEntries
  <2> QED
    BY <2>1, <1>3
<1>7. \A c \in MergeEntries(W).seen : \E e \in W : Covers(e, c[2])
  BY <1>2, <1>6 DEF Covers
<1>8. \A e \in W : (e.lo .. e.hi) \subseteq (lo .. hi)
  BY <1>2
<1>9. MergeEntries(W).seen \subseteq CellsOf(key, lo, hi)
  BY <1>6, <1>8 DEF CellsOf
<1> QED
  BY <1>1, <1>2, <1>3, <1>5, <1>7, <1>9 DEF W

\* Gaps with different positions have one that is next.
LEMMA NextIsUnique ==
    ASSUME NEW gaps \in SUBSET Gap, \A g, h \in gaps : g # h => g.at # h.at,
           NEW g \in gaps, NEW h \in gaps, IsNext(gaps, g), IsNext(gaps, h)
    PROVE  g = h
<1>1. g.at \in Nat /\ h.at \in Nat
  BY DEF Gap
<1>2. g.at <= h.at /\ h.at <= g.at
  BY DEF IsNext
<1> QED
  BY <1>1, <1>2

LEMMA CountedLookup ==
    ASSUME TypeOK, RangesDisjoint, EntriesCounted, ProperQueries,
           NEW t \in Tasks, CallCounted(t), Lookup(t)
    PROVE  CallCounted(t)'
<1>1. PICK job \in Jobs, r \in Ranges : \/ LookupMiss(t, job, r[1], r[2])
                                        \/ LookupHit(t, job, r[1], r[2])
                                        \/ LookupPartial(t, job, r[1], r[2])
  BY DEF Lookup
<1> DEFINE lo == r[1]  hi == r[2]
           W == WithinQuery(cache, KeyOf[job], lo, hi)
<1>2. Ask(t, job, lo, hi)
  BY <1>1 DEF LookupMiss, LookupHit, LookupPartial
<1>3. /\ lo \in Blocks /\ hi \in Blocks /\ lo <= hi /\ hi < U64Max
      /\ query'[t] = [job |-> job, lo |-> lo, hi |-> hi, settled |-> hi <= head]
      /\ KeyOfTask(t)' = KeyOf[job]
      /\ part'[t].again = {} /\ part'[t].seen = {}
      /\ acc[t].seen = {} /\ acc[t].again = {} /\ ~degraded'[t] /\ todo[t] = {}
  BY <1>2, AskStarts
<1>4. /\ W \in SUBSET Entry /\ IsFiniteSet(W)
      /\ \A e \in W : Proper(e) /\ lo <= e.lo /\ e.hi <= hi
      /\ MergeEntries(W).again = {}
      /\ MergeEntries(W).seen \subseteq CellsOf(KeyOf[job], lo, hi)
      /\ \A c \in MergeEntries(W).seen : \E e \in W : Covers(e, c[2])
  BY <1>3, MergedEntries, RangeQueryAssumption
<1> HIDE DEF lo, hi, W
<1>5. CASE LookupMiss(t, job, lo, hi)
  <2>1. /\ todo'[t] = {[at |-> 1, lo |-> lo, hi |-> hi]} /\ cursor'[t] = lo
        /\ pc'[t] = "busy" /\ acc'[t] = acc[t]
    BY <1>5 DEF LookupMiss, TypeOK, W
  <2>2. lo \in Int /\ hi \in Int
    BY <1>3 DEF Blocks
  <2>3. GapsRemain(t)'
    BY <1>3, <2>1, <2>2 DEF GapsRemain
  <2>4. ScanCounted(t)'
    BY <1>3, <2>1, <2>2 DEF ScanCounted
  <2> QED
    BY <1>3, <2>1, <2>3, <2>4 DEF CallCounted
<1>6. CASE LookupHit(t, job, lo, hi)
  <2>1. todo'[t] = {} /\ pc'[t] = "done" /\ acc'[t] = MergeEntries(W)
    BY <1>3, <1>6 DEF LookupHit, TypeOK, W
  <2>2. GapsRemain(t)' /\ ScanCounted(t)'
    BY <2>1 DEF GapsRemain, ScanCounted
  <2> QED
    BY <1>3, <1>4, <2>1, <2>2 DEF CallCounted
<1>7. CASE LookupPartial(t, job, lo, hi)
  <2>1. PICK pos \in SortedPositions(W) :
          /\ todo'[t] = Gaps(W, lo, hi, pos)
          /\ \E g \in Gaps(W, lo, hi, pos) : /\ IsNext(Gaps(W, lo, hi, pos), g)
                                             /\ cursor'[t] = g.lo
    BY <1>7 DEF LookupPartial, TypeOK, W
  <2> DEFINE gaps == Gaps(W, lo, hi, pos)
  <2>2. pc'[t] = "busy" /\ acc'[t] = MergeEntries(W)
    BY <1>7 DEF LookupPartial, TypeOK, W
  <2>3. \A g \in gaps : /\ g \in Gap /\ lo <= g.lo /\ g.lo <= g.hi /\ g.hi <= hi
                        /\ \A e \in W, b \in g.lo .. g.hi : ~ Covers(e, b)
    BY <1>3, <1>4, GapsAreUncovered, GapsType DEF Gap
  <2>4. \A g, h \in gaps : g # h => g.at # h.at /\ (g.hi < h.lo \/ h.hi < g.lo)
    BY <1>3, <1>4, GapsAreApart
  <2>5. PICK next \in gaps : IsNext(gaps, next) /\ cursor'[t] = next.lo
    BY <2>1
  <2> HIDE DEF gaps
  <2>6. \A g \in gaps : IsNext(gaps, g) => g = next
    BY <2>3, <2>4, <2>5, NextIsUnique
  <2>7. \A g \in gaps : \A c \in MergeEntries(W).seen : c[2] < g.lo \/ c[2] > g.hi
    <3>1. SUFFICES ASSUME NEW g \in gaps, NEW c \in MergeEntries(W).seen,
                          ~ (c[2] < g.lo \/ c[2] > g.hi)
                   PROVE  FALSE
      OBVIOUS
    <3>2. c[2] \in lo .. hi
      BY <1>4 DEF CellsOf
    <3>3. c[2] \in g.lo .. g.hi
      BY <2>3, <3>1, <3>2 DEF Gap, Blocks
    <3> QED
      BY <1>4, <2>3, <3>3
  <2>8. GapsRemain(t)'
    BY <1>3, <2>1, <2>2, <2>3, <2>4, <2>7 DEF GapsRemain, gaps
  <2>9. ScanCounted(t)'
    <3>1. next.lo \in Int /\ next.hi \in Int
      BY <2>3 DEF Gap, Blocks
    <3>2. todo'[t] = gaps
      BY <2>1 DEF gaps
    <3>3. next.lo <= cursor'[t] /\ cursor'[t] <= next.hi + 1
      BY <2>3, <2>5, <3>1
    <3> QED
      BY <1>3, <2>6, <3>2, <3>3 DEF ScanCounted
  <2>10. todo'[t] # {}
    BY <2>1, <2>5 DEF gaps
  <2> QED
    BY <1>3, <1>4, <2>2, <2>8, <2>9, <2>10 DEF CallCounted
<1> QED
  BY <1>1, <1>5, <1>6, <1>7 DEF lo, hi

LEMMA CountedScanChunk ==
    ASSUME TypeOK, NEW t \in Tasks, CallCounted(t), ScanChunk(t)
    PROVE  CallCounted(t)'
<1>1. PICK g \in todo[t] :
        /\ IsNext(todo[t], g)
        /\ cursor[t] <= g.hi
        /\ part' = [part EXCEPT ![t] =
                     Merge(@, Scanned(query[t].job, cursor[t], ChunkEnd(cursor[t], g.hi)))]
        /\ cursor' = [cursor EXCEPT ![t] = ChunkEnd(cursor[t], g.hi) + 1]
  BY DEF ScanChunk
<1> DEFINE to == ChunkEnd(cursor[t], g.hi)
           found == Scanned(query[t].job, cursor[t], to)
<1>2. /\ pc[t] = "busy" /\ pc'[t] = pc[t] /\ query'[t] = query[t] /\ todo'[t] = todo[t]
      /\ acc'[t] = acc[t] /\ degraded'[t] = degraded[t] /\ KeyOfTask(t)' = KeyOfTask(t)
  BY DEF ScanChunk, KeyOfTask
<1>3. cursor[t] \in Nat /\ g.lo \in Nat /\ g.hi \in Nat /\ g.hi \in Blocks
  BY U64MaxAssumption DEF TypeOK, Gap, Blocks
<1>4. to \in Int /\ cursor[t] <= to /\ to <= g.hi
  BY <1>1, <1>3, ChunkEndBounds DEF Blocks
<1>5. /\ g.lo <= cursor[t]
      /\ part[t].seen \subseteq {query[t].job} \X (g.lo .. cursor[t] - 1)
      /\ part[t].again = {}
  BY <1>1, <1>2 DEF CallCounted, ScanCounted
<1>6. found.seen \subseteq {query[t].job} \X (cursor[t] .. to) /\ found.again = {}
  BY DEF Scanned
<1> HIDE DEF found
<1>7. part'[t] = Merge(part[t], found) /\ cursor'[t] = to + 1
  BY <1>1 DEF TypeOK, found
<1>8. part[t].seen \cap found.seen = {}
  <2>1. SUFFICES ASSUME NEW c \in part[t].seen, c \in found.seen PROVE FALSE
    OBVIOUS
  <2>2. c[2] \in g.lo .. cursor[t] - 1 /\ c[2] \in cursor[t] .. to
    BY <1>5, <1>6, <2>1
  <2> QED
    BY <2>2, <1>3, <1>4
<1>9. part'[t].again = {}
  BY <1>5, <1>6, <1>7, <1>8 DEF Merge
<1>10. part'[t].seen \subseteq {query[t].job} \X (g.lo .. to)
  <2>1. (g.lo .. cursor[t] - 1) \subseteq (g.lo .. to) /\ (cursor[t] .. to) \subseteq (g.lo .. to)
    BY <1>3, <1>4, <1>5
  <2> QED
    BY <1>5, <1>6, <1>7, <2>1 DEF Merge
<1>11. \A h \in todo[t] : IsNext(todo[t], h) => h = g
  <2>1. \A x, y \in todo[t] : x # y => x.at # y.at
    BY <1>2 DEF CallCounted, GapsRemain
  <2> QED
    BY <1>1, <2>1, NextIsUnique DEF TypeOK
<1>12. ScanCounted(t)'
  <2>1. cursor'[t] - 1 = to /\ g.lo <= cursor'[t] /\ cursor'[t] <= g.hi + 1
    BY <1>3, <1>4, <1>5, <1>7
  <2> QED
    BY <1>2, <1>10, <1>11, <2>1 DEF ScanCounted
<1>13. GapsRemain(t)'
  BY <1>2 DEF CallCounted, GapsRemain
<1> QED
  BY <1>1, <1>2, <1>9, <1>12, <1>13 DEF CallCounted

LEMMA CountedForget ==
    ASSUME TypeOK, NEW t \in Tasks, Forget(t)
    PROVE  CallCounted(t)'
  BY DEF Forget, TypeOK, CallCounted, EmptyAggregate

\* When the scan of the next gap is over, its result is the gap's: the gap is
\* as far as the cursor got.
LEMMA GapScanned ==
    ASSUME TypeOK, NEW t \in Tasks, CallCounted(t), pc[t] = "busy",
           NEW g \in todo[t], IsNext(todo[t], g), cursor[t] > g.hi
    PROVE  /\ g.lo \in Blocks /\ g.hi \in Blocks /\ g.lo <= g.hi /\ g.hi < U64Max
           /\ query[t].lo <= g.lo /\ g.hi <= query[t].hi
           /\ cursor[t] - 1 = g.hi
           /\ part[t].again = {} /\ part[t].seen \subseteq {query[t].job} \X (g.lo .. g.hi)
           /\ part[t].seen \subseteq CellsOf(KeyOfTask(t), g.lo, g.hi)
<1>1. /\ g.lo \in Blocks /\ g.hi \in Blocks /\ cursor[t] \in Int
      /\ query[t].lo \in Int /\ query[t].hi \in Int /\ query[t].job \in Jobs
  BY DEF TypeOK, Gap, Blocks
<1>2. /\ query[t].lo <= g.lo /\ g.lo <= g.hi /\ g.hi <= query[t].hi /\ query[t].hi < U64Max
      /\ cursor[t] <= g.hi + 1 /\ part[t].again = {}
      /\ part[t].seen \subseteq {query[t].job} \X (g.lo .. cursor[t] - 1)
  BY DEF CallCounted, GapsRemain, ScanCounted
<1>3. cursor[t] - 1 = g.hi /\ g.hi < U64Max
  BY <1>1, <1>2, U64MaxAssumption DEF Blocks
<1>4. {query[t].job} \X (g.lo .. g.hi) \subseteq CellsOf(KeyOfTask(t), g.lo, g.hi)
  BY <1>1 DEF CellsOf, KeyOfTask
<1> QED
  BY <1>1, <1>2, <1>3, <1>4

LEMMA CountedNextGap ==
    ASSUME TypeOK, NEW t \in Tasks, CallCounted(t), pc[t] = "busy",
           NEW g \in todo[t], IsNext(todo[t], g), cursor[t] > g.hi,
           NEW found, found.again = {}, found.seen \subseteq part[t].seen,
           NextGap(t, g, found)
    PROVE  CallCounted(t)'
<1> DEFINE rest == todo[t] \ {g}
<1>1. /\ pc'[t] = "busy" /\ query'[t] = query[t] /\ KeyOfTask(t)' = KeyOfTask(t)
      /\ todo'[t] = rest /\ part'[t] = EmptyAggregate /\ acc'[t] = Merge(acc[t], found)
  BY DEF NextGap, TypeOK, KeyOfTask
<1>2. /\ g.lo \in Int /\ g.hi \in Int /\ query[t].lo \in Int /\ query[t].hi \in Int
      /\ query[t].lo <= g.lo /\ g.hi <= query[t].hi
      /\ found.seen \subseteq CellsOf(KeyOfTask(t), g.lo, g.hi)
      /\ \A c \in found.seen : c[2] \in g.lo .. g.hi
  BY GapScanned DEF TypeOK, Blocks
<1>3. /\ acc[t].again = {} /\ GapsRemain(t)
      /\ acc[t].seen \subseteq CellsOf(KeyOfTask(t), query[t].lo, query[t].hi)
      /\ query[t].lo <= query[t].hi /\ query[t].hi < U64Max
  BY DEF CallCounted
<1>4. acc[t].seen \cap found.seen = {}
  <2>1. SUFFICES ASSUME NEW c \in acc[t].seen, c \in found.seen PROVE FALSE
    OBVIOUS
  <2>2. c[2] < g.lo \/ c[2] > g.hi
    BY <1>3, <2>1 DEF GapsRemain
  <2> QED
    BY <1>2, <2>1, <2>2
<1>5. acc'[t].again = {} /\ acc'[t].seen = acc[t].seen \cup found.seen
  BY <1>1, <1>3, <1>4 DEF Merge
<1>6. acc'[t].seen \subseteq CellsOf(KeyOfTask(t), query[t].lo, query[t].hi)
  <2>1. (g.lo .. g.hi) \subseteq (query[t].lo .. query[t].hi)
    BY <1>2
  <2> QED
    BY <1>2, <1>3, <1>5, <2>1 DEF CellsOf
<1>7. GapsRemain(t)'
  <2>1. \A h \in rest, c \in found.seen : c[2] < h.lo \/ c[2] > h.hi
    <3>1. \A h \in rest : (g.hi < h.lo \/ h.hi < g.lo) /\ h.lo \in Int /\ h.hi \in Int
      BY <1>3 DEF GapsRemain, TypeOK, Gap, Blocks
    <3> QED
      BY <1>2, <3>1
  <2> QED
    BY <1>1, <1>3, <1>5, <2>1 DEF GapsRemain
<1>8. ScanCounted(t)'
  <2>1. CASE rest = {}
    BY <1>1, <2>1 DEF ScanCounted
  <2>2. CASE rest # {}
    <3>1. PICK h \in rest : IsNext(rest, h) /\ cursor'[t] = h.lo
      BY <2>2 DEF NextGap, TypeOK
    <3>2. \A x, y \in rest : x # y => x.at # y.at
      BY <1>3 DEF GapsRemain
    <3>3. \A x \in rest : IsNext(rest, x) => x = h
      BY <3>1, <3>2, NextIsUnique DEF TypeOK
    <3>4. h.lo \in Int /\ h.hi \in Int /\ h.lo <= h.hi
      BY <1>3 DEF GapsRemain, TypeOK, Gap, Blocks
    <3>5. h.lo <= cursor'[t] /\ cursor'[t] <= h.hi + 1
      BY <3>1, <3>4
    <3> QED
      BY <1>1, <3>3, <3>5 DEF ScanCounted, EmptyAggregate
  <2> QED
    BY <2>1, <2>2
<1> QED
  BY <1>1, <1>3, <1>5, <1>6, <1>7, <1>8 DEF CallCounted, EmptyAggregate

\* Inserting a counted aggregate keeps the entries counted.
LEMMA CountedInsert ==
    ASSUME EntriesCounted, NEW key, NEW lo, NEW hi, NEW value,
           lo <= hi, hi < U64Max, value.again = {}, value.seen \subseteq CellsOf(key, lo, hi),
           cache' = Insert(cache, key, lo, hi, value)
    PROVE  EntriesCounted'
<1>1. \A e \in cache' : e \in cache \/ e = [key |-> key, lo |-> lo, hi |-> hi, value |-> value]
  BY InsertAdds
<1> QED
  BY <1>1 DEF EntriesCounted

\* A step of one call changes nothing of the others.
LEMMA StepFrame ==
    ASSUME TypeOK, NEW t \in Tasks, Step(t), NEW u \in Tasks, u # t
    PROVE  Undisturbed(u)
<1>1. CASE Lookup(t)
  <2>1. PICK job \in Jobs, r \in Ranges : \/ LookupMiss(t, job, r[1], r[2])
                                          \/ LookupHit(t, job, r[1], r[2])
                                          \/ LookupPartial(t, job, r[1], r[2])
    BY <1>1 DEF Lookup
  <2>2. query'[u] = query[u] /\ part'[u] = part[u] /\ degraded'[u] = degraded[u]
    BY <2>1 DEF LookupMiss, LookupHit, LookupPartial, Ask, TypeOK
  <2>3. pc'[u] = pc[u] /\ acc'[u] = acc[u]
    BY <2>1 DEF LookupMiss, LookupHit, LookupPartial, TypeOK
  <2>4. CASE LookupMiss(t, job, r[1], r[2]) \/ LookupHit(t, job, r[1], r[2])
    BY <2>2, <2>3, <2>4 DEF LookupMiss, LookupHit, TypeOK, Undisturbed
  <2>5. CASE LookupPartial(t, job, r[1], r[2])
    <3>1. \E gaps : todo' = [todo EXCEPT ![t] = gaps]
      BY <2>5 DEF LookupPartial
    <3>2. \E from : cursor' = [cursor EXCEPT ![t] = from]
      BY <2>5 DEF LookupPartial
    <3> QED
      BY <2>2, <2>3, <3>1, <3>2 DEF TypeOK, Undisturbed
  <2> QED
    BY <2>1, <2>4, <2>5
<1>2. CASE ScanChunk(t)
  BY <1>2 DEF ScanChunk, TypeOK, Undisturbed
<1>3. CASE ScanFails(t) \/ Return(t)
  BY <1>3 DEF ScanFails, Return, Forget, TypeOK, Undisturbed
<1>4. ASSUME NEW g, NEW found, NextGap(t, g, found)
      PROVE  /\ pc'[u] = pc[u] /\ query'[u] = query[u] /\ todo'[u] = todo[u]
             /\ cursor'[u] = cursor[u] /\ part'[u] = part[u] /\ acc'[u] = acc[u]
  BY <1>4 DEF NextGap, TypeOK
<1>5. CASE FinishGap(t)
  BY <1>4, <1>5 DEF FinishGap, Undisturbed
<1>6. CASE DegradeGap(t)
  <2>1. \E g, found : NextGap(t, g, found)
    BY <1>6 DEF DegradeGap
  <2>2. degraded'[u] = degraded[u]
    BY <1>6 DEF DegradeGap, TypeOK
  <2> QED
    BY <1>4, <2>1, <2>2 DEF Undisturbed
<1>7. CASE WriteBack(t)
  BY <1>7 DEF WriteBack, TypeOK, Undisturbed
<1> QED
  BY <1>1, <1>2, <1>3, <1>5, <1>6, <1>7 DEF Step

LEMMA CountedInit == Init => Counted
  BY DEF Init, Counted, EntriesCounted, CallCounted, EmptyAggregate

LEMMA CountedStep ==
    ASSUME ProperQueries, TypeOK, RangesDisjoint, Counted, [Next]_vars
    PROVE  Counted'
<1>1. EntriesCounted /\ \A u \in Tasks : CallCounted(u)
  BY DEF Counted
<1>2. ASSUME NEW t \in Tasks, Step(t)
      PROVE  EntriesCounted' /\ CallCounted(t)'
  <2>1. CASE Lookup(t)
    <3>1. EntriesCounted'
      BY <1>1, <2>1 DEF Lookup, LookupMiss, LookupHit, LookupPartial, Ask, EntriesCounted
    <3>2. CallCounted(t)'
      BY <1>1, <2>1, CountedLookup
    <3> QED
      BY <3>1, <3>2
  <2>2. CASE ScanChunk(t)
    BY <1>1, <2>2, CountedScanChunk DEF ScanChunk, EntriesCounted, TypeOK
  <2>3. CASE ScanFails(t) \/ Return(t)
    <3>1. Forget(t)
      BY <2>3 DEF ScanFails, Return
    <3> QED
      BY <1>1, <3>1, CountedForget DEF Forget, EntriesCounted, TypeOK
  <2>4. CASE FinishGap(t)
    <3>1. PICK g \in todo[t] : /\ IsNext(todo[t], g) /\ cursor[t] > g.hi
                               /\ cache' = Insert(cache, KeyOfTask(t), g.lo, g.hi, part[t])
                               /\ NextGap(t, g, part[t])
      BY <2>4 DEF FinishGap
    <3>2. pc[t] = "busy" /\ degraded' = degraded
      BY <2>4 DEF FinishGap
    <3>3. EntriesCounted'
      BY <1>1, <3>1, <3>2, GapScanned, CountedInsert
    <3>4. CallCounted(t)'
      BY <1>1, <3>1, <3>2, GapScanned, CountedNextGap
    <3> QED
      BY <3>1, <3>2, <3>3, <3>4 DEF NextGap, TypeOK
  <2>5. CASE DegradeGap(t)
    <3>1. PICK g \in todo[t], kept \in SUBSET part[t].seen :
            /\ IsNext(todo[t], g) /\ cursor[t] > g.hi
            /\ NextGap(t, g, [part[t] EXCEPT !.seen = kept])
      <4>1. PICK g \in todo[t] :
              /\ IsNext(todo[t], g) /\ cursor[t] > g.hi
              /\ \E kept \in (SUBSET part[t].seen) \ {part[t].seen} :
                   NextGap(t, g, [part[t] EXCEPT !.seen = kept])
        BY <2>5 DEF DegradeGap
      <4> QED
        BY <4>1
    <3>2. pc[t] = "busy" /\ degraded' = [degraded EXCEPT ![t] = TRUE] /\ cache' = cache
      BY <2>5 DEF DegradeGap
    <3>3. /\ [part[t] EXCEPT !.seen = kept].again = {}
          /\ [part[t] EXCEPT !.seen = kept].seen \subseteq part[t].seen
      BY <1>1 DEF CallCounted, TypeOK, Aggregate
    <3>4. CallCounted(t)'
      BY <1>1, <3>1, <3>2, <3>3, CountedNextGap
    <3> QED
      BY <1>1, <3>1, <3>2, <3>4 DEF NextGap, TypeOK, EntriesCounted
  <2>6. CASE WriteBack(t)
    <3>1. /\ pc[t] = "busy" /\ todo[t] = {} /\ pc' = [pc EXCEPT ![t] = "done"]
          /\ UNCHANGED <<head, query, todo, cursor, part, acc, degraded>>
      BY <2>6 DEF WriteBack
    <3>2. CallCounted(t)'
      BY <1>1, <3>1 DEF CallCounted, TypeOK, GapsRemain, ScanCounted, KeyOfTask
    <3>3. EntriesCounted'
      <4>1. CASE degraded[t]
        BY <1>1, <2>6, <4>1 DEF WriteBack, EntriesCounted
      <4>2. CASE ~ degraded[t]
        <5>1. cache' = Insert(cache, KeyOfTask(t), query[t].lo, query[t].hi, acc[t])
          BY <2>6, <4>2 DEF WriteBack
        <5>2. /\ query[t].lo <= query[t].hi /\ query[t].hi < U64Max /\ acc[t].again = {}
              /\ acc[t].seen \subseteq CellsOf(KeyOfTask(t), query[t].lo, query[t].hi)
          BY <1>1, <3>1 DEF CallCounted
        <5> QED
          BY <1>1, <5>1, <5>2, CountedInsert
      <4> QED
        BY <4>1, <4>2
    <3> QED
      BY <3>1, <3>2, <3>3 DEF TypeOK
  <2> QED
    BY <1>2, <2>1, <2>2, <2>3, <2>4, <2>5, <2>6 DEF Step
<1>3. CASE \E t \in Tasks : Step(t)
  <2>1. PICK t \in Tasks : Step(t)
    BY <1>3
  <2>2. \A u \in Tasks \ {t} : CallCounted(u)'
    BY <1>1, <2>1, StepFrame, OthersStayCounted
  <2> QED
    BY <1>2, <2>1, <2>2 DEF Counted
<1>4. CASE Clear \/ NewBlock \/ UNCHANGED vars
  <2>1. cache' \in SUBSET cache /\ UNCHANGED <<pc, query, todo, cursor, part, acc, degraded>>
    BY <1>4 DEF Clear, ClearSignerData, ClearOldBlocks, WithoutKey, WithoutBlocksBelow,
                NewBlock, vars
  <2>2. EntriesCounted'
    BY <1>1, <2>1 DEF EntriesCounted
  <2> QED
    BY <1>1, <2>1, <2>2, OthersStayCounted DEF Counted, Undisturbed
<1> QED
  BY <1>3, <1>4 DEF Next

\* When callers ask for windows in order that end before the last block
\* number, no aggregate ever holds a block twice: not a cached one, and not
\* one a caller is collecting, however the callers interleave and fail.
THEOREM NothingCountedTwice ==
    ASSUME ProperQueries
    PROVE  Spec => []NeverDoubleCounted
<1>1. TypeOK /\ RangesDisjoint /\ Counted /\ [Next]_vars => Counted'
  BY CountedStep
<1>2. Counted => NeverDoubleCounted
  BY DEF Counted, EntriesCounted, CallCounted, NeverDoubleCounted
<1> QED
  BY <1>1, <1>2, CountedInit, TypeCorrect, Disjointness, PTL DEF Spec
-----------------------------------------------------------------------------
(* Nothing is missed *)

\* The merge a lookup starts from holds every block its entries cover.
LEMMA MergedIsComplete ==
    ASSUME EntriesComplete, TypeOK, NEW key, NEW lo, NEW hi,
           NEW e \in WithinQuery(cache, key, lo, hi), NEW b \in Int, Covers(e, b),
           NEW job \in Jobs, KeyOf[job] = key
    PROVE  <<job, b>> \in MergeEntries(WithinQuery(cache, key, lo, hi)).seen
<1>1. e \in cache /\ e.key = key /\ e.lo \in Int /\ e.hi \in Int
  BY DEF WithinQuery, TypeOK, Entry, Blocks
<1>2. <<job, b>> \in {job} \X (e.lo .. e.hi)
  BY <1>1 DEF Covers
<1>3. <<job, b>> \in e.value.seen
  BY <1>1, <1>2 DEF EntriesComplete
<1> QED
  BY <1>3 DEF MergeEntries

LEMMA CompleteLookup ==
    ASSUME ProperQueries, ~PastHead, TypeOK, RangesDisjoint, EntriesCounted, EntriesComplete,
           NEW t \in Tasks, CallCounted(t), Lookup(t)
    PROVE  CallComplete(t)'
<1>1. PICK job \in Jobs, r \in Ranges : \/ LookupMiss(t, job, r[1], r[2])
                                        \/ LookupHit(t, job, r[1], r[2])
                                        \/ LookupPartial(t, job, r[1], r[2])
  BY DEF Lookup
<1> DEFINE lo == r[1]  hi == r[2]
           W == WithinQuery(cache, KeyOf[job], lo, hi)
<1>2. Ask(t, job, lo, hi)
  BY <1>1 DEF LookupMiss, LookupHit, LookupPartial
<1>3. /\ lo \in Blocks /\ hi \in Blocks /\ lo \in Int /\ hi \in Int /\ hi <= head'
      /\ query'[t] = [job |-> job, lo |-> lo, hi |-> hi, settled |-> hi <= head]
  <2>1. hi <= head' /\ head' = head
    BY <1>2 DEF Ask
  <2>2. /\ lo \in Blocks /\ hi \in Blocks
        /\ query'[t] = [job |-> job, lo |-> lo, hi |-> hi, settled |-> hi <= head]
    BY <1>2, AskStarts
  <2> QED
    BY <2>1, <2>2 DEF Blocks
<1>4. /\ W \in SUBSET Entry /\ IsFiniteSet(W)
      /\ \A e \in W : Proper(e) /\ lo <= e.lo /\ e.hi <= hi
  BY <1>3, MergedEntries, RangeQueryAssumption
<1>5. \A e \in W, b \in lo .. hi : Covers(e, b) => <<job, b>> \in MergeEntries(W).seen
  BY <1>3, MergedIsComplete
<1> HIDE DEF lo, hi, W
<1>6. CASE LookupMiss(t, job, lo, hi)
  <2>1. todo'[t] = {[at |-> 1, lo |-> lo, hi |-> hi]} /\ cursor'[t] = lo
    BY <1>6 DEF LookupMiss, TypeOK, W
  <2>2. \A b \in lo .. hi : \E g \in todo'[t] : g.lo <= b /\ b <= g.hi
    BY <1>3, <2>1
  <2>3. \A g \in todo'[t] : (g.lo .. cursor'[t] - 1) = {}
    BY <1>3, <2>1
  <2> QED
    BY <1>3, <2>2, <2>3 DEF CallComplete
<1>7. CASE LookupHit(t, job, lo, hi)
  <2>1. todo'[t] = todo[t] /\ acc'[t] = MergeEntries(W) /\ todo[t] = {}
    BY <1>2, <1>7 DEF LookupHit, TypeOK, W, CallCounted, Ask
  <2>2. PICK pos \in SortedPositions(W) : Gaps(W, lo, hi, pos) = {}
    BY <1>7 DEF LookupHit, W
  <2>3. \A b \in lo .. hi : <<job, b>> \in acc'[t].seen
    BY <1>3, <1>4, <1>5, <2>1, <2>2, GapsAreExhaustive
  <2> QED
    BY <1>3, <2>1, <2>3 DEF CallComplete
<1>8. CASE LookupPartial(t, job, lo, hi)
  <2>1. PICK pos \in SortedPositions(W) :
          /\ todo'[t] = Gaps(W, lo, hi, pos)
          /\ \E g \in Gaps(W, lo, hi, pos) : /\ IsNext(Gaps(W, lo, hi, pos), g)
                                             /\ cursor'[t] = g.lo
    BY <1>8 DEF LookupPartial, TypeOK, W
  <2> DEFINE gaps == Gaps(W, lo, hi, pos)
  <2>2. acc'[t] = MergeEntries(W)
    BY <1>8 DEF LookupPartial, TypeOK, W
  <2>3. \A b \in lo .. hi : \/ <<job, b>> \in acc'[t].seen
                            \/ \E g \in gaps : g.lo <= b /\ b <= g.hi
    BY <1>3, <1>4, <1>5, <2>2, GapsAreExhaustive DEF Covers
  <2>4. gaps \in SUBSET Gap /\ \A g, h \in gaps : g # h => g.at # h.at
    BY <1>3, <1>4, GapsType, GapsAreApart DEF Gap
  <2>5. PICK next \in gaps : IsNext(gaps, next) /\ cursor'[t] = next.lo
    BY <2>1
  <2>6. todo'[t] = gaps
    BY <2>1
  <2> HIDE DEF gaps
  <2>7. \A g \in gaps : IsNext(gaps, g) => g = next
    BY <2>4, <2>5, NextIsUnique
  <2>8. (next.lo .. cursor'[t] - 1) = {}
    BY <2>4, <2>5 DEF Gap, Blocks
  <2> QED
    BY <1>3, <2>3, <2>6, <2>7, <2>8 DEF CallComplete
<1> QED
  BY <1>1, <1>6, <1>7, <1>8 DEF lo, hi

LEMMA CompleteScanChunk ==
    ASSUME TypeOK, NEW t \in Tasks, CallCounted(t), CallComplete(t), ScanChunk(t)
    PROVE  CallComplete(t)'
<1>1. PICK g \in todo[t] :
        /\ IsNext(todo[t], g)
        /\ cursor[t] <= g.hi
        /\ part' = [part EXCEPT ![t] =
                     Merge(@, Scanned(query[t].job, cursor[t], ChunkEnd(cursor[t], g.hi)))]
        /\ cursor' = [cursor EXCEPT ![t] = ChunkEnd(cursor[t], g.hi) + 1]
  BY DEF ScanChunk
<1> DEFINE to == ChunkEnd(cursor[t], g.hi)
<1>2. /\ pc[t] = "busy" /\ query'[t] = query[t] /\ todo'[t] = todo[t] /\ head' = head
      /\ acc'[t] = acc[t] /\ degraded'[t] = degraded[t]
  BY DEF ScanChunk
<1>3. cursor[t] \in Nat /\ g.lo \in Nat /\ g.hi \in Blocks /\ g.hi \in Nat /\ head \in Nat
      /\ query[t].hi \in Nat
  BY U64MaxAssumption DEF TypeOK, Gap, Blocks
<1>4. to \in Int /\ cursor[t] <= to /\ to <= g.hi
  BY <1>1, <1>3, ChunkEndBounds DEF Blocks
<1>5. to <= head
  <2>1. query[t].hi <= head /\ g.hi <= query[t].hi
    BY <1>2 DEF CallComplete, CallCounted, GapsRemain
  <2> QED
    BY <1>3, <1>4, <2>1
<1>6. /\ part'[t] = Merge(part[t], Scanned(query[t].job, cursor[t], to))
      /\ cursor'[t] = to + 1
  BY <1>1 DEF TypeOK
<1>7. {query[t].job} \X (g.lo .. cursor[t] - 1) \subseteq part[t].seen
  BY <1>1, <1>2 DEF CallComplete
<1>8. {query[t].job} \X (cursor[t] .. to) \subseteq Scanned(query[t].job, cursor[t], to).seen
  BY <1>3, <1>4, <1>5 DEF Scanned
<1> HIDE DEF to
<1>9. (g.lo .. to) \subseteq (g.lo .. cursor[t] - 1) \cup (cursor[t] .. to)
  BY <1>3, <1>4
<1>10. {query[t].job} \X (g.lo .. to) \subseteq part'[t].seen
  BY <1>6, <1>7, <1>8, <1>9 DEF Merge
<1>11. \A h \in todo[t] : IsNext(todo[t], h) => h = g
  <2>1. \A x, y \in todo[t] : x # y => x.at # y.at
    BY <1>2 DEF CallCounted, GapsRemain
  <2> QED
    BY <1>1, <2>1, NextIsUnique DEF TypeOK
<1>12. cursor'[t] - 1 = to
  BY <1>4, <1>6
<1> QED
  BY <1>2, <1>10, <1>11, <1>12 DEF CallComplete

\* When the scan of the next gap is over, nothing of the gap is missing.
LEMMA GapIsComplete ==
    ASSUME TypeOK, NEW t \in Tasks, CallCounted(t), CallComplete(t), pc[t] = "busy",
           NEW g \in todo[t], IsNext(todo[t], g), cursor[t] > g.hi
    PROVE  {query[t].job} \X (g.lo .. g.hi) \subseteq part[t].seen
<1>1. cursor[t] - 1 = g.hi
  BY GapScanned
<1> QED
  BY <1>1 DEF CallComplete

LEMMA CompleteNextGap ==
    ASSUME TypeOK, NEW t \in Tasks, CallCounted(t), CallComplete(t), pc[t] = "busy",
           NEW g \in todo[t], IsNext(todo[t], g), cursor[t] > g.hi,
           NEW found, NextGap(t, g, found),
           ~degraded'[t] => ~degraded[t] /\ found.seen = part[t].seen
    PROVE  CallComplete(t)'
<1> DEFINE rest == todo[t] \ {g}
<1>1. /\ query'[t] = query[t] /\ todo'[t] = rest /\ head' = head
      /\ acc'[t] = Merge(acc[t], found)
  BY DEF NextGap, TypeOK
<1>2. query[t].hi <= head
  BY DEF CallComplete
<1>3. ~degraded'[t] => \A b \in query[t].lo .. query[t].hi :
        \/ <<query[t].job, b>> \in acc'[t].seen
        \/ \E h \in rest : h.lo <= b /\ b <= h.hi
  <2> SUFFICES ASSUME ~degraded'[t], NEW b \in query[t].lo .. query[t].hi
               PROVE  \/ <<query[t].job, b>> \in acc'[t].seen
                      \/ \E h \in rest : h.lo <= b /\ b <= h.hi
    OBVIOUS
  <2>1. \/ <<query[t].job, b>> \in acc[t].seen
        \/ \E h \in todo[t] : h.lo <= b /\ b <= h.hi
    BY DEF CallComplete
  <2>2. CASE g.lo <= b /\ b <= g.hi
    <3>1. b \in g.lo .. g.hi
      BY <2>2 DEF TypeOK, Gap, Blocks
    <3>2. <<query[t].job, b>> \in found.seen
      BY <3>1, GapIsComplete
    <3> QED
      BY <1>1, <3>2 DEF Merge
  <2>3. CASE ~ (g.lo <= b /\ b <= g.hi)
    BY <1>1, <2>1, <2>3 DEF Merge
  <2> QED
    BY <2>2, <2>3
<1>4. \A h \in rest : IsNext(rest, h) => (h.lo .. cursor'[t] - 1) = {}
  <2> SUFFICES ASSUME NEW h \in rest, IsNext(rest, h) PROVE (h.lo .. cursor'[t] - 1) = {}
    OBVIOUS
  <2>1. PICK n \in rest : IsNext(rest, n) /\ cursor'[t] = n.lo
    BY DEF NextGap, TypeOK
  <2>2. rest \in SUBSET Gap /\ \A x, y \in rest : x # y => x.at # y.at
    BY DEF CallCounted, GapsRemain, TypeOK
  <2> HIDE DEF rest
  <2>3. h = n
    BY <2>1, <2>2, NextIsUnique
  <2> QED
    BY <2>1, <2>2, <2>3 DEF Gap, Blocks
<1> QED
  BY <1>1, <1>2, <1>3, <1>4 DEF CallComplete

\* Inserting an aggregate that misses nothing keeps the entries complete.
LEMMA CompleteInsert ==
    ASSUME EntriesComplete, KeyDeterminesJob, NEW job \in Jobs, NEW lo, NEW hi, NEW value,
           hi <= head, head' = head, {job} \X (lo .. hi) \subseteq value.seen,
           cache' = Insert(cache, KeyOf[job], lo, hi, value)
    PROVE  EntriesComplete'
<1> DEFINE new == [key |-> KeyOf[job], lo |-> lo, hi |-> hi, value |-> value]
<1>1. \A e \in cache' : e \in cache \/ e = new
  BY InsertAdds
<1>2. \A j \in Jobs : KeyOf[j] = new.key => j = job
  BY DEF KeyDeterminesJob
<1> QED
  BY <1>1, <1>2 DEF EntriesComplete

\* A call that a step leaves alone stays complete: the head only moves up.
LEMMA OthersStayComplete ==
    ASSUME TypeOK, NEW u \in Tasks, CallComplete(u), head' \in Int, head <= head',
           Undisturbed(u)
    PROVE  CallComplete(u)'
<1>1. query[u].hi \in Int /\ head \in Int
  BY DEF TypeOK, Blocks
<1> QED
  BY <1>1 DEF CallComplete, Undisturbed

LEMMA CompleteStep ==
    ASSUME ProperQueries, KeyDeterminesJob, ~PastHead,
           TypeOK, RangesDisjoint, Counted, Complete, [Next]_vars
    PROVE  Complete'
<1>1. /\ EntriesCounted /\ \A u \in Tasks : CallCounted(u)
      /\ EntriesComplete /\ \A u \in Tasks : CallComplete(u)
  BY DEF Counted, Complete
<1>2. head' \in Int /\ head <= head' /\ head \in Int
  <2>1. head \in Int
    BY DEF TypeOK, Blocks
  <2>2. head' = head \/ head' = head + 1
    <3>1. ASSUME NEW t \in Tasks, Step(t) PROVE head' = head
      <4>1. CASE FinishGap(t) \/ DegradeGap(t)
        BY <4>1 DEF FinishGap, DegradeGap, NextGap
      <4>2. CASE Lookup(t)
        BY <4>2 DEF Lookup, LookupMiss, LookupHit, LookupPartial, Ask
      <4> QED
        BY <3>1, <4>1, <4>2 DEF Step, ScanChunk, ScanFails, Return, Forget, WriteBack
    <3> QED
      BY <3>1 DEF Next, Clear, ClearSignerData, ClearOldBlocks, NewBlock, vars
  <2> QED
    BY <2>1, <2>2
<1>3. ASSUME NEW t \in Tasks, Step(t)
      PROVE  EntriesComplete' /\ CallComplete(t)'
  <2>1. CASE Lookup(t)
    <3>1. cache' = cache /\ head' = head
      BY <2>1 DEF Lookup, LookupMiss, LookupHit, LookupPartial, Ask
    <3>2. CallComplete(t)'
      BY <1>1, <2>1, CompleteLookup
    <3> QED
      BY <1>1, <3>1, <3>2 DEF EntriesComplete
  <2>2. CASE ScanChunk(t)
    <3>1. CallComplete(t)'
      BY <1>1, <2>2, CompleteScanChunk
    <3> QED
      BY <1>1, <2>2, <3>1 DEF ScanChunk, EntriesComplete
  <2>3. CASE ScanFails(t) \/ Return(t)
    BY <1>1, <2>3 DEF ScanFails, Return, Forget, EntriesComplete, CallComplete, TypeOK
  <2>4. CASE FinishGap(t)
    <3>1. PICK g \in todo[t] : /\ IsNext(todo[t], g) /\ cursor[t] > g.hi
                               /\ cache' = Insert(cache, KeyOfTask(t), g.lo, g.hi, part[t])
                               /\ NextGap(t, g, part[t])
      BY <2>4 DEF FinishGap
    <3>2. pc[t] = "busy" /\ degraded' = degraded /\ head' = head
      BY <2>4 DEF FinishGap, NextGap
    <3>3. CallComplete(t)'
      BY <1>1, <3>1, <3>2, CompleteNextGap
    <3>4. EntriesComplete'
      <4>1. {query[t].job} \X (g.lo .. g.hi) \subseteq part[t].seen
        BY <1>1, <3>1, <3>2, GapIsComplete
      <4>2. g.hi <= query[t].hi /\ g.hi \in Blocks /\ query[t].hi \in Int
        BY <1>1, <3>1, <3>2, GapScanned DEF TypeOK, Blocks
      <4>3. query[t].hi <= head /\ query[t].job \in Jobs
        BY <1>1, <3>2 DEF CallComplete, TypeOK
      <4>4. g.hi <= head
        BY <1>2, <4>2, <4>3 DEF Blocks
      <4> QED
        BY <1>1, <3>1, <3>2, <4>1, <4>3, <4>4, CompleteInsert DEF KeyOfTask
    <3> QED
      BY <3>3, <3>4
  <2>5. CASE DegradeGap(t)
    <3>1. PICK g \in todo[t] :
            /\ IsNext(todo[t], g) /\ cursor[t] > g.hi
            /\ \E found : NextGap(t, g, found)
      BY <2>5 DEF DegradeGap
    <3>2. pc[t] = "busy" /\ degraded'[t] /\ cache' = cache /\ head' = head
      BY <2>5, <3>1 DEF DegradeGap, NextGap, TypeOK
    <3>3. CallComplete(t)'
      BY <1>1, <3>1, <3>2, CompleteNextGap
    <3> QED
      BY <1>1, <3>2, <3>3 DEF EntriesComplete
  <2>6. CASE WriteBack(t)
    <3>1. /\ pc[t] = "busy" /\ todo[t] = {} /\ pc' = [pc EXCEPT ![t] = "done"]
          /\ UNCHANGED <<head, query, todo, cursor, part, acc, degraded>>
      BY <2>6 DEF WriteBack
    <3>2. CallComplete(t)'
      BY <1>1, <3>1 DEF CallComplete
    <3>3. CASE degraded[t]
      BY <1>1, <2>6, <3>1, <3>2, <3>3 DEF WriteBack, EntriesComplete
    <3>4. CASE ~degraded[t]
      <4>1. cache' = Insert(cache, KeyOf[query[t].job], query[t].lo, query[t].hi, acc[t])
        BY <2>6, <3>4 DEF WriteBack, KeyOfTask
      <4>2. /\ query[t].hi <= head /\ query[t].job \in Jobs
            /\ {query[t].job} \X (query[t].lo .. query[t].hi) \subseteq acc[t].seen
        BY <1>1, <3>1, <3>4 DEF CallComplete, TypeOK
      <4> QED
        BY <1>1, <3>1, <3>2, <4>1, <4>2, CompleteInsert
    <3> QED
      BY <3>3, <3>4
  <2> QED
    BY <1>3, <2>1, <2>2, <2>3, <2>4, <2>5, <2>6 DEF Step
<1>4. CASE \E t \in Tasks : Step(t)
  <2>1. PICK t \in Tasks : Step(t)
    BY <1>4
  <2>2. \A u \in Tasks \ {t} : CallComplete(u)'
    BY <1>1, <1>2, <2>1, StepFrame, OthersStayComplete
  <2> QED
    BY <1>3, <2>1, <2>2 DEF Complete
<1>5. CASE Clear \/ NewBlock \/ UNCHANGED vars
  <2>1. cache' \in SUBSET cache /\ UNCHANGED <<pc, query, todo, cursor, part, acc, degraded>>
    BY <1>5 DEF Clear, ClearSignerData, ClearOldBlocks, WithoutKey, WithoutBlocksBelow,
                NewBlock, vars
  <2>2. \A e \in cache : e.hi \in Int
    BY DEF TypeOK, Entry, Blocks
  <2>3. EntriesComplete'
    BY <1>1, <1>2, <2>1, <2>2 DEF EntriesComplete
  <2>4. \A u \in Tasks : CallComplete(u)'
    BY <1>1, <1>2, <2>1, OthersStayComplete DEF Undisturbed
  <2> QED
    BY <2>3, <2>4 DEF Complete
<1> QED
  BY <1>4, <1>5 DEF Next

LEMMA CompleteInit == Init => Complete
  BY DEF Init, Complete, EntriesComplete, CallComplete

\* What an aggregate holds is what it must hold: it is the exact one.
LEMMA CountedAndCompleteIsWhole ==
    ASSUME KeyDeterminesJob, NEW job \in Jobs, NEW lo, NEW hi, NEW value \in Aggregate,
           value.again = {}, value.seen \subseteq CellsOf(KeyOf[job], lo, hi),
           {job} \X (lo .. hi) \subseteq value.seen
    PROVE  value = Whole(job, lo, hi)
<1>1. CellsOf(KeyOf[job], lo, hi) = {job} \X (lo .. hi)
  BY DEF CellsOf, KeyDeterminesJob
<1> QED
  BY <1>1 DEF Whole, Aggregate

\* The invariant the last two theorems follow from.
LEMMA ExactInvariant ==
    ASSUME ProperQueries, KeyDeterminesJob, ~PastHead
    PROVE  Spec => [](TypeOK /\ Counted /\ Complete)
<1>1. TypeOK /\ RangesDisjoint /\ Counted /\ [Next]_vars => Counted'
  BY CountedStep
<1>2. TypeOK /\ RangesDisjoint /\ Counted /\ Complete /\ [Next]_vars => Complete'
  BY CompleteStep
<1> QED
  BY <1>1, <1>2, CountedInit, CompleteInit, TypeCorrect, Disjointness, PTL DEF Spec

\* When, besides, no two jobs share a key and callers ask only for blocks the
\* chain has, every cached entry is the exact aggregate of its range: gaps that
\* were computed before other callers inserted, scans that failed half-way and
\* degraded gaps leave no trace in the cache.
THEOREM CacheIsExact ==
    ASSUME ProperQueries, KeyDeterminesJob, ~PastHead
    PROVE  Spec => []CachedIsWhole
<1>1. TypeOK /\ Counted /\ Complete => CachedIsWhole
  <2> SUFFICES ASSUME TypeOK, Counted, Complete, NEW e \in cache, NEW job \in Jobs,
                      KeyOf[job] = e.key
               PROVE  e.value = Whole(job, e.lo, e.hi)
    BY DEF CachedIsWhole
  <2>1. e.value \in Aggregate
    BY DEF TypeOK, Entry
  <2>2. /\ e.value.again = {} /\ e.value.seen \subseteq CellsOf(KeyOf[job], e.lo, e.hi)
        /\ {job} \X (e.lo .. e.hi) \subseteq e.value.seen
    BY DEF Counted, EntriesCounted, Complete, EntriesComplete
  <2> QED
    BY <2>1, <2>2, CountedAndCompleteIsWhole
<1> QED
  BY <1>1, ExactInvariant, PTL

\* Under the same conditions the answer of a call that was not degraded is the
\* exact aggregate of its window, whichever mix of cached entries and fresh
\* scans it was put together from.
THEOREM AnswersAreExact ==
    ASSUME ProperQueries, KeyDeterminesJob, ~PastHead
    PROVE  Spec => []AnswerIsWhole
<1>1. TypeOK /\ Counted /\ Complete => AnswerIsWhole
  <2> SUFFICES ASSUME TypeOK, Counted, Complete, NEW t \in Tasks, pc[t] = "done", ~degraded[t]
               PROVE  acc[t] = Whole(query[t].job, query[t].lo, query[t].hi)
    BY DEF AnswerIsWhole
  <2>1. acc[t] \in Aggregate /\ query[t].job \in Jobs
    BY DEF TypeOK
  <2>2. CallCounted(t) /\ CallComplete(t)
    BY DEF Counted, Complete
  <2>3. /\ acc[t].again = {} /\ todo[t] = {}
        /\ acc[t].seen \subseteq CellsOf(KeyOf[query[t].job], query[t].lo, query[t].hi)
    BY <2>2 DEF CallCounted, KeyOfTask
  <2>4. {query[t].job} \X (query[t].lo .. query[t].hi) \subseteq acc[t].seen
    BY <2>2, <2>3 DEF CallComplete
  <2> QED
    BY <2>1, <2>3, <2>4, CountedAndCompleteIsWhole
<1> QED
  BY <1>1, ExactInvariant, PTL

\* A call on a key of its own never collects anything that was not asked for:
\* what it returns, degraded or past the head or not, is about its window.
THEOREM NothingElse ==
    ASSUME ProperQueries, KeyDeterminesJob
    PROVE  Spec => []OnlyWhatWasAsked
<1>1. TypeOK /\ RangesDisjoint /\ Counted /\ [Next]_vars => Counted'
  BY CountedStep
<1>2. TypeOK /\ Counted => OnlyWhatWasAsked
  <2> SUFFICES ASSUME TypeOK, Counted, NEW t \in Tasks, pc[t] # "idle"
               PROVE  acc[t].seen \subseteq {query[t].job} \X (query[t].lo .. query[t].hi)
    BY DEF OnlyWhatWasAsked
  <2>1. query[t].job \in Jobs
    BY DEF TypeOK
  <2>2. CellsOf(KeyOfTask(t), query[t].lo, query[t].hi)
          = {query[t].job} \X (query[t].lo .. query[t].hi)
    BY <2>1 DEF CellsOf, KeyOfTask, KeyDeterminesJob
  <2> QED
    BY <2>2 DEF Counted, CallCounted
<1> QED
  BY <1>1, <1>2, CountedInit, TypeCorrect, Disjointness, PTL DEF Spec

-----------------------------------------------------------------------------
(* Gas: what the blocks are charged *)

Fields == {"total", "count", "execution", "l1_fee"}

\* SatAdd and SatMul cut at the largest amount
Cut(n) == IF n < WeiMax THEN n ELSE WeiMax

\* The amounts of the transactions of a block, and of the blocks
TxDue(field, b) == [i \in DOMAIN TxsOf[b] |-> Due(TxsOf[b][i])[field]]

BlocksDue(field) == [b \in Blocks |-> SumOf(TxDue(field, b), DOMAIN TxsOf[b])]

\* The result with these exact amounts
Bill(total, count, execution, fee) ==
    [total |-> Cut(total), count |-> count, execution |-> Cut(execution), blob |-> 0,
     l1_fee |-> Cut(fee)]

\* The result that stands for the blocks of S
BillFor(S) == Bill(SumOf(BlocksDue("total"), S), SumOf(BlocksDue("count"), S),
                   SumOf(BlocksDue("execution"), S), SumOf(BlocksDue("l1_fee"), S))

\* Min of two amounts is the lesser.
LEMMA MinOfTwo ==
    ASSUME NEW a \in Int, NEW b \in Int
    PROVE  Min({a, b}) = IF a < b THEN a ELSE b
<1>1. \E x \in {a, b} : \A y \in {a, b} : x <= y
  <2>1. CASE a < b
    BY <2>1
  <2>2. CASE ~(a < b)
    BY <2>2
  <2> QED
    BY <2>1, <2>2
<1>2. Min({a, b}) \in {a, b} /\ \A y \in {a, b} : Min({a, b}) <= y
  BY <1>1 DEF Min
<1> QED
  BY <1>2

LEMMA SatAddIs ==
    ASSUME NEW a \in Nat, NEW b \in Nat
    PROVE  SatAdd(Cut(a), Cut(b)) = Cut(a + b) /\ SatAdd(Cut(a), b) = Cut(a + b)
<1>1. WeiMax \in Nat
  BY GasQueryAssumption
<1>2. Cut(a) \in Nat /\ Cut(b) \in Nat
  BY <1>1 DEF Cut
<1>3. /\ SatAdd(Cut(a), Cut(b)) = Cut(Cut(a) + Cut(b))
      /\ SatAdd(Cut(a), b) = Cut(Cut(a) + b)
  BY <1>1, <1>2, MinOfTwo DEF SatAdd, Cut
<1> QED
  BY <1>1, <1>3 DEF Cut

\* A transaction's amounts are numbers, and it is charged what is due, cut.
LEMMA DueIs ==
    ASSUME NEW tx \in Tx
    PROVE  LET due == Due(tx)
               breakdown == Breakdown(GasForTx(tx))
           IN  /\ \A field \in Fields : due[field] \in Nat
               /\ due.total = due.execution + due.l1_fee /\ due.count = 1
               /\ breakdown.execution = Cut(due.execution) /\ breakdown.blob = 0
               /\ breakdown.l1_fee = due.l1_fee
               /\ TotalCost(breakdown) = Cut(due.total)
<1> DEFINE price == EffectiveGasPrice(tx)
           execution == tx.gas_used * price
           fee == IF tx.l1_fee = NoFee THEN 0 ELSE tx.l1_fee
           breakdown == Breakdown(GasForTx(tx))
<1>1. WeiMax \in Nat /\ tx.gas_used \in Nat /\ price \in Nat /\ fee \in Nat
  BY GasQueryAssumption DEF Tx, EffectiveGasPrice
<1>2. execution \in Nat
  <2> HIDE DEF price
  <2>1. \A x, y \in Nat : x * y \in Nat
    OBVIOUS
  <2> QED
    BY <1>1, <2>1
<1>3. /\ breakdown.execution = SatMul(tx.gas_used, price)
      /\ breakdown.blob = 0 /\ breakdown.l1_fee = fee
  BY DEF Breakdown, GasForTx
<1>4. /\ Due(tx).total = execution + fee /\ Due(tx).count = 1
      /\ Due(tx).execution = execution /\ Due(tx).l1_fee = fee
  BY DEF Due
<1>5. SatMul(tx.gas_used, price) = Cut(execution)
  <2> DEFINE e == execution
  <2>1. SatMul(tx.gas_used, price) = Min({e, WeiMax})
    BY DEF SatMul
  <2> HIDE DEF e
  <2>2. Min({e, WeiMax}) = Cut(e)
    BY <1>1, <1>2, MinOfTwo DEF e, Cut
  <2> QED
    BY <2>1, <2>2 DEF e
<1> HIDE DEF execution, fee, breakdown, price
<1>6. TotalCost(breakdown) = Cut(execution + fee)
  <2>1. SatAdd(Cut(execution), 0) = Cut(execution)
    BY <1>2, SatAddIs
  <2>2. SatAdd(Cut(execution), fee) = Cut(execution + fee)
    BY <1>1, <1>2, SatAddIs
  <2> QED
    BY <1>3, <1>5, <2>1, <2>2 DEF TotalCost
<1> QED
  BY <1>1, <1>2, <1>3, <1>4, <1>5, <1>6 DEF Fields, breakdown

\* A transaction is added as the exact amounts add up.
LEMMA BillAdds ==
    ASSUME NEW a \in Nat, NEW b \in Nat, NEW c \in Nat, NEW d \in Nat, NEW tx \in Tx
    PROVE  AddTransaction(Bill(a, b, c, d), tx)
             = Bill(a + Due(tx).total, b + Due(tx).count, c + Due(tx).execution,
                    d + Due(tx).l1_fee)
<1> DEFINE due == Due(tx)
           breakdown == Breakdown(GasForTx(tx))
<1>1. /\ due.total \in Nat /\ due.count = 1 /\ due.execution \in Nat /\ due.l1_fee \in Nat
      /\ breakdown.execution = Cut(due.execution) /\ breakdown.blob = 0
      /\ breakdown.l1_fee = due.l1_fee /\ TotalCost(breakdown) = Cut(due.total)
  BY DueIs DEF Fields
<1> HIDE DEF due, breakdown
<1>2. /\ SatAdd(Cut(a), Cut(due.total)) = Cut(a + due.total)
      /\ SatAdd(Cut(c), Cut(due.execution)) = Cut(c + due.execution)
      /\ SatAdd(Cut(d), due.l1_fee) = Cut(d + due.l1_fee)
  BY <1>1, SatAddIs
<1>3. SatAdd(0, 0) = 0
  BY GasQueryAssumption, MinOfTwo DEF SatAdd
<1>4. AddTransaction(Bill(a, b, c, d), tx)
        = MergeBill(Bill(a, b, c, d),
                    [total |-> Cut(due.total), count |-> 1, execution |-> Cut(due.execution),
                     blob |-> 0, l1_fee |-> due.l1_fee])
  BY <1>1 DEF AddTransaction, breakdown
<1> QED
  BY <1>1, <1>2, <1>3, <1>4 DEF MergeBill, Bill, due

-----------------------------------------------------------------------------
(* Sums over blocks *)

\* The blocks, and the transactions of each, are finitely many and have amounts.
LEMMA DuesAreNaturals ==
    ASSUME NEW field \in Fields
    PROVE  /\ IsFiniteSet(Blocks)
           /\ \A b \in Blocks :
                /\ IsFiniteSet(DOMAIN TxsOf[b])
                /\ \A i \in DOMAIN TxsOf[b] : TxDue(field, b)[i] \in Nat
                /\ BlocksDue(field)[b] = SumOf(TxDue(field, b), DOMAIN TxsOf[b])
                /\ BlocksDue(field)[b] \in Nat
<1>1. IsFiniteSet(Blocks)
  BY U64MaxAssumption, FS_Interval DEF Blocks
<1>2. ASSUME NEW b \in Blocks
      PROVE  /\ IsFiniteSet(DOMAIN TxsOf[b])
             /\ \A i \in DOMAIN TxsOf[b] : TxDue(field, b)[i] \in Nat
             /\ BlocksDue(field)[b] = SumOf(TxDue(field, b), DOMAIN TxsOf[b])
             /\ BlocksDue(field)[b] \in Nat
  <2>1. TxsOf[b] \in Seq(Tx)
    BY GasQueryAssumption
  <2>2. DOMAIN TxsOf[b] = 1 .. Len(TxsOf[b]) /\ Len(TxsOf[b]) \in Nat
    BY <2>1
  <2>3. IsFiniteSet(DOMAIN TxsOf[b])
    BY <2>2, FS_Interval
  <2>4. \A i \in DOMAIN TxsOf[b] : TxsOf[b][i] \in Tx
    BY <2>1, <2>2
  <2>5. \A i \in DOMAIN TxsOf[b] : Due(TxsOf[b][i])[field] \in Nat
    BY <2>4, DueIs
  <2>6. \A i \in DOMAIN TxsOf[b] : TxDue(field, b)[i] \in Nat
    BY <2>5 DEF TxDue
  <2>7. SumOf(TxDue(field, b), DOMAIN TxsOf[b]) \in Nat
    BY <2>3, <2>6, SumOfPart
  <2> QED
    BY <2>3, <2>6, <2>7 DEF BlocksDue
<1> QED
  BY <1>1, <1>2

\* The sums of the property are these.
LEMMA BlockDueIs ==
    ASSUME NEW field \in Fields, NEW b \in Blocks
    PROVE  BlockDue(field, b) = BlocksDue(field)[b]
<1> DEFINE pick(s) == CHOOSE x \in s : TRUE
           S == DOMAIN TxsOf[b]
           v == TxDue(field, b)
           IsFold(g) == g = [s \in SUBSET S |-> IF s = {} THEN 0
                               ELSE Due(TxsOf[b][pick(s)])[field] + g[s \ {pick(s)}]]
<1>1. BlockDue(field, b) = (CHOOSE g : IsFold(g))[S]
  BY Zenon DEF BlockDue, MapThenSumSet, MapThenFoldSet
<1>2. ASSUME NEW g PROVE IsFold(g) <=> IsSumOf(g, v, S)
  <2>1. \A s \in SUBSET S : s # {} => v[pick(s)] = Due(TxsOf[b][pick(s)])[field]
    <3>1. \A s \in SUBSET S : s # {} => pick(s) \in S
      OBVIOUS
    <3> HIDE DEF pick
    <3> QED
      BY <3>1 DEF TxDue
  <2> HIDE DEF pick, v, S
  <2>2. [s \in SUBSET S |-> IF s = {} THEN 0 ELSE Due(TxsOf[b][pick(s)])[field] + g[s \ {pick(s)}]]
          = [s \in SUBSET S |-> IF s = {} THEN 0 ELSE v[pick(s)] + g[s \ {pick(s)}]]
    BY <2>1
  <2> QED
    BY <2>2 DEF IsSumOf, pick
<1> HIDE DEF IsFold, v, S
<1>3. (CHOOSE g : IsFold(g)) = (CHOOSE g : IsSumOf(g, v, S))
  BY <1>2
<1>4. BlockDue(field, b) = SumOf(v, S)
  BY <1>1, <1>3 DEF SumOf, SumIn
<1> QED
  BY <1>4, DuesAreNaturals DEF v, S

LEMMA ExactIs ==
    ASSUME NEW field \in Fields, NEW S \in SUBSET Blocks
    PROVE  Exact(field, S) = SumOf(BlocksDue(field), S) /\ SumOf(BlocksDue(field), S) \in Nat
<1> DEFINE pick(s) == CHOOSE x \in s : TRUE
           v == BlocksDue(field)
           IsFold(g) == g = [s \in SUBSET S |-> IF s = {} THEN 0
                               ELSE BlockDue(field, pick(s)) + g[s \ {pick(s)}]]
<1>1. Exact(field, S) = (CHOOSE g : IsFold(g))[S]
  BY Zenon DEF Exact, MapThenSumSet, MapThenFoldSet
<1>2. ASSUME NEW g PROVE IsFold(g) <=> IsSumOf(g, v, S)
  <2>1. \A s \in SUBSET S : s # {} => v[pick(s)] = BlockDue(field, pick(s))
    <3>1. \A s \in SUBSET S : s # {} => pick(s) \in Blocks
      OBVIOUS
    <3> HIDE DEF pick
    <3> QED
      BY <3>1, BlockDueIs
  <2> HIDE DEF pick, v
  <2>2. [s \in SUBSET S |-> IF s = {} THEN 0 ELSE BlockDue(field, pick(s)) + g[s \ {pick(s)}]]
          = [s \in SUBSET S |-> IF s = {} THEN 0 ELSE v[pick(s)] + g[s \ {pick(s)}]]
    BY <2>1
  <2> QED
    BY <2>2 DEF IsSumOf, pick
<1> HIDE DEF IsFold, v
<1>3. (CHOOSE g : IsFold(g)) = (CHOOSE g : IsSumOf(g, v, S))
  BY <1>2
<1>4. Exact(field, S) = SumOf(v, S)
  BY <1>1, <1>3 DEF SumOf, SumIn
<1>5. SumOf(v, S) \in Nat
  BY DuesAreNaturals, SumOfPart DEF v
<1> QED
  BY <1>4, <1>5 DEF v

\* The totals are the execution costs and the fees together.
LEMMA TotalIsBoth ==
    ASSUME NEW S \in SUBSET Blocks
    PROVE  SumOf(BlocksDue("total"), S)
             = SumOf(BlocksDue("execution"), S) + SumOf(BlocksDue("l1_fee"), S)
<1>1. "total" \in Fields /\ "execution" \in Fields /\ "l1_fee" \in Fields
  BY DEF Fields
<1>2. ASSUME NEW b \in Blocks
      PROVE  /\ BlocksDue("execution")[b] \in Nat /\ BlocksDue("l1_fee")[b] \in Nat
             /\ BlocksDue("total")[b] = BlocksDue("execution")[b] + BlocksDue("l1_fee")[b]
  <2> DEFINE I == DOMAIN TxsOf[b]
  <2>1. TxsOf[b] \in Seq(Tx)
    BY GasQueryAssumption
  <2>2. \A i \in I : TxsOf[b][i] \in Tx
    BY <2>1
  <2>3. \A i \in I : Due(TxsOf[b][i]).total = Due(TxsOf[b][i]).execution + Due(TxsOf[b][i]).l1_fee
    BY <2>2, DueIs
  <2>4. \A i \in I : TxDue("total", b)[i] = TxDue("execution", b)[i] + TxDue("l1_fee", b)[i]
    BY <2>3 DEF TxDue
  <2>5. /\ IsFiniteSet(I)
        /\ \A i \in I : TxDue("execution", b)[i] \in Nat /\ TxDue("l1_fee", b)[i] \in Nat
    BY <1>1, DuesAreNaturals
  <2>6. SumOf(TxDue("total", b), I) = SumOf(TxDue("execution", b), I) + SumOf(TxDue("l1_fee", b), I)
    BY <2>4, <2>5, SumOfTwo
  <2>7. /\ BlocksDue("execution")[b] \in Nat /\ BlocksDue("l1_fee")[b] \in Nat
        /\ BlocksDue("total")[b] = SumOf(TxDue("total", b), I)
        /\ BlocksDue("execution")[b] = SumOf(TxDue("execution", b), I)
        /\ BlocksDue("l1_fee")[b] = SumOf(TxDue("l1_fee", b), I)
    BY <1>1, DuesAreNaturals
  <2> QED
    BY <2>6, <2>7
<1>3. IsFiniteSet(S)
  BY <1>1, DuesAreNaturals, FS_Subset
<1> QED
  BY <1>2, <1>3, SumOfTwo

-----------------------------------------------------------------------------
(* Bills of blocks *)

LEMMA SumsAreNaturals ==
    ASSUME NEW S \in SUBSET Blocks
    PROVE  \A field \in Fields : SumOf(BlocksDue(field), S) \in Nat
  BY ExactIs

\* Without blocks there is nothing to pay.
LEMMA BillOfNothing == BillFor({}) = NoBill
<1>1. \A field \in Fields : SumOf(BlocksDue(field), {}) = 0
  BY SumOfNothing
<1>2. Cut(0) = 0
  BY GasQueryAssumption DEF Cut
<1> QED
  BY <1>1, <1>2 DEF BillFor, Bill, NoBill, Fields

\* The results of blocks apart merge into that of all of them.
LEMMA BillsOfBoth ==
    ASSUME NEW A \in SUBSET Blocks, NEW B \in SUBSET Blocks, A \cap B = {}
    PROVE  MergeBill(BillFor(A), BillFor(B)) = BillFor(A \cup B)
<1>1. \A field \in Fields :
        /\ SumOf(BlocksDue(field), A) \in Nat /\ SumOf(BlocksDue(field), B) \in Nat
        /\ SumOf(BlocksDue(field), A \cup B)
             = SumOf(BlocksDue(field), A) + SumOf(BlocksDue(field), B)
  BY DuesAreNaturals, SumsAreNaturals, SumOfUnion
<1>2. \A field \in Fields : SatAdd(Cut(SumOf(BlocksDue(field), A)), Cut(SumOf(BlocksDue(field), B)))
                              = Cut(SumOf(BlocksDue(field), A \cup B))
  BY <1>1, SatAddIs
<1>3. SatAdd(0, 0) = 0
  BY GasQueryAssumption, MinOfTwo DEF SatAdd
<1> QED
  BY <1>1, <1>2, <1>3 DEF MergeBill, BillFor, Bill, Fields

\* The transactions of one more block, one after the other.
LEMMA BillOfOneMore ==
    ASSUME NEW S \in SUBSET Blocks, NEW b \in Blocks, b \notin S
    PROVE  AddTransactions(BillFor(S), TxsOf[b]) = BillFor(S \cup {b})
<1> DEFINE txs == TxsOf[b]
           len == Len(txs)
           paid(field, n) == SumOf(BlocksDue(field), S) + SumOf(TxDue(field, b), 1 .. n)
           f == [n \in 0 .. len |-> Bill(paid("total", n), paid("count", n),
                                         paid("execution", n), paid("l1_fee", n))]
           rhs(g, n) == IF n = 0 THEN BillFor(S) ELSE AddTransaction(g[n - 1], txs[n])
           IsLoop(g) == g = [n \in 0 .. len |-> rhs(g, n)]
           after == CHOOSE g : IsLoop(g)
           Bad == {n \in 0 .. len : after[n] # f[n]}
<1>1. /\ txs \in Seq(Tx) /\ len \in Nat /\ DOMAIN txs = 1 .. len
      /\ \A n \in 1 .. len : txs[n] \in Tx
  <2>1. txs \in Seq(Tx)
    BY GasQueryAssumption
  <2> HIDE DEF txs
  <2> QED
    BY <2>1
<1>2. ASSUME NEW field \in Fields
      PROVE  /\ SumOf(BlocksDue(field), S) \in Nat /\ paid(field, 0) = SumOf(BlocksDue(field), S)
             /\ \A n \in 0 .. len : paid(field, n) \in Nat
             /\ \A n \in 1 .. len : paid(field, n) = paid(field, n - 1) + Due(txs[n])[field]
             /\ paid(field, len) = SumOf(BlocksDue(field), S \cup {b})
  <2> DEFINE before == SumOf(BlocksDue(field), S)
             dues == TxDue(field, b)
  <2>1. before \in Nat
    BY SumsAreNaturals
  <2>2. /\ IsFiniteSet(1 .. len) /\ \A i \in 1 .. len : dues[i] \in Nat
    BY <1>1, DuesAreNaturals
  <2>3. \A n \in 1 .. len : dues[n] = Due(txs[n])[field]
    BY <1>1 DEF TxDue
  <2>4. BlocksDue(field)[b] = SumOf(dues, 1 .. len)
    BY <1>1, DuesAreNaturals
  <2>5. SumOf(BlocksDue(field), S \cup {b}) = BlocksDue(field)[b] + before
    <3>1. b \in S \cup {b} /\ (S \cup {b}) \ {b} = S /\ S \cup {b} \in SUBSET Blocks
      OBVIOUS
    <3> QED
      BY <3>1, DuesAreNaturals, SumAdds
  <2> HIDE DEF before, dues, len, txs
  <2>6. SumOf(dues, {}) = 0 /\ 1 .. 0 = {}
    BY SumOfNothing
  <2>7. \A n \in 0 .. len : SumOf(dues, 1 .. n) \in Nat
    <3>1. \A n \in 0 .. len : 1 .. n \in SUBSET (1 .. len)
      BY <1>1
    <3> QED
      BY <2>2, <3>1, SumOfPart
  <2>8. ASSUME NEW n \in 1 .. len
        PROVE  SumOf(dues, 1 .. n) = dues[n] + SumOf(dues, 1 .. n - 1)
    BY <1>1, <2>2, SumOfInterval
  <2>9. \A n \in 1 .. len : n - 1 \in 0 .. len /\ dues[n] \in Nat
    BY <1>1, <2>2
  <2>10. paid(field, 0) = before
    BY <2>1, <2>6 DEF before, dues
  <2>11. \A n \in 0 .. len : paid(field, n) = before + SumOf(dues, 1 .. n)
    BY DEF before, dues
  <2> HIDE DEF paid
  <2>12. \A n \in 0 .. len : paid(field, n) \in Nat
    BY <2>1, <2>7, <2>11
  <2>13. ASSUME NEW n \in 1 .. len
         PROVE  paid(field, n) = paid(field, n - 1) + Due(txs[n])[field]
    <3>1. n \in 0 .. len /\ n - 1 \in 0 .. len
      BY <1>1
    <3>2. /\ paid(field, n) = before + SumOf(dues, 1 .. n) /\ SumOf(dues, 1 .. n - 1) \in Nat
          /\ paid(field, n - 1) = before + SumOf(dues, 1 .. n - 1)
      BY <2>7, <2>11, <3>1
    <3> QED
      BY <2>1, <2>3, <2>8, <2>9, <3>2
  <2>14. paid(field, len) = SumOf(BlocksDue(field), S \cup {b})
    <3>1. len \in 0 .. len
      BY <1>1
    <3> QED
      BY <2>1, <2>4, <2>5, <2>7, <2>11, <3>1
  <2> QED
    BY <2>1, <2>10, <2>12, <2>13, <2>14 DEF before
<1> HIDE DEF len, txs, paid
<1>3. ASSUME NEW n \in 0 .. len PROVE f[n] = rhs(f, n)
  <2>1. CASE n = 0
    <3>1. f[n] = Bill(paid("total", 0), paid("count", 0), paid("execution", 0), paid("l1_fee", 0))
      BY <1>1, <2>1
    <3> HIDE DEF f
    <3> QED
      BY <1>2, <2>1, <3>1 DEF BillFor, Fields
  <2>2. CASE n # 0
    <3>1. n \in 1 .. len /\ n - 1 \in 0 .. len
      BY <1>1, <2>2
    <3>2. /\ f[n] = Bill(paid("total", n), paid("count", n), paid("execution", n),
                         paid("l1_fee", n))
          /\ f[n - 1] = Bill(paid("total", n - 1), paid("count", n - 1),
                             paid("execution", n - 1), paid("l1_fee", n - 1))
      BY <3>1
    <3> HIDE DEF f
    <3>3. \A field \in Fields : /\ paid(field, n - 1) \in Nat
                                /\ paid(field, n) = paid(field, n - 1) + Due(txs[n])[field]
      BY <1>2, <3>1
    <3>4. AddTransaction(f[n - 1], txs[n]) = f[n]
      <4>1. txs[n] \in Tx
        BY <1>1, <3>1
      <4>2. /\ paid("total", n - 1) \in Nat /\ paid("count", n - 1) \in Nat
            /\ paid("execution", n - 1) \in Nat /\ paid("l1_fee", n - 1) \in Nat
            /\ paid("total", n) = paid("total", n - 1) + Due(txs[n]).total
            /\ paid("count", n) = paid("count", n - 1) + Due(txs[n]).count
            /\ paid("execution", n) = paid("execution", n - 1) + Due(txs[n]).execution
            /\ paid("l1_fee", n) = paid("l1_fee", n - 1) + Due(txs[n]).l1_fee
        BY <3>3 DEF Fields
      <4> QED
        BY <3>2, <4>1, <4>2, BillAdds
    <3> QED
      BY <2>2, <3>4
  <2> QED
    BY <2>1, <2>2
<1>4. f = [n \in 0 .. len |-> f[n]]
  OBVIOUS
<1>5. f[len] = BillFor(S \cup {b})
  <2>1. len \in 0 .. len
    BY <1>1
  <2>2. f[len] = Bill(paid("total", len), paid("count", len), paid("execution", len),
                      paid("l1_fee", len))
    BY <2>1
  <2> HIDE DEF f
  <2> QED
    BY <1>2, <2>2 DEF BillFor, Fields
<1> HIDE DEF f
<1>6. IsLoop(f)
  <2> HIDE DEF rhs
  <2> QED
    BY <1>3, <1>4
<1> HIDE DEF IsLoop
<1>7. IsLoop(after)
  BY <1>6
<1> HIDE DEF after
<1>8. \A n \in 0 .. len : after[n] = rhs(after, n)
  BY <1>7 DEF IsLoop
<1>9. Bad = {}
  <2> SUFFICES ASSUME Bad # {} PROVE FALSE
    OBVIOUS
  <2>1. Bad \in SUBSET Nat
    BY <1>1
  <2> HIDE DEF Bad
  <2>2. PICK m \in Bad : \A k \in Bad : m <= k
    BY <2>1, SetMin
  <2>3. m \in 0 .. len /\ after[m] # f[m]
    BY <2>2 DEF Bad
  <2>4. m # 0 /\ after[m - 1] # f[m - 1]
    BY <1>3, <1>8, <2>3
  <2>5. m - 1 \in 0 .. len /\ ~(m <= m - 1)
    BY <1>1, <2>3, <2>4
  <2> QED
    BY <2>2, <2>4, <2>5 DEF Bad
<1>10. AddTransactions(BillFor(S), TxsOf[b]) = after[len]
  BY Zenon DEF AddTransactions, after, IsLoop, len, txs
<1>11. after[len] = f[len]
  <2>1. len \in 0 .. len
    BY <1>1
  <2> QED
    BY <1>9, <2>1
<1> QED
  BY <1>5, <1>10, <1>11

\* The loop over the logs of a range charges each block it found logs in.
LEMMA BillOfIs ==
    ASSUME NEW found \in SUBSET Contributions
    PROVE  BillOf(found) = BillFor({c[2] : c \in found})
<1> DEFINE S == {c[2] : c \in found}
           upto(b) == {k \in S : k < b}
           f == [b \in 0 .. U64Max + 1 |-> BillFor(upto(b))]
           rhs(g, b) == IF b = 0 THEN NoBill
                        ELSE IF b - 1 \in S THEN AddTransactions(g[b - 1], TxsOf[b - 1])
                        ELSE g[b - 1]
           IsLoop(g) == g = [b \in 0 .. U64Max + 1 |-> rhs(g, b)]
           before == CHOOSE g : IsLoop(g)
           Bad == {b \in 0 .. U64Max + 1 : before[b] # f[b]}
<1>1. /\ U64Max \in Nat /\ S \in SUBSET Blocks
      /\ \A k \in S : k \in Nat /\ k <= U64Max
  <2>1. S \in SUBSET Blocks
    BY DEF Contributions
  <2> QED
    BY <2>1, U64MaxAssumption DEF Blocks
<1>2. BillOf(found) = before[U64Max + 1]
  BY Zenon DEF BillOf, before, IsLoop
<1> HIDE DEF S
<1>3. ASSUME NEW b \in 0 .. U64Max + 1 PROVE f[b] = rhs(f, b)
  <2>1. CASE b = 0
    <3>1. upto(0) = {}
      BY <1>1
    <3>2. f[b] = BillFor({})
      BY <1>1, <2>1, <3>1
    <3> HIDE DEF f
    <3> QED
      BY <2>1, <3>2, BillOfNothing
  <2>2. CASE b # 0
    <3>1. b - 1 \in Blocks /\ b - 1 \in 0 .. U64Max + 1
      BY <1>1, <2>2 DEF Blocks
    <3>2. \A k \in S : k < b <=> k < b - 1 \/ k = b - 1
      BY <1>1
    <3>3. f[b] = BillFor(upto(b)) /\ f[b - 1] = BillFor(upto(b - 1))
      <4> HIDE DEF upto
      <4> QED
        BY <3>1
    <3>4. upto(b - 1) \in SUBSET Blocks /\ b - 1 \notin upto(b - 1)
      BY <1>1, <3>1
    <3>5. CASE b - 1 \in S
      <4>1. upto(b) = upto(b - 1) \cup {b - 1}
        BY <3>2, <3>5
      <4> HIDE DEF upto, f
      <4> QED
        BY <2>2, <3>1, <3>3, <3>4, <3>5, <4>1, BillOfOneMore
    <3>6. CASE b - 1 \notin S
      <4>1. upto(b) = upto(b - 1)
        BY <3>2, <3>6
      <4> HIDE DEF upto, f
      <4> QED
        BY <2>2, <3>3, <3>6, <4>1
    <3> QED
      BY <3>5, <3>6
  <2> QED
    BY <2>1, <2>2
<1>4. f = [b \in 0 .. U64Max + 1 |-> f[b]]
  OBVIOUS
<1>5. f[U64Max + 1] = BillFor(S)
  <2>1. upto(U64Max + 1) = S /\ U64Max + 1 \in 0 .. U64Max + 1
    BY <1>1
  <2> HIDE DEF upto
  <2> QED
    BY <2>1
<1> HIDE DEF f
<1>6. IsLoop(f)
  <2> HIDE DEF rhs
  <2> QED
    BY <1>3, <1>4
<1> HIDE DEF IsLoop
<1>7. IsLoop(before)
  BY <1>6
<1> HIDE DEF before
<1>8. \A b \in 0 .. U64Max + 1 : before[b] = rhs(before, b)
  BY <1>7 DEF IsLoop
<1>9. Bad = {}
  <2> SUFFICES ASSUME Bad # {} PROVE FALSE
    OBVIOUS
  <2>1. Bad \in SUBSET Nat
    BY <1>1
  <2> HIDE DEF Bad
  <2>2. PICK m \in Bad : \A k \in Bad : m <= k
    BY <2>1, SetMin
  <2>3. m \in 0 .. U64Max + 1 /\ before[m] # f[m]
    BY <2>2 DEF Bad
  <2>4. m # 0 /\ before[m - 1] # f[m - 1]
    BY <1>3, <1>8, <2>3
  <2>5. m - 1 \in 0 .. U64Max + 1 /\ ~(m <= m - 1)
    BY <1>1, <2>3, <2>4
  <2> QED
    BY <2>2, <2>4, <2>5 DEF Bad
<1>10. U64Max + 1 \in 0 .. U64Max + 1
  BY <1>1
<1> QED
  BY <1>2, <1>5, <1>9, <1>10 DEF S

-----------------------------------------------------------------------------
(* The invariant of the bills *)

EntriesBilled == \A e \in cache : entryBill[e] = BillFor(BlocksIn(e.value))

\* Every result is that of the blocks RangeQuery says it stands for
Billed ==
    /\ EntriesBilled
    /\ accBill = [t \in Tasks |-> BillFor(BlocksIn(acc[t]))]

LEMMA BlocksInType ==
    ASSUME NEW result \in Aggregate
    PROVE  BlocksIn(result) \in SUBSET Blocks
<1>1. result.seen \in SUBSET (Jobs \X Blocks)
  BY DEF Aggregate, Contributions
<1> QED
  BY <1>1 DEF BlocksIn

\* Entries apart merge into the result of all their blocks, in whatever order.
LEMMA BillOfEntriesIs ==
    ASSUME EntriesBilled, NEW W \in SUBSET cache, IsFiniteSet(W), W \in SUBSET Entry,
           \A e, f \in W : e # f => BlocksIn(e.value) \cap BlocksIn(f.value) = {}
    PROVE  BillOfEntries(W) = BillFor(BlocksIn(MergeEntries(W)))
<1> DEFINE pick(s) == CHOOSE x \in s : TRUE
           S(s) == UNION {BlocksIn(e.value) : e \in s}
           f == [s \in SUBSET W |-> BillFor(S(s))]
           rhs(g, s) == IF s = {} THEN NoBill
                        ELSE MergeBill(g[s \ {pick(s)}], entryBill[pick(s)])
           IsFold(g) == g = [s \in SUBSET W |-> rhs(g, s)]
           h == CHOOSE g : IsFold(g)
           Bad == {n \in Nat : \E s \in SUBSET W : Cardinality(s) = n /\ h[s] # f[s]}
<1>1. BillOfEntries(W) = h[W]
  BY Zenon DEF BillOfEntries, FoldSet, MapThenFoldSet
<1>2. \A e \in W : BlocksIn(e.value) \in SUBSET Blocks /\ entryBill[e] = BillFor(BlocksIn(e.value))
  BY BlocksInType DEF Entry, EntriesBilled
<1>3. S(W) = BlocksIn(MergeEntries(W))
  BY DEF BlocksIn, MergeEntries
<1>4. ASSUME NEW s \in SUBSET W, s # {}
      PROVE  /\ pick(s) \in s /\ s \ {pick(s)} \in SUBSET W
             /\ Cardinality(s \ {pick(s)}) \in Nat /\ Cardinality(s \ {pick(s)}) < Cardinality(s)
  <2>1. pick(s) \in s
    BY <1>4
  <2> HIDE DEF pick
  <2>2. IsFiniteSet(s) /\ IsFiniteSet(s \ {pick(s)})
    BY FS_Subset
  <2>3. Cardinality(s) \in Nat /\ Cardinality(s \ {pick(s)}) = Cardinality(s) - 1
    BY <2>1, <2>2, FS_CardinalityType, FS_RemoveElement
  <2>4. Cardinality(s \ {pick(s)}) \in Nat
    BY <2>2, FS_CardinalityType
  <2> QED
    BY <2>1, <2>3, <2>4
<1> HIDE DEF pick
<1>5. ASSUME NEW s \in SUBSET W PROVE f[s] = rhs(f, s)
  <2>1. CASE s = {}
    <3>1. S(s) = {}
      BY <2>1
    <3>2. f[s] = BillFor({})
      BY <3>1
    <3> HIDE DEF f
    <3> QED
      BY <2>1, <3>2, BillOfNothing
  <2>2. CASE s # {}
    <3> DEFINE e == pick(s)
               rest == s \ {e}
    <3>1. e \in s /\ e \in W /\ rest \in SUBSET W
      BY <1>4, <2>2
    <3> HIDE DEF e
    <3>2. S(s) = S(rest) \cup BlocksIn(e.value) /\ S(rest) \cap BlocksIn(e.value) = {}
      BY <3>1
    <3>3. S(rest) \in SUBSET Blocks /\ BlocksIn(e.value) \in SUBSET Blocks
      BY <1>2, <3>1
    <3>4. f[s] = BillFor(S(s)) /\ f[rest] = BillFor(S(rest))
      <4> HIDE DEF S, rest
      <4> QED
        BY <3>1
    <3> HIDE DEF S, f, rest
    <3>5. f[s] = MergeBill(f[rest], entryBill[e])
      BY <1>2, <3>1, <3>2, <3>3, <3>4, BillsOfBoth
    <3> QED
      BY <2>2, <3>5 DEF e, rest
  <2> QED
    BY <2>1, <2>2
<1>6. f = [s \in SUBSET W |-> f[s]] /\ f[W] = BillFor(S(W))
  <2> HIDE DEF S
  <2> QED
    OBVIOUS
<1> HIDE DEF f, S
<1>7. IsFold(f)
  <2> HIDE DEF rhs
  <2> QED
    BY <1>5, <1>6
<1> HIDE DEF IsFold
<1>8. IsFold(h)
  BY <1>7
<1> HIDE DEF h
<1>9. \A s \in SUBSET W : h[s] = rhs(h, s)
  BY <1>8 DEF IsFold
<1>10. h[W] = f[W]
  <2> SUFFICES ASSUME h[W] # f[W] PROVE FALSE
    OBVIOUS
  <2>1. Bad \in SUBSET Nat /\ Bad # {}
    BY FS_CardinalityType
  <2> HIDE DEF Bad
  <2>2. PICK m \in Bad : \A k \in Bad : m <= k
    BY <2>1, SetMin
  <2>3. PICK s \in SUBSET W : Cardinality(s) = m /\ h[s] # f[s]
    BY <2>2 DEF Bad
  <2>4. s # {} /\ h[s \ {pick(s)}] # f[s \ {pick(s)}]
    BY <1>5, <1>9, <2>3
  <2>5. /\ s \ {pick(s)} \in SUBSET W /\ Cardinality(s \ {pick(s)}) \in Nat
        /\ Cardinality(s \ {pick(s)}) < m
    BY <1>4, <2>3, <2>4
  <2>6. Cardinality(s \ {pick(s)}) \in Bad
    BY <2>4, <2>5 DEF Bad
  <2> QED
    BY <2>1, <2>2, <2>5, <2>6
<1> QED
  BY <1>1, <1>3, <1>6, <1>10

\* A result that stands for blocks charges what they come to.
LEMMA BillCharges ==
    ASSUME NEW S \in SUBSET Blocks
    PROVE  Charges(BillFor(S), S)
<1> DEFINE bill == BillFor(S)
           sum(field) == SumOf(BlocksDue(field), S)
<1>1. \A field \in Fields : Exact(field, S) = sum(field) /\ sum(field) \in Nat
  BY ExactIs
<1>2. \A field \in Fields : Min({WeiMax, sum(field)}) = Cut(sum(field))
  BY <1>1, GasQueryAssumption, MinOfTwo DEF Cut
<1>3. /\ bill.count = sum("count") /\ bill.blob = 0
      /\ bill.total = Cut(sum("total")) /\ bill.execution = Cut(sum("execution"))
      /\ bill.l1_fee = Cut(sum("l1_fee"))
  BY DEF BillFor, Bill
<1>4. sum("total") = sum("execution") + sum("l1_fee")
  BY TotalIsBoth
<1> HIDE DEF bill, sum
<1>5. TotalCost(bill) = Cut(sum("total"))
  <2>1. sum("execution") \in Nat /\ sum("l1_fee") \in Nat
    BY <1>1 DEF Fields
  <2>2. SatAdd(Cut(sum("execution")), 0) = Cut(sum("execution"))
    BY <2>1, SatAddIs
  <2>3. SatAdd(Cut(sum("execution")), Cut(sum("l1_fee"))) = Cut(sum("execution") + sum("l1_fee"))
    BY <2>1, SatAddIs
  <2> QED
    BY <1>3, <1>4, <2>2, <2>3 DEF TotalCost
<1>6. \A field \in {"total", "execution", "l1_fee"} :
        bill[field] = Min({WeiMax, Exact(field, S)})
  BY <1>1, <1>2, <1>3 DEF Fields
<1>7. bill.count = Exact("count", S)
  BY <1>1, <1>3 DEF Fields
<1> QED
  BY <1>3, <1>5, <1>6, <1>7 DEF Charges, bill

-----------------------------------------------------------------------------
(* The steps of the bills *)

\* One call's result changes, and its bill with it.
LEMMA OneBillChanges ==
    ASSUME Billed, acc \in [Tasks -> Aggregate], NEW t \in Tasks, NEW result,
           acc' = [acc EXCEPT ![t] = result],
           accBill' = [accBill EXCEPT ![t] = BillFor(BlocksIn(result))]
    PROVE  accBill' = [u \in Tasks |-> BillFor(BlocksIn(acc[u]))]'
<1>1. \A u \in Tasks : accBill[u] = BillFor(BlocksIn(acc[u]))
  BY DEF Billed
<1>2. \A u \in Tasks : acc'[u] = IF u = t THEN result ELSE acc[u]
  OBVIOUS
<1>3. accBill' = [u \in Tasks |-> IF u = t THEN BillFor(BlocksIn(result)) ELSE accBill[u]]
  BY DEF Billed
<1> QED
  BY <1>1, <1>2, <1>3

\* An entry is stored with the bill of its blocks.
LEMMA StoredIsBilled ==
    ASSUME EntriesBilled, NEW e, cache' \subseteq cache \cup {e},
           Stored(e, BillFor(BlocksIn(e.value)))
    PROVE  EntriesBilled'
<1>1. \A f \in cache' : entryBill'[f] = IF f = e THEN BillFor(BlocksIn(e.value)) ELSE entryBill[f]
  BY DEF Stored
<1>2. \A f \in cache' : entryBill'[f] = BillFor(BlocksIn(f.value))
  BY <1>1 DEF EntriesBilled
<1> QED
  BY <1>2 DEF EntriesBilled

LEMMA BlocksOfMerge ==
    ASSUME NEW a, NEW b
    PROVE  BlocksIn(Merge(a, b)) = BlocksIn(a) \cup BlocksIn(b)
<1>1. Merge(a, b).seen = a.seen \cup b.seen
  BY DEF Merge
<1> QED
  BY <1>1 DEF BlocksIn

LEMMA BilledInit == GasInit => Billed
<1> SUFFICES ASSUME GasInit PROVE Billed
  OBVIOUS
<1>1. BlocksIn(EmptyAggregate) = {}
  BY DEF BlocksIn, EmptyAggregate
<1> QED
  BY <1>1, BillOfNothing DEF GasInit, Init, Billed, EntriesBilled

LEMMA AskIsBilled ==
    ASSUME ProperQueries, TypeOK, RangesDisjoint, Counted, Billed, NEW t \in Tasks, AskGas(t)
    PROVE  Billed'
<1>1. PICK job \in Jobs, r \in Ranges : \/ LookupMiss(t, job, r[1], r[2])
                                        \/ LookupHit(t, job, r[1], r[2])
                                        \/ LookupPartial(t, job, r[1], r[2])
  BY DEF AskGas, Lookup
<1> DEFINE W == WithinQuery(cache, KeyOf[job], r[1], r[2])
<1>2. Ask(t, job, r[1], r[2]) /\ cache' = cache
  BY <1>1 DEF LookupMiss, LookupHit, LookupPartial, Ask
<1>3. /\ CallCounted(t) /\ EntriesCounted
      /\ query'[t] = [job |-> job, lo |-> r[1], hi |-> r[2], settled |-> r[2] <= head]
      /\ r[1] \in Blocks /\ r[2] \in Blocks /\ acc[t].seen = {}
  BY <1>2, AskStarts DEF Counted
<1>4. accBill' = [accBill EXCEPT ![t] = BillOfEntries(W)] /\ entryBill' = entryBill
  BY <1>3 DEF AskGas
<1>5. KeyOf[job] \in Keys
  BY RangeQueryAssumption
<1>6. W \in SUBSET Entry /\ IsFiniteSet(W)
  BY <1>3, <1>5, MergedEntries
<1>7. \A e \in W : e \in cache /\ e.key = KeyOf[job]
                    /\ BlocksIn(e.value) \subseteq e.lo .. e.hi
  BY <1>3 DEF WithinQuery, EntriesCounted, CellsOf, BlocksIn
<1>8. \A e, f \in W : e # f => BlocksIn(e.value) \cap BlocksIn(f.value) = {}
  <2>1. ASSUME NEW e \in W, NEW f \in W, e # f
        PROVE  (e.lo .. e.hi) \cap (f.lo .. f.hi) = {}
    BY <1>7, <2>1 DEF RangesDisjoint, Disjoint
  <2> HIDE DEF W
  <2> QED
    BY <1>7, <2>1
<1> HIDE DEF W
<1>9. BillOfEntries(W) = BillFor(BlocksIn(MergeEntries(W)))
  BY <1>6, <1>7, <1>8, BillOfEntriesIs DEF Billed
<1>10. EntriesBilled'
  BY <1>2, <1>4 DEF Billed, EntriesBilled
<1>11. acc \in [Tasks -> Aggregate]
  BY DEF TypeOK
<1>12. CASE LookupMiss(t, job, r[1], r[2])
  <2>1. W = {} /\ acc' = acc
    BY <1>12 DEF LookupMiss, W
  <2>2. BlocksIn(MergeEntries(W)) = BlocksIn(acc[t])
    BY <1>3, <2>1 DEF BlocksIn, MergeEntries
  <2>3. acc' = [acc EXCEPT ![t] = acc[t]]
    BY <1>11, <2>1
  <2> QED
    BY <1>4, <1>9, <1>10, <1>11, <2>2, <2>3, OneBillChanges DEF Billed
<1>13. CASE LookupHit(t, job, r[1], r[2]) \/ LookupPartial(t, job, r[1], r[2])
  <2>1. acc' = [acc EXCEPT ![t] = MergeEntries(W)]
    BY <1>13 DEF LookupHit, LookupPartial, W
  <2> QED
    BY <1>4, <1>9, <1>10, <1>11, <2>1, OneBillChanges DEF Billed
<1> QED
  BY <1>1, <1>12, <1>13

LEMMA FinishIsBilled ==
    ASSUME TypeOK, Counted, Billed, NEW t \in Tasks, FinishGasGap(t)
    PROVE  Billed'
<1>1. CallCounted(t) /\ pc[t] = "busy" /\ todo[t] \in SUBSET Gap
  BY DEF Counted, FinishGasGap, FinishGap, TypeOK
<1>2. PICK g \in todo[t] : /\ IsNext(todo[t], g) /\ cursor[t] > g.hi
                           /\ cache' = Insert(cache, KeyOfTask(t), g.lo, g.hi, part[t])
                           /\ NextGap(t, g, part[t])
  BY DEF FinishGasGap, FinishGap
<1> DEFINE e == [key |-> KeyOfTask(t), lo |-> g.lo, hi |-> g.hi, value |-> part[t]]
<1>3. \A h \in todo[t] : IsNext(todo[t], h) => h = g
  BY <1>1, <1>2, NextIsUnique DEF CallCounted, GapsRemain
<1>4. Stored(e, BillOf(part[t].seen))
  BY <1>3 DEF FinishGasGap
<1>5. part[t] \in Aggregate /\ acc[t] \in Aggregate /\ acc \in [Tasks -> Aggregate]
  BY DEF TypeOK
<1>6. BillOf(part[t].seen) = BillFor(BlocksIn(part[t]))
  <2>1. part[t].seen \in SUBSET Contributions
    BY <1>5 DEF Aggregate
  <2> QED
    BY <2>1, BillOfIs DEF BlocksIn
<1>7. EntriesBilled'
  <2>1. cache' \subseteq cache \cup {e}
    BY <1>2, InsertAdds
  <2>2. e.value = part[t]
    OBVIOUS
  <2> HIDE DEF e
  <2> QED
    BY <1>4, <1>6, <2>1, <2>2, StoredIsBilled DEF Billed
<1>8. BlocksIn(acc[t]) \cap BlocksIn(part[t]) = {}
  <2>1. /\ part[t].seen \subseteq {query[t].job} \X (g.lo .. g.hi)
        /\ g.lo \in Int /\ g.hi \in Int
    BY <1>1, <1>2, GapScanned DEF Blocks
  <2>2. \A c \in acc[t].seen : c[2] < g.lo \/ c[2] > g.hi
    BY <1>1, <1>2 DEF CallCounted, GapsRemain
  <2>3. \A c \in acc[t].seen : c[2] \in Int
    BY <1>5 DEF Aggregate, Contributions, Blocks
  <2>4. \A b \in BlocksIn(part[t]) : b \in g.lo .. g.hi
    BY <2>1 DEF BlocksIn
  <2>5. \A b \in BlocksIn(acc[t]) : b \in Int /\ (b < g.lo \/ b > g.hi)
    BY <2>2, <2>3 DEF BlocksIn
  <2> QED
    BY <2>1, <2>4, <2>5
<1>9. MergeBill(accBill[t], BillOf(part[t].seen)) = BillFor(BlocksIn(Merge(acc[t], part[t])))
  <2>1. accBill[t] = BillFor(BlocksIn(acc[t]))
    BY DEF Billed
  <2>2. BlocksIn(acc[t]) \in SUBSET Blocks /\ BlocksIn(part[t]) \in SUBSET Blocks
    BY <1>5, BlocksInType
  <2> QED
    BY <1>6, <1>8, <2>1, <2>2, BillsOfBoth, BlocksOfMerge
<1>10. accBill' = [accBill EXCEPT ![t] = BillFor(BlocksIn(Merge(acc[t], part[t])))]
  BY <1>9 DEF FinishGasGap
<1>11. acc' = [acc EXCEPT ![t] = Merge(acc[t], part[t])]
  BY <1>2 DEF NextGap
<1> QED
  BY <1>5, <1>7, <1>10, <1>11, OneBillChanges DEF Billed

LEMMA BilledStep ==
    ASSUME ProperQueries, TypeOK, RangesDisjoint, Counted, Billed, [GasNext]_gasVars
    PROVE  Billed'
<1>1. acc \in [Tasks -> Aggregate] /\ EntriesBilled
  BY DEF TypeOK, Billed
<1>2. ASSUME UNCHANGED <<acc, accBill>>, EntriesBilled' PROVE Billed'
  BY <1>2 DEF Billed
<1>3. ASSUME UNCHANGED <<cache, entryBill>> PROVE EntriesBilled'
  BY <1>1, <1>3 DEF EntriesBilled
<1>4. ASSUME NEW t \in Tasks, Forget(t), accBill' = [accBill EXCEPT ![t] = NoBill],
             UNCHANGED entryBill
      PROVE  Billed'
  <2>1. acc' = [acc EXCEPT ![t] = EmptyAggregate] /\ cache' = cache
    BY <1>4 DEF Forget
  <2>2. BlocksIn(EmptyAggregate) = {}
    BY DEF BlocksIn, EmptyAggregate
  <2>3. accBill' = [accBill EXCEPT ![t] = BillFor(BlocksIn(EmptyAggregate))]
    BY <1>4, <2>2, BillOfNothing
  <2> QED
    BY <1>1, <1>3, <1>4, <2>1, <2>3, OneBillChanges DEF Billed
<1>5. ASSUME NEW t \in Tasks, ScanGas(t) PROVE Billed'
  BY <1>2, <1>3, <1>5 DEF ScanGas, ScanChunk
<1>6. ASSUME NEW t \in Tasks, FailGas(t) PROVE Billed'
  BY <1>4, <1>6 DEF FailGas, ScanFails
<1>7. ASSUME NEW t \in Tasks, ReturnGas(t) PROVE Billed'
  BY <1>4, <1>7 DEF ReturnGas, Return
<1>8. ASSUME NEW t \in Tasks, WriteBackGas(t) PROVE Billed'
  <2> DEFINE e == [key |-> KeyOfTask(t), lo |-> query[t].lo, hi |-> query[t].hi,
                   value |-> acc[t]]
  <2>1. cache' \subseteq cache \cup {e}
    BY <1>8, InsertAdds DEF WriteBackGas, WriteBack
  <2>2. Stored(e, accBill[t]) /\ UNCHANGED <<acc, accBill>>
    BY <1>8 DEF WriteBackGas, WriteBack
  <2>3. accBill[t] = BillFor(BlocksIn(e.value))
    BY DEF Billed
  <2> HIDE DEF e
  <2>4. EntriesBilled'
    BY <1>1, <2>1, <2>2, <2>3, StoredIsBilled
  <2> QED
    BY <1>2, <2>2, <2>4
<1>9. CASE Clear /\ Kept /\ UNCHANGED accBill
  <2>1. cache' \subseteq cache /\ acc' = acc
    BY <1>9 DEF Clear, ClearSignerData, ClearOldBlocks, WithoutKey, WithoutBlocksBelow
  <2>2. \A f \in cache' : entryBill'[f] = entryBill[f]
    BY <1>9 DEF Kept
  <2>3. EntriesBilled'
    BY <1>1, <2>1, <2>2 DEF EntriesBilled
  <2> QED
    BY <1>2, <1>9, <2>1, <2>3
<1>10. CASE NewBlock /\ UNCHANGED <<accBill, entryBill>>
  BY <1>2, <1>3, <1>10 DEF NewBlock
<1>11. CASE UNCHANGED gasVars
  BY <1>2, <1>3, <1>11 DEF gasVars, vars
<1> QED
  BY <1>5, <1>6, <1>7, <1>8, <1>9, <1>10, <1>11, AskIsBilled, FinishIsBilled
     DEF GasNext, GasStep

\* The gas calculator with its results next to it takes the steps of RangeQuery
\* and no other: what the theorems above say of the blocks an answer stands for
\* holds of its calls.
THEOREM GasIsRangeQuery == GasSpec => Spec
<1>1. GasInit => Init
  BY DEF GasInit
<1>2. [GasNext]_gasVars => [Next]_vars
  BY DEF GasNext, GasStep, Next, Step, AskGas, ScanGas, FailGas, FinishGasGap, WriteBackGas,
         ReturnGas, gasVars
<1> QED
  BY <1>1, <1>2, PTL DEF GasSpec, Spec

\* For windows in order that end before the last block number: every result,
\* cached or on its way to a caller, charges each block it stands for once, the
\* total is the sum cut at the largest amount, and the breakdown adds up to it -
\* for any transactions, fees and prices, and in whatever order it was merged.
THEOREM BillsAreSums ==
    ASSUME ProperQueries
    PROVE  GasSpec => []BillIsTheSum
<1>1. TypeOK /\ RangesDisjoint /\ Counted /\ Billed /\ [GasNext]_gasVars => Billed'
  BY BilledStep
<1>2. TypeOK /\ Billed => BillIsTheSum
  <2> SUFFICES ASSUME TypeOK, Billed PROVE BillIsTheSum
    OBVIOUS
  <2>1. ASSUME NEW e \in cache PROVE Charges(entryBill[e], BlocksIn(e.value))
    <3>1. e.value \in Aggregate /\ entryBill[e] = BillFor(BlocksIn(e.value))
      BY DEF TypeOK, Entry, Billed, EntriesBilled
    <3> QED
      BY <3>1, BlocksInType, BillCharges
  <2>2. ASSUME NEW t \in Tasks PROVE Charges(accBill[t], BlocksIn(acc[t]))
    <3>1. acc[t] \in Aggregate /\ accBill[t] = BillFor(BlocksIn(acc[t]))
      BY DEF TypeOK, Billed
    <3> QED
      BY <3>1, BlocksInType, BillCharges
  <2> QED
    BY <2>1, <2>2 DEF BillIsTheSum
<1>3. TypeOK /\ RangesDisjoint /\ Counted /\ [Next]_vars => Counted'
  BY CountedStep
<1>4. Spec => []Counted
  BY <1>3, CountedInit, TypeCorrect, Disjointness, PTL DEF Spec
<1> QED
  BY <1>1, <1>2, <1>4, BilledInit, GasIsRangeQuery, TypeCorrect, Disjointness, PTL DEF GasSpec
==============================================================================
