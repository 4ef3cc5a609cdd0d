----------------------------- MODULE RangeQuery ------------------------------
(***************************************************************************)
(* Concurrent callers of a calculator over one shared BlockRangeCache:      *)
(* GasCostCalculator::calculate_gas_cost_with_adapter (src/gas/core.rs) and *)
(* PriceCalculator::calculate_price_between_blocks                          *)
(* (src/price/calculator.rs), with the chunk loop of LogScanner::scan_raw   *)
(* (src/scan/logs.rs) that fills each gap.                                  *)
(*                                                                         *)
(* A caller holds the cache's mutex only while it computes its gaps, while  *)
(* it inserts one gap and while it inserts the whole window.  Between those *)
(* it awaits RPCs, and the other callers run.  So one action is one critical*)
(* section or one RPC.                                                      *)
(***************************************************************************)
EXTENDS BlockRangeCache

CONSTANTS
    Tasks,       \* concurrent calls
    KeyOf,       \* [Jobs -> Keys]: the cache key the calculator derives from a call
    Ranges,      \* the <<start_block, end_block>> callers ask for
    ChunkSize,   \* max_block_range of the scan configuration
    FirstHead,   \* the chain's head at the start
    PastHead,    \* whether callers may ask for blocks the chain does not have yet
    Degradable,  \* whether a gap may lose logs to a decimals failure (price only)
    ClearedKeys, \* arguments of clear_signer_data (gas only)
    ClearedBelow \* arguments of clear_old_blocks (gas only)

ASSUME RangeQueryAssumption ==
    /\ Jobs # {}
    /\ KeyOf \in [Jobs -> Keys]
    /\ Ranges \subseteq Blocks \X Blocks
    /\ ChunkSize \in Nat \ {0}
    /\ FirstHead \in Blocks
    /\ PastHead \in BOOLEAN /\ Degradable \in BOOLEAN
    /\ ClearedKeys \subseteq Keys /\ ClearedBelow \subseteq Blocks

VARIABLES
    cache,    \* the shared BlockRangeCache: a set of entries
    head,     \* the chain's latest block
    pc,       \* where each call is
    query,    \* its arguments
    todo,     \* the gaps it has still to scan
    cursor,   \* current_block of its scan
    part,     \* gap_result: what the scan of its current gap has found
    acc,      \* gas_data, price_data: what it will return
    degraded  \* any_degraded

vars == <<cache, head, pc, query, todo, cursor, part, acc, degraded>>

NoQuery == [job |-> CHOOSE j \in Jobs : TRUE, lo |-> 0, hi |-> 0, settled |-> FALSE]

Gap == [at : Nat, lo : Blocks, hi : Blocks]

Init ==
    /\ cache = {}
    /\ head = FirstHead
    /\ pc = [t \in Tasks |-> "idle"]
    /\ query = [t \in Tasks |-> NoQuery]
    /\ todo = [t \in Tasks |-> {}]
    /\ cursor = [t \in Tasks |-> 0]
    /\ part = [t \in Tasks |-> EmptyAggregate]
    /\ acc = [t \in Tasks |-> EmptyAggregate]
    /\ degraded = [t \in Tasks |-> FALSE]

KeyOfTask(t) == KeyOf[query[t].job]

\* The gaps are scanned in the order the walk pushed them
IsNext(gaps, g) == g \in gaps /\ \A h \in gaps : g.at <= h.at

-----------------------------------------------------------------------------
(* The lookup: lock, calculate_gaps, unlock *)

Ask(t, job, lo, hi) ==
    /\ pc[t] = "idle"
    /\ PastHead \/ hi <= head
    /\ query' = [query EXCEPT ![t] =
                    [job |-> job, lo |-> lo, hi |-> hi, settled |-> hi <= head]]
    /\ UNCHANGED <<cache, head, part, degraded>>

\* No entry inside the window: the whole window, whatever it is, is the gap
LookupMiss(t, job, lo, hi) ==
    /\ Ask(t, job, lo, hi)
    /\ WithinQuery(cache, KeyOf[job], lo, hi) = {}
    /\ todo' = [todo EXCEPT ![t] = {[at |-> 1, lo |-> lo, hi |-> hi]}]
    /\ cursor' = [cursor EXCEPT ![t] = lo]
    /\ pc' = [pc EXCEPT ![t] = "busy"]
    /\ UNCHANGED acc

\* Entries tile the window: their merge is returned and nothing is scanned
LookupHit(t, job, lo, hi) ==
    LET W == WithinQuery(cache, KeyOf[job], lo, hi)
    IN  /\ Ask(t, job, lo, hi)
        /\ W # {}
        /\ \E pos \in SortedPositions(W) : Gaps(W, lo, hi, pos) = {}
        /\ acc' = [acc EXCEPT ![t] = MergeEntries(W)]
        /\ pc' = [pc EXCEPT ![t] = "done"]
        /\ UNCHANGED <<todo, cursor>>

\* Entries cover part of the window: their merge is the start of the result
LookupPartial(t, job, lo, hi) ==
    LET W == WithinQuery(cache, KeyOf[job], lo, hi)
    IN  /\ Ask(t, job, lo, hi)
        /\ W # {}
        /\ \E pos \in SortedPositions(W) :
             LET gaps == Gaps(W, lo, hi, pos)
             IN  /\ todo' = [todo EXCEPT ![t] = gaps]
                 /\ \E g \in gaps : /\ IsNext(gaps, g)
                                    /\ cursor' = [cursor EXCEPT ![t] = g.lo]
        /\ acc' = [acc EXCEPT ![t] = MergeEntries(W)]
        /\ pc' = [pc EXCEPT ![t] = "busy"]

Lookup(t) == \E job \in Jobs, r \in Ranges :
                \/ LookupMiss(t, job, r[1], r[2])
                \/ LookupHit(t, job, r[1], r[2])
                \/ LookupPartial(t, job, r[1], r[2])

-----------------------------------------------------------------------------
(* Filling the gaps *)

\* to_block = min(current_block saturating+ (chunk_size - 1), end_block)
ChunkEnd(from, hi) == IF from + (ChunkSize - 1) < hi THEN from + (ChunkSize - 1) ELSE hi

\* What the node answers for blocks from .. to: nothing for blocks it lacks
Scanned(job, from, to) ==
    [seen |-> {job} \X {b \in from .. to : b <= head}, again |-> {}]

\* A bug: the next chunk starts at the last block of this one
ScanChunkOverlapping(t) ==
    /\ pc[t] = "busy"
    /\ \E g \in todo[t] :
        /\ IsNext(todo[t], g)
        /\ cursor[t] <= g.hi
        /\ LET to == ChunkEnd(cursor[t], g.hi)
           IN  /\ part' = [part EXCEPT ![t] =
                            Merge(@, Scanned(query[t].job, cursor[t], to))]
               /\ cursor' = [cursor EXCEPT ![t] = IF to = g.hi THEN to + 1 ELSE to]
    /\ UNCHANGED <<cache, head, pc, query, todo, acc, degraded>>

\* One get_logs: the loop of scan_raw advances past the chunk.  At u64::MAX
\* checked_add breaks out of the loop, which U64Max + 1 > g.hi says here.
ScanChunk(t) ==
    /\ pc[t] = "busy"
    /\ \E g \in todo[t] :
        /\ IsNext(todo[t], g)
        /\ cursor[t] <= g.hi
        /\ LET to == ChunkEnd(cursor[t], g.hi)
           IN  /\ part' = [part EXCEPT ![t] =
                            Merge(@, Scanned(query[t].job, cursor[t], to))]
               /\ cursor' = [cursor EXCEPT ![t] = to + 1]
    /\ UNCHANGED <<cache, head, pc, query, todo, acc, degraded>>

\* The caller is back where it can be called again
Forget(t) ==
    /\ pc' = [pc EXCEPT ![t] = "idle"]
    /\ query' = [query EXCEPT ![t] = NoQuery]
    /\ todo' = [todo EXCEPT ![t] = {}]
    /\ cursor' = [cursor EXCEPT ![t] = 0]
    /\ part' = [part EXCEPT ![t] = EmptyAggregate]
    /\ acc' = [acc EXCEPT ![t] = EmptyAggregate]
    /\ degraded' = [degraded EXCEPT ![t] = FALSE]
    /\ UNCHANGED <<cache, head>>

\* A bug: what was scanned before the failure is cached as the gap's result
ScanFailsCachingPart(t) ==
    /\ pc[t] = "busy"
    /\ \E g \in todo[t] :
        /\ IsNext(todo[t], g)
        /\ cache' = Insert(cache, KeyOfTask(t), g.lo, g.hi, part[t])
    /\ pc' = [pc EXCEPT ![t] = "done"]
    /\ UNCHANGED <<head, query, todo, cursor, part, acc, degraded>>

\* A chunk, a decode or a receipt fails: `?` returns the error, and the gaps
\* inserted so far stay in the cache.
ScanFails(t) == pc[t] = "busy" /\ todo[t] # {} /\ Forget(t)

\* The scan moves on to the gap after g, with `found` merged into the result
NextGap(t, g, found) ==
    LET rest == todo[t] \ {g}
    IN  /\ todo' = [todo EXCEPT ![t] = rest]
        /\ \/ /\ rest = {}
              /\ cursor' = [cursor EXCEPT ![t] = 0]
           \/ \E h \in rest : /\ IsNext(rest, h)
                              /\ cursor' = [cursor EXCEPT ![t] = h.lo]
        /\ acc' = [acc EXCEPT ![t] = Merge(@, found)]
        /\ part' = [part EXCEPT ![t] = EmptyAggregate]
        /\ UNCHANGED <<head, pc, query>>

\* lock, insert the gap, unlock; merge it into the result
FinishGap(t) ==
    /\ pc[t] = "busy"
    /\ \E g \in todo[t] :
        /\ IsNext(todo[t], g)
        /\ cursor[t] > g.hi
        /\ cache' = Insert(cache, KeyOfTask(t), g.lo, g.hi, part[t])
        /\ NextGap(t, g, part[t])
    /\ UNCHANGED degraded

\* process_gap_for_price skips the swaps whose decimals it could not fetch:
\* the rest is merged into the answer, and the gap is not cached.
DegradeGap(t) ==
    /\ Degradable
    /\ pc[t] = "busy"
    /\ \E g \in todo[t] :
        /\ IsNext(todo[t], g)
        /\ cursor[t] > g.hi
        /\ \E kept \in (SUBSET part[t].seen) \ {part[t].seen} :
             NextGap(t, g, [part[t] EXCEPT !.seen = kept])
    /\ degraded' = [degraded EXCEPT ![t] = TRUE]
    /\ UNCHANGED cache

\* lock, insert the result for the whole window unless degraded, return it
WriteBack(t) ==
    /\ pc[t] = "busy" /\ todo[t] = {}
    /\ cache' = IF degraded[t] THEN cache
                ELSE Insert(cache, KeyOfTask(t), query[t].lo, query[t].hi, acc[t])
    /\ pc' = [pc EXCEPT ![t] = "done"]
    /\ UNCHANGED <<head, query, todo, cursor, part, acc, degraded>>

Return(t) == pc[t] = "done" /\ Forget(t)

-----------------------------------------------------------------------------
(* The environment *)

ClearSignerData(key) ==
    /\ cache' = WithoutKey(cache, key)
    /\ UNCHANGED <<head, pc, query, todo, cursor, part, acc, degraded>>

ClearOldBlocks(b) ==
    /\ cache' = WithoutBlocksBelow(cache, b)
    /\ UNCHANGED <<head, pc, query, todo, cursor, part, acc, degraded>>

NewBlock ==
    /\ head < U64Max
    /\ head' = head + 1
    /\ UNCHANGED <<cache, pc, query, todo, cursor, part, acc, degraded>>

Clear == \/ \E key \in ClearedKeys : ClearSignerData(key)
         \/ \E b \in ClearedBelow : ClearOldBlocks(b)

Step(t) == Lookup(t) \/ ScanChunk(t) \/ ScanFails(t) \/ FinishGap(t)
             \/ DegradeGap(t) \/ WriteBack(t) \/ Return(t)

Next == (\E t \in Tasks : Step(t)) \/ Clear \/ NewBlock

Spec == Init /\ [][Next]_vars

\* What a call does on its own once it has started: it is a task of the runtime
\* and its RPCs are answered or fail, so it is never abandoned half-way.
\* Nothing makes an idle caller ask, and nothing makes a scan fail.
Progress(t) == ScanChunk(t) \/ FinishGap(t) \/ DegradeGap(t) \/ WriteBack(t) \/ Return(t)

FairSpec == Spec /\ \A t \in Tasks : WF_vars(Progress(t))

-----------------------------------------------------------------------------
(* Properties *)

\* Types of the variables.
TypeOK ==
    /\ cache \subseteq Entry /\ IsFiniteSet(cache)
    /\ head \in Blocks
    /\ pc \in [Tasks -> {"idle", "busy", "done"}]
    /\ query \in [Tasks -> [job : Jobs, lo : Blocks, hi : Blocks, settled : BOOLEAN]]
    /\ todo \in [Tasks -> SUBSET Gap]
    /\ cursor \in [Tasks -> 0 .. U64Max + 1]
    /\ part \in [Tasks -> Aggregate]
    /\ acc \in [Tasks -> Aggregate]
    /\ degraded \in [Tasks -> BOOLEAN]

\* The invariant block_range.rs states at lines 42-45: for one key the cached
\* ranges never overlap, whichever callers insert and in whichever order.
RangesDisjoint == Disjoint(cache)

\* The other half of that statement: no aggregate, cached or about to be
\* returned, ever holds the same block of the same job twice.
NeverDoubleCounted ==
    /\ \A e \in cache : e.value.again = {}
    /\ \A t \in Tasks : part[t].again = {} /\ acc[t].again = {}

\* The aggregate of every block of lo .. hi, each once
Whole(job, lo, hi) == [seen |-> {job} \X (lo .. hi), again |-> {}]

\* A cached entry is authoritative: it is the exact aggregate of its range for
\* the job its key stands for.  A failed or degraded scan, or a caller that
\* computed its gaps before another one inserted, must not leave less or more.
CachedIsWhole ==
    \A e \in cache, job \in Jobs :
        KeyOf[job] = e.key => e.value = Whole(job, e.lo, e.hi)

\* A call on blocks the chain already had returns their exact aggregate,
\* unless the call itself was degraded.
AnswerIsWhole ==
    \A t \in Tasks :
        pc[t] = "done" /\ query[t].settled /\ ~degraded[t]
            => acc[t] = Whole(query[t].job, query[t].lo, query[t].hi)

\* Whatever a call has collected so far, complete or not, was asked for.
OnlyWhatWasAsked ==
    \A t \in Tasks :
        pc[t] # "idle" =>
            acc[t].seen \subseteq {query[t].job} \X (query[t].lo .. query[t].hi)

\* A call returns, whatever the window (inverted, ending at u64::MAX, past the
\* head) and whatever the other callers cache and clear meanwhile: the chunk
\* loop of scan_raw advances on every path and the gaps run out.
EveryCallReturns == \A t \in Tasks : pc[t] # "idle" ~> pc[t] = "idle"

Covered(key) == UNION {e.lo .. e.hi : e \in {f \in cache : f.key = key}}

\* Scanning is paid for once: no step but a clear makes the cache forget a
\* block it covers, so a failed or a concurrent call never undoes the work of
\* another.
CoverageOnlyGrows ==
    [][~Clear => \A key \in Keys : Covered(key) \subseteq Covered(key)']_vars

-----------------------------------------------------------------------------
(* The inductive invariant behind the last four.  What makes a shared cache *)
(* safe here is local: a caller's gaps are a snapshot, and from then on it   *)
(* counts only blocks of its own gaps, once, and inserts only what it has    *)
(* counted itself or merged from its own snapshot.                           *)

\* What a caller may hold for lo .. hi under a cache key
CellsOf(key, lo, hi) == {job \in Jobs : KeyOf[job] = key} \X (lo .. hi)

\* An entry holds contributions of its own range only, none of them twice
EntriesCounted ==
    \A e \in cache : /\ e.lo <= e.hi /\ e.hi < U64Max
                      /\ e.value.again = {}
                      /\ e.value.seen \subseteq CellsOf(e.key, e.lo, e.hi)

\* The remaining gaps lie in the window, apart from each other and from
\* every block the caller has already merged.
GapsRemain(t) ==
    /\ \A g \in todo[t] : /\ query[t].lo <= g.lo /\ g.lo <= g.hi /\ g.hi <= query[t].hi
                           /\ \A c \in acc[t].seen : c[2] < g.lo \/ c[2] > g.hi
    /\ \A g, h \in todo[t] : g # h => g.at # h.at /\ (g.hi < h.lo \/ h.hi < g.lo)

\* The scan of the current gap has counted blocks up to the cursor only
ScanCounted(t) ==
    \A g \in todo[t] : IsNext(todo[t], g) =>
        /\ g.lo <= cursor[t] /\ cursor[t] <= g.hi + 1
        /\ part[t].seen \subseteq {query[t].job} \X (g.lo .. cursor[t] - 1)

CallCounted(t) ==
    /\ part[t].again = {} /\ acc[t].again = {}
    /\ pc[t] = "idle" => acc[t].seen = {} /\ ~degraded[t]
    /\ pc[t] # "busy" => todo[t] = {}
    /\ todo[t] = {} => part[t].seen = {}
    /\ pc[t] # "idle" =>
         /\ query[t].lo <= query[t].hi /\ query[t].hi < U64Max
         /\ acc[t].seen \subseteq CellsOf(KeyOfTask(t), query[t].lo, query[t].hi)
         /\ GapsRemain(t)
         /\ ScanCounted(t)

Counted == EntriesCounted /\ \A t \in Tasks : CallCounted(t)

\* An entry misses nothing of its range
EntriesComplete ==
    \A e \in cache : /\ e.hi <= head
                      /\ \A job \in Jobs : KeyOf[job] = e.key =>
                            {job} \X (e.lo .. e.hi) \subseteq e.value.seen

\* A block of the window is still in a gap or has been merged, and the scan
\* of the current gap has missed nothing before the cursor.
CallComplete(t) ==
    pc[t] # "idle" =>
        /\ query[t].hi <= head
        /\ ~degraded[t] => \A b \in query[t].lo .. query[t].hi :
                \/ <<query[t].job, b>> \in acc[t].seen
                \/ \E g \in todo[t] : g.lo <= b /\ b <= g.hi
        /\ \A g \in todo[t] : IsNext(todo[t], g) =>
                {query[t].job} \X (g.lo .. cursor[t] - 1) \subseteq part[t].seen

Complete == EntriesComplete /\ \A t \in Tasks : CallComplete(t)

\* What the callers must respect for the last two invariants: windows are in
\* order and end before the last block number, ...
ProperQueries == \A r \in Ranges : r[1] <= r[2] /\ r[2] < U64Max

\* ... and no two jobs share a cache key.
KeyDeterminesJob == \A i, j \in Jobs : KeyOf[i] = KeyOf[j] => i = j
==============================================================================
