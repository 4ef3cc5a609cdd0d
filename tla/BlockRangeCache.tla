--------------------------- MODULE BlockRangeCache ---------------------------
(***************************************************************************)
(* The range cache of src/cache/block_range.rs: what an entry is, what      *)
(* insert does with overlapping entries, and which gaps calculate_gaps      *)
(* reports.  Operators only; RangeQuery is the machine that calls them.     *)
(*                                                                         *)
(* An aggregate (GasCostResult, TokenPriceResult) is a sum over the logs of *)
(* some blocks.  The properties only ask which contributions were added and *)
(* which were added more than once, so an aggregate is the pair of those    *)
(* two sets: a multiset of <<job, block>> contributions with counts cut at  *)
(* two.  Adding numbers loses exactly this information in the code, which   *)
(* is why a wrong sum is so hard to notice.                                 *)
(***************************************************************************)
EXTENDS Integers, FiniteSets, FiniteSetsExt

CONSTANTS
    Keys,    \* the key type K of the cache: (from, to), or a token address
    Jobs,    \* what a caller sums: an event of a token of a chain between two addresses
    U64Max   \* the largest BlockNumber

ASSUME U64MaxAssumption == U64Max \in Nat

Blocks == 0 .. U64Max

Contributions == Jobs \X Blocks

Aggregate == [seen : SUBSET Contributions, again : SUBSET Contributions]

\* GasCostResult::new, TokenPriceResult::new: nothing added yet
EmptyAggregate == [seen |-> {}, again |-> {}]

\* Mergeable::merge: the totals are added, so what both sides hold is in twice
Merge(a, b) == [seen  |-> a.seen \cup b.seen,
                again |-> a.again \cup b.again \cup (a.seen \cap b.seen)]

Entry == [key : Keys, lo : Blocks, hi : Blocks, value : Aggregate]

\* The merge of the entries of E into an empty aggregate, in any order
MergeEntries(E) ==
    [seen  |-> UNION {e.value.seen : e \in E},
     again |-> (UNION {e.value.again : e \in E})
               \cup {c \in UNION {e.value.seen : e \in E} :
                       \E e, f \in E : e # f /\ c \in e.value.seen \cap f.value.seen}]

\* The ranges of one key share no block
Disjoint(entries) ==
    \A e, f \in entries :
        e # f /\ e.key = f.key => (e.lo .. e.hi) \cap (f.lo .. f.hi) = {}

-----------------------------------------------------------------------------
(* insert *)

\* A bug an editor of find_overlapping could make: the last block is exclusive
OverlappingHalfOpen(entries, key, lo, hi) ==
    {e \in entries : e.key = key /\ ~(e.hi <= lo \/ e.lo >= hi)}

Overlapping(entries, key, lo, hi) ==
    {e \in entries : e.key = key /\ ~(e.hi < lo \/ e.lo > hi)}

\* HashMap::insert on the (key, start, end) triple
Store(entries, key, lo, hi, value) ==
    {e \in entries : ~(e.key = key /\ e.lo = lo /\ e.hi = hi)}
        \cup {[key |-> key, lo |-> lo, hi |-> hi, value |-> value]}

\* A bug: the new value always wins, whether or not it covers what it replaces
InsertReplacing(entries, key, lo, hi, value) ==
    Store(entries \ Overlapping(entries, key, lo, hi), key, lo, hi, value)

Insert(entries, key, lo, hi, value) ==
    LET over == Overlapping(entries, key, lo, hi)
    IN  IF \A e \in over : e.lo >= lo /\ e.hi <= hi
        THEN Store(entries \ over, key, lo, hi, value)
        ELSE entries

-----------------------------------------------------------------------------
(* calculate_gaps *)

\* The bug CHANGELOG 0.15 fixed: a wider entry answers a narrower query
WithinQueryOverlapping(entries, key, lo, hi) == Overlapping(entries, key, lo, hi)

WithinQuery(entries, key, lo, hi) ==
    {e \in entries : e.key = key /\ e.lo >= lo /\ e.hi <= hi}

\* The positions the entries of W may have after the stable sort by start:
\* entries with equal starts keep the order the HashMap iterated them in.
SortedPositions(W) ==
    {pos \in [W -> 1 .. Cardinality(W)] :
        \A e, f \in W : /\ e # f => pos[e] # pos[f]
                        /\ e.lo < f.lo => pos[e] < pos[f]}

\* range_end + 1: a release build wraps at u64::MAX
BlockAfter(b) == IF b = U64Max THEN 0 ELSE b + 1

\* A bug: the block after an entry is taken to be covered by it
CurrentOffByOne(W, lo, pos, i) ==
    Max({lo} \cup {BlockAfter(e.hi) + 1 : e \in {f \in W : pos[f] < i}})

\* `current` when the walk reaches position i
Current(W, lo, pos, i) ==
    Max({lo} \cup {BlockAfter(e.hi) : e \in {f \in W : pos[f] < i}})

\* A bug: `current <= range_start` pushes an empty gap before an entry
GapsInclusive(W, lo, hi, pos) ==
    LET end == Cardinality(W) + 1
    IN  {[at |-> pos[e], lo |-> Current(W, lo, pos, pos[e]), hi |-> e.lo - 1] :
            e \in {f \in W : Current(W, lo, pos, pos[f]) <= f.lo}}
        \cup {[at |-> i, lo |-> Current(W, lo, pos, i), hi |-> hi] :
                i \in {j \in {end} : Current(W, lo, pos, j) <= hi}}

\* The gaps the walk pushes, each with the position it is pushed at, which
\* orders them; the one after the last entry has the last position.
Gaps(W, lo, hi, pos) ==
    LET end == Cardinality(W) + 1
    IN  {[at |-> pos[e], lo |-> Current(W, lo, pos, pos[e]), hi |-> e.lo - 1] :
            e \in {f \in W : Current(W, lo, pos, pos[f]) < f.lo}}
        \cup {[at |-> i, lo |-> Current(W, lo, pos, i), hi |-> hi] :
                i \in {j \in {end} : Current(W, lo, pos, j) <= hi}}

-----------------------------------------------------------------------------
(* retain, as clear_signer_data and clear_old_blocks call it *)

WithoutKey(entries, key) == {e \in entries : e.key # key}

WithoutBlocksBelow(entries, b) == {e \in entries : e.hi >= b}
==============================================================================
