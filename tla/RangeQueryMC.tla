---------------------------- MODULE RangeQueryMC -----------------------------
(* Small instances of RangeQuery for TLC. *)
EXTENDS RangeQuery, TLC

CONSTANTS t1, t2, j1, j2, k1, k2

\* A key per job, as PriceCalculator has; one key for two jobs, as
\* GasCostCalculator has for two tokens between the same two addresses.
OneKeyEach == j1 :> k1 @@ j2 :> k2
OneJob == j1 :> k1
SharedKey == j1 :> k1 @@ j2 :> k1

ProperRanges(lo, hi) == {r \in (lo .. hi) \X (lo .. hi) : r[1] <= r[2]}

Ranges0to2 == ProperRanges(0, 2)
Ranges0to3 == ProperRanges(0, 3)
\* a window of three blocks and inverted windows inside it
InvertedRanges == {<<1, 3>>, <<3, 1>>}
\* windows that end at the last block number
LastBlockRanges == {<<1, 3>>, <<3, 3>>}

Symmetry == Permutations(Tasks)
==============================================================================
