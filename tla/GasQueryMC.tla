------------------------------ MODULE GasQueryMC ------------------------------
(* The chain of RangeQueryMC with transactions on it: a legacy one, one whose *)
(* two logs both match, one with blobs, and enough of them to exceed WeiMax.  *)
EXTENDS GasQuery, TLC

CONSTANTS t1, t2, j1, k1

OneJob == j1 :> k1

MCRanges == {r \in (0 .. 3) \X (0 .. 3) : r[1] <= r[2]}

OneTx(legacy, gas_used, l1_fee, blob_cost) ==
    [is_legacy |-> legacy, gas_used |-> gas_used, gas_price |-> 2, receipt_price |-> 1,
     l1_fee |-> l1_fee, blob_cost |-> blob_cost]

Twice == OneTx(FALSE, 1, 1, 0)

MCTxsOf == [b \in Blocks |->
    CASE b = 0 -> <<OneTx(TRUE, 1, NoFee, 0)>>
      [] b = 1 -> <<Twice, Twice>>
      [] b = 2 -> <<>>
      [] b = 3 -> <<OneTx(FALSE, 2, 0, 3)>>
      [] OTHER -> <<>>]

Symmetry == Permutations(Tasks)
==============================================================================
