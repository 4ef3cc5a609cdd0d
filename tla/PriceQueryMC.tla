----------------------------- MODULE PriceQueryMC -----------------------------
(* A token with swaps in two blocks, one against another token, one that does *)
(* not decode, and a block without any; a second token with one swap.         *)
EXTENDS PriceQuery

CONSTANTS usdc, a, b

Swap(at, n, in, out) ==
    [block |-> at, index |-> n, in |-> in, out |-> out, decodes |-> TRUE, included |-> TRUE]

MCLogs ==
    <<Swap(0, 0, a, usdc), Swap(0, 1, usdc, a),
      [Swap(1, 0, a, usdc) EXCEPT !.decodes = FALSE], Swap(1, 1, a, b),
      Swap(2, 0, usdc, b), [Swap(2, 1, a, usdc) EXCEPT !.included = FALSE], Swap(2, 2, a, usdc)>>

MCRanges == {r \in (0 .. 2) \X (0 .. 2) : r[1] <= r[2]}
==============================================================================
