---------------------------- MODULE BlockWindowMC ----------------------------
(* Small instances of BlockWindow for TLC. *)
EXTENDS BlockWindow, TLC

\* A range over the border of the two days: the chain may begin before it, at
\* either end of it, inside it, or after it
BorderRange == {<<1, 3>>}
NoRanges == {}

Symmetry == Permutations(Tasks)
==============================================================================
