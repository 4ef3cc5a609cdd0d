------------------------------- MODULE LogOrder --------------------------------
(***************************************************************************)
(* Block numbers, the order in which a node hands out logs, and what       *)
(* filtering a list of them leaves.  InOrder and Only say what SetToSortSeq *)
(* and SelectSeq of the community and standard modules say, without their  *)
(* operator arguments, so that the proofs can expand them.                 *)
(***************************************************************************)
EXTENDS Integers, Sequences, FiniteSets

CONSTANT U64Max  \* the largest BlockNumber

ASSUME U64MaxAssumption == U64Max \in Nat

\* The numbers of a finite set, in order: the i-th has i of them up to it
InOrder(S) ==
    [i \in 1 .. Cardinality(S) |-> CHOOSE x \in S : Cardinality({y \in S : y <= x}) = i]

\* Iterator::filter: what of a list is in S, in the list's order
Only(list, S) ==
    LET at == InOrder({i \in DOMAIN list : list[i] \in S})
    IN  [i \in DOMAIN at |-> list[at[i]]]
==============================================================================
