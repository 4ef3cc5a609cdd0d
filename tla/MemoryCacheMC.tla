---------------------------- MODULE MemoryCacheMC ----------------------------
(* Small instances of MemoryCache for TLC. *)
EXTENDS MemoryCache, TLC

Symmetry == Permutations(Callers) \cup Permutations(Windows)
==============================================================================
