----------------------------- MODULE DiskCacheMC -----------------------------
(* Small instances of DiskCache for TLC. *)
EXTENDS DiskCache, TLC

\* Everybody on one cache file
OnePath == [c \in Callers |-> "cache.json"]
OneTemp == [p \in {"cache.json"} |-> "cache.tmp"]

\* Two cache files of one directory and one stem
TwoPaths == [c \in Callers |-> IF c = CHOOSE d \in Callers : TRUE THEN "cache.json" ELSE "cache.bak"]
SameStem == [p \in {"cache.json", "cache.bak"} |-> "cache.tmp"]

Symmetry == Permutations(Callers) \cup Permutations(Windows)
==============================================================================
