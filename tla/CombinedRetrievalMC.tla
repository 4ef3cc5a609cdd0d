------------------------- MODULE CombinedRetrievalMC -------------------------
(* Small instances of CombinedRetrieval for TLC. *)
EXTENDS CombinedRetrieval, TLC

\* Logs at either end of a chunk and at u64::MAX, two in one block
Blocks == 1 :> 0 @@ 2 :> 1 @@ 3 :> 1 @@ 4 :> 3
OneTxEach == 1 :> "a" @@ 2 :> "b" @@ 3 :> "c" @@ 4 :> "d"
\* Two logs of one transaction
OneBlock == 1 :> 0 @@ 2 :> 0
OneTx == 1 :> "a" @@ 2 :> "a"

SomeRanges == {<<0, 3>>, <<1, 3>>, <<1, 1>>, <<3, 2>>}
OneRange == {<<0, 0>>}
==============================================================================
