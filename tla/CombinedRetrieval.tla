-------------------------- MODULE CombinedRetrieval --------------------------
(***************************************************************************)
(* CombinedCalculator (src/retrieval/): one call scans a range of blocks in *)
(* chunks, looks up transaction and receipt of every log at once, and then  *)
(* the lookups that failed again, one log after another, a bounded number   *)
(* of times.  What stays unknown is reported as a partial failure.          *)
(*                                                                         *)
(* An action is the answer to one RPC, with what the call does until it     *)
(* waits for the next.                                                     *)
(***************************************************************************)
EXTENDS Integers, Sequences, SequencesExt, LogOrder

CONSTANTS
    Logs,         \* the logs that match the filter, as numbers in chain order
    BlockOf,      \* the block of each
    TxOf,         \* the transaction of each
    Readable,     \* those that decode and carry a hash and a block number
    Ranges,       \* what callers ask for: from_block, to_block
    ChunkSize,    \* max_block_range
    MaxAttempts,  \* serial_lookup_fallback_attempts
    Permissive    \* whether the chain is zkSync, with its raw transaction lookup

ASSUME CombinedRetrievalAssumption ==
    /\ Logs \subseteq Nat /\ IsFiniteSet(Logs) /\ Readable \subseteq Logs
    /\ BlockOf \in [Logs -> 0 .. U64Max]
    /\ Ranges \subseteq (0 .. U64Max) \X (0 .. U64Max)
    /\ ChunkSize \in Nat \ {0} /\ MaxAttempts \in Nat
    /\ Permissive \in BOOLEAN

VARIABLES
    phase,    \* where the call is
    query,    \* its from_block and to_block
    current_block,  \* where the next chunk begins
    entries,  \* what was scanned; from the batch on, what of it decodes
    tx,       \* the transaction lookup of each log
    receipt,  \* the receipt lookup of each log
    queue,    \* batch_failures that are still to be retried
    tries,    \* attempts of the lookup that is being retried
    result    \* CombinedDataResult

retrievalVars == <<phase, query, current_block, entries, tx, receipt, queue, tries, result>>

NoResult == [data |-> <<>>, failures |-> <<>>, skipped |-> 0, attempts |-> 0, recovered |-> 0]
NoLookups == [l \in Logs |-> "none"]

RetrievalInit ==
    /\ phase = "idle"
    /\ query = <<0, 0>> /\ current_block = 0
    /\ entries = <<>> /\ queue = <<>> /\ tries = 0
    /\ tx = NoLookups /\ receipt = NoLookups
    /\ result = NoResult

-----------------------------------------------------------------------------
(* The scan *)

ChunkLogs(lo, hi) == InOrder({l \in Logs : BlockOf[l] \in lo .. hi})

ChunkEnd ==
    LET end == current_block + ChunkSize - 1
    IN  IF end < query[2] THEN end ELSE query[2]

\* enrich_batch: both lookups of every entry at once
Enrich(logs) ==
    /\ entries' = logs
    /\ tx' = [l \in Logs |-> IF l \in ToSet(logs) THEN "asked" ELSE "none"]
    /\ receipt' = tx'
    /\ phase' = IF logs = <<>> THEN "done" ELSE "batch"

Ask ==
    /\ phase \in {"idle", "done", "failed"}
    /\ \E r \in Ranges : query' = r /\ current_block' = r[1]
    /\ phase' = IF current_block' <= query'[2] THEN "scanning" ELSE "done"
    /\ result' = NoResult /\ entries' = <<>> /\ queue' = <<>> /\ tries' = 0
    /\ tx' = NoLookups /\ receipt' = NoLookups

\* A bug: the next chunk starts with the last block of this one
ScanChunkOverlapping ==
    /\ phase = "scanning" /\ ChunkEnd < query[2]
    /\ entries' = entries \o ChunkLogs(current_block, ChunkEnd)
    /\ current_block' = ChunkEnd
    /\ UNCHANGED <<phase, query, tx, receipt, queue, tries, result>>

ScanChunk ==
    /\ phase = "scanning" /\ ChunkEnd < query[2]
    /\ entries' = entries \o ChunkLogs(current_block, ChunkEnd)
    /\ current_block' = ChunkEnd + 1
    /\ UNCHANGED <<phase, query, tx, receipt, queue, tries, result>>

\* The last chunk; decode_transfer_logs drops what it cannot read
ScanLastChunk ==
    /\ phase = "scanning" /\ ChunkEnd >= query[2]
    /\ current_block' = ChunkEnd
    /\ Enrich(Only(entries \o ChunkLogs(current_block, ChunkEnd), Readable))
    /\ UNCHANGED <<query, queue, tries, result>>

\* A chunk that fails fails the call
ScanFails ==
    /\ phase = "scanning"
    /\ phase' = "failed" /\ entries' = <<>>
    /\ UNCHANGED <<query, current_block, tx, receipt, queue, tries, result>>

-----------------------------------------------------------------------------
(* enrich_one: the lookups of one log, at the same time *)

TxReply(l) ==
    /\ tx[l] = "asked"
    /\ \E reply \in {"found", "missing", "failed"} \cup (IF Permissive THEN {"raw"} ELSE {}) :
            tx' = [tx EXCEPT ![l] = reply]
    /\ UNCHANGED <<phase, query, current_block, entries, receipt, queue, tries, result>>

\* zkSync: a transaction that does not decode is asked for again, raw
RawReply(l) ==
    /\ tx[l] = "raw"
    /\ \E reply \in {"found", "missing", "unreadable"} : tx' = [tx EXCEPT ![l] = reply]
    /\ UNCHANGED <<phase, query, current_block, entries, receipt, queue, tries, result>>

ReceiptReply(l) ==
    /\ receipt[l] = "asked"
    /\ \E reply \in {"found", "missing", "failed"} : receipt' = [receipt EXCEPT ![l] = reply]
    /\ UNCHANGED <<phase, query, current_block, entries, tx, queue, tries, result>>

InFlight(l) == tx[l] \in {"asked", "raw"} \/ receipt[l] = "asked"

\* extract_gas_and_amount
Succeeds(l) == tx[l] = "found" /\ receipt[l] = "found"

\* The attempts a failed lookup records: the transaction's error comes first, and
\* the raw lookup adds its own to the typed one's
Errors == [missing |-> 1, failed |-> 1, unreadable |-> 2]
Attempts(l) ==
    IF tx[l] = "found"
    THEN <<[pass |-> phase, stage |-> "receipt"]>>
    ELSE [i \in 1 .. Errors[tx[l]] |-> [pass |-> phase, stage |-> "transaction"]]

-----------------------------------------------------------------------------
(* The two passes *)

BatchEnded == phase = "batch" /\ \A l \in ToSet(entries) : ~InFlight(l)
BatchSuccesses == Only(entries, {l \in Logs : Succeeds(l)})
BatchFailures ==
    LET failed == Only(entries, {l \in Logs : ~Succeeds(l)})
    IN  [i \in DOMAIN failed |-> [log |-> failed[i], attempts |-> Attempts(failed[i])]]

\* retry_failed asks again
Retry(l) ==
    /\ tx' = [tx EXCEPT ![l] = "asked"]
    /\ receipt' = [receipt EXCEPT ![l] = "asked"]

BatchReturns ==
    /\ BatchEnded /\ (BatchFailures = <<>> \/ MaxAttempts = 0)
    /\ phase' = "done"
    /\ result' = [result EXCEPT !.data = BatchSuccesses, !.failures = BatchFailures,
                                !.skipped = Len(BatchFailures)]
    /\ UNCHANGED <<query, current_block, entries, tx, receipt, queue, tries>>

\* A bug: all failed lookups are asked again at once
BatchFallsBackAtOnce ==
    /\ BatchEnded /\ BatchFailures # <<>> /\ MaxAttempts > 0
    /\ phase' = "serial" /\ tries' = 1
    /\ queue' = BatchFailures
    /\ result' = [result EXCEPT !.data = BatchSuccesses]
    /\ tx' = [l \in Logs |-> IF l \in ToSet(entries) /\ ~Succeeds(l) THEN "asked" ELSE tx[l]]
    /\ receipt' = [l \in Logs |-> IF tx'[l] = "asked" THEN "asked" ELSE receipt[l]]
    /\ UNCHANGED <<query, current_block, entries>>

BatchFallsBack ==
    /\ BatchEnded /\ BatchFailures # <<>> /\ MaxAttempts > 0
    /\ phase' = "serial" /\ tries' = 1
    /\ queue' = BatchFailures
    /\ result' = [result EXCEPT !.data = BatchSuccesses]
    /\ Retry(Head(BatchFailures).log)
    /\ UNCHANGED <<query, current_block, entries>>

Retried == Head(queue).log
RetryEnded == phase = "serial" /\ ~InFlight(Retried)

NextFailure ==
    /\ queue' = Tail(queue)
    /\ IF Tail(queue) = <<>>
       THEN phase' = "done" /\ tries' = 0 /\ UNCHANGED <<tx, receipt>>
       ELSE phase' = phase /\ tries' = 1 /\ Retry(Head(Tail(queue)).log)
    /\ UNCHANGED <<query, current_block, entries>>

\* A bug: the attempts of a lookup that recovers are not counted
RetrySucceedsUncounted ==
    /\ RetryEnded /\ Succeeds(Retried)
    /\ result' = [result EXCEPT !.data = Append(@, Retried), !.recovered = @ + 1]
    /\ NextFailure

RetrySucceeds ==
    /\ RetryEnded /\ Succeeds(Retried)
    /\ result' = [result EXCEPT !.data = Append(@, Retried), !.recovered = @ + 1,
                                !.attempts = @ + tries]
    /\ NextFailure

\* A bug: the attempt does not count
RetryAgainForever ==
    /\ RetryEnded /\ ~Succeeds(Retried) /\ tries < MaxAttempts
    /\ queue' = [queue EXCEPT ![1].attempts = Attempts(Retried)]
    /\ Retry(Retried)
    /\ UNCHANGED <<phase, query, current_block, entries, tries, result>>

RetryAgain ==
    /\ RetryEnded /\ ~Succeeds(Retried) /\ tries < MaxAttempts
    /\ tries' = tries + 1
    /\ queue' = [queue EXCEPT ![1].attempts = @ \o Attempts(Retried)]
    /\ Retry(Retried)
    /\ UNCHANGED <<phase, query, current_block, entries, result>>

\* A bug: the last errors replace those before them
RetryFailsForgetting ==
    LET failure == [Head(queue) EXCEPT !.attempts = Attempts(Retried)]
    IN  /\ RetryEnded /\ ~Succeeds(Retried) /\ tries = MaxAttempts
        /\ result' = [result EXCEPT !.failures = Append(@, failure), !.skipped = @ + 1,
                                    !.attempts = @ + tries]
        /\ NextFailure

RetryFails ==
    LET failure == [Head(queue) EXCEPT !.attempts = @ \o Attempts(Retried)]
    IN  /\ RetryEnded /\ ~Succeeds(Retried) /\ tries = MaxAttempts
        /\ result' = [result EXCEPT !.failures = Append(@, failure), !.skipped = @ + 1,
                                    !.attempts = @ + tries]
        /\ NextFailure

Progress == \/ ScanChunk \/ ScanLastChunk
            \/ \E l \in Logs : TxReply(l) \/ RawReply(l) \/ ReceiptReply(l)
            \/ BatchReturns \/ BatchFallsBack
            \/ RetrySucceeds \/ RetryAgain \/ RetryFails

RetrievalNext == Ask \/ ScanFails \/ Progress

RetrievalSpec == RetrievalInit /\ [][RetrievalNext]_retrievalVars

\* Every RPC is answered or fails, and the runtime polls the call.
FairRetrievalSpec == RetrievalSpec /\ WF_retrievalVars(Progress)

-----------------------------------------------------------------------------
(* Properties *)

Failures == [log : Readable, attempts : Seq([pass : {"batch", "serial"},
                                             stage : {"transaction", "receipt"}])]

\* Types of the variables.
TypeOK ==
    /\ phase \in {"idle", "scanning", "batch", "serial", "done", "failed"}
    /\ query \in (0 .. U64Max) \X (0 .. U64Max) /\ current_block \in 0 .. U64Max
    /\ entries \in Seq(Logs)
    /\ tx \in [Logs -> {"none", "asked", "raw", "found", "missing", "failed", "unreadable"}]
    /\ receipt \in [Logs -> {"none", "asked", "found", "missing", "failed"}]
    /\ queue \in Seq(Failures)
    /\ tries \in 0 .. MaxAttempts
    /\ result \in [data : Seq(Readable), failures : Seq(Failures), skipped : Nat,
                   attempts : Nat, recovered : Nat]

LogsOf(failures) == [i \in DOMAIN failures |-> failures[i].log]

\* Every log of the range that can be read is, once, in the totals or among the
\* partial failures or still being retried, wherever chunks begin and whatever
\* fails.
AccountedOnce ==
    LET wanted == {l \in Readable : BlockOf[l] \in query[1] .. query[2]}
        all == result.data \o LogsOf(result.failures) \o LogsOf(queue)
    IN  phase \in {"serial", "done"} => IsInjective(all) /\ ToSet(all) = wanted

\* The metadata agree with each other: skipped logs are the partial failures,
\* recovered ones are in the totals, and the attempts are those that made them so.
CountersAgree ==
    LET n == result.recovered + result.skipped
    IN  phase \in {"serial", "done"} =>
        /\ result.skipped = Len(result.failures)
        /\ result.recovered <= Len(result.data)
        /\ result.attempts \in result.recovered + MaxAttempts * result.skipped .. MaxAttempts * n

\* A partial failure tells all that was tried: the batch first, then as many
\* serial attempts as are configured.
HistoryIsWhole ==
    \A f \in ToSet(result.failures) :
        \E n \in DOMAIN f.attempts :
            /\ \A i \in DOMAIN f.attempts :
                    f.attempts[i].pass = IF i <= n THEN "batch" ELSE "serial"
            /\ Len(f.attempts) - n >= MaxAttempts

\* "Intentionally sequential across failures to avoid reproducing the original
\* burst": the fallback has lookups of one log in flight.
OneAtATime == phase = "serial" => \A l \in Logs : InFlight(l) => l = Retried

\* A call returns, whatever its lookups answer.
EveryCallReturns == phase = "scanning" ~> phase \in {"done", "failed"}

\* "Calculate total gas costs for transactions between two addresses": the gas of
\* a transaction is added once.
GasOnce ==
    \A i, j \in DOMAIN result.data : i # j => TxOf[result.data[i]] # TxOf[result.data[j]]
==============================================================================
