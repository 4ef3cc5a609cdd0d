------------------------------ MODULE EventScan -------------------------------
(***************************************************************************)
(* The public log readers of src/events: EventScanner::scan, scan_range and *)
(* scan_with_handler (scanner.rs), fetch_logs_chunked and its range variant *)
(* (chunked.rs), AmountCalculator (transfers.rs) and the token discovery of *)
(* discovery.rs.  All of them run the chunk loop of LogScanner::scan_raw    *)
(* over a chain that grows meanwhile; they differ in how they bound the     *)
(* range, where the chunk size comes from, what they do when one chunk      *)
(* fails and what they make of the logs.                                    *)
(*                                                                         *)
(* A block holds at most one log of the emitter, so a log is named by its   *)
(* block.  One action is one RPC or one hand-over to the caller.            *)
(***************************************************************************)
EXTENDS Integers, Sequences, FiniteSets, FiniteSetsExt, SequencesExt, LogOrder

CONSTANTS
    AmountMax,   \* the largest TokenAmount (U256::MAX in the code)
    FirstHead,   \* the chain's head at the start
    LogOf,       \* the log of each block, or NoLog
    NoLog,
    Config,      \* the SemioscanConfig of the scanners
    Calls,       \* the calls the caller may make
    Unset        \* a field of a filter, an override or a bound that is not given

Blocks == 0 .. U64Max

\* std::ops::Bound<BlockNumber>
Bounds == [kind : {"included", "excluded", "unbounded"}, at : Blocks]

VARIABLES
    head,     \* the chain's latest block
    pc,       \* where the call is
    call,     \* its arguments, and the head when it was made
    cursor,   \* current_block
    found,    \* all_logs
    skipped,  \* the chunks whose get_logs failed and were passed over
    answer    \* what the caller gets

scanVars == <<pc, call, cursor, found, skipped, answer>>

-----------------------------------------------------------------------------
(* Arguments and settings *)

Included(b) == [kind |-> "included", at |-> b]
Excluded(b) == [kind |-> "excluded", at |-> b]
Unbounded   == [kind |-> "unbounded", at |-> 0]

\* checked_add and checked_sub of an excluded bound
StartOf(bound) == IF bound.kind = "excluded" THEN bound.at + 1 ELSE bound.at
EndOf(bound)   == IF bound.kind = "excluded" THEN bound.at - 1 ELSE bound.at

\* finite_block_range accepts both bounds finite, in range and in order
IsFiniteRange(c) ==
    /\ c.start.kind # "unbounded" /\ c.end.kind # "unbounded"
    /\ StartOf(c.start) \in Blocks
    /\ EndOf(c.end) \in Blocks
    /\ StartOf(c.start) <= EndOf(c.end)

\* The chain's override, if it sets the field, else the configured value
Override(chain, field) ==
    LET overridden == chain \in DOMAIN Config.chain_overrides
                        /\ Config.chain_overrides[chain][field] # Unset
    IN  IF overridden THEN Config.chain_overrides[chain][field] ELSE Config[field]

\* fetch_logs_chunked is given its chunk size, the others look it up
TakesChunkSize(c) == c.api \in {"fetch_logs_chunked", "fetch_logs_chunked_range"}

ChunkSizeOf(c) == IF TakesChunkSize(c) THEN c.chunk_size
                  ELSE Override(c.chain, "max_block_range")

\* The APIs that take a RangeBounds and normalise it
TakesRange(c) == c.api \in {"scan_range", "scan_with_handler_range", "fetch_logs_chunked_range"}

\* invalid_input errors, raised before anything is scanned
IsInvalid(c) ==
    \/ TakesChunkSize(c) /\ c.chunk_size = 0
    \/ TakesRange(c) /\ ~IsFiniteRange(c)
    \/ c.api = "fetch_logs_chunked" /\ "unbounded" \in {c.start.kind, c.end.kind}

\* The arguments' types, that the APIs which take two block numbers include both,
\* and that the token discovery asks for the transfers to its router
ASSUME EventScanAssumption ==
    /\ AmountMax \in Nat
    /\ FirstHead \in Blocks
    /\ DOMAIN LogOf = Blocks
    /\ \A b \in Blocks : LogOf[b] # NoLog => LogOf[b].value \in 0 .. AmountMax
    /\ Config.max_block_range \in Nat
    /\ \A chain \in DOMAIN Config.chain_overrides :
          Config.chain_overrides[chain]["max_block_range"] \in Nat \cup {Unset}
    /\ \A c \in Calls :
          /\ DOMAIN c = {"api", "chain", "chunk_size", "filter", "start", "end"}
          /\ c.chunk_size \in Nat /\ c.start \in Bounds /\ c.end \in Bounds
          /\ ~TakesRange(c) => c.start.kind # "excluded" /\ c.end.kind # "excluded"
          /\ c.api = "transferred_tokens" => c.filter.to # Unset

\* TransferFilterBuilder: the fields that are set must match
Matches(filter, b) ==
    /\ LogOf[b] # NoLog
    /\ \A field \in {"token", "from", "to"} :
          filter[field] # Unset => LogOf[b][field] = filter[field]

-----------------------------------------------------------------------------
(* The loop of scan_raw *)

Lo == StartOf(call.start)
Hi == EndOf(call.end)

\* min(current_block saturating+ (chunk_size - 1), end_block)
ToBlock == IF cursor + (ChunkSizeOf(call) - 1) < Hi
           THEN cursor + (ChunkSizeOf(call) - 1) ELSE Hi

\* What the node answers: the matching logs of the blocks it has, in order
LogsIn(filter, from, to) ==
    InOrder({b \in from .. to : b <= head /\ Matches(filter, b)})

NoCall == [api |-> Unset, asked |-> 0]

\* A call, with the head when it was made
MadeAt(c, at) ==
    [field \in DOMAIN c \cup {"asked"} |-> IF field = "asked" THEN at ELSE c[field]]

Start(c) ==
    /\ pc = "idle"
    /\ call' = MadeAt(c, head)
    /\ UNCHANGED <<head, found, skipped, answer>>

\* Err(invalid_input)
Reject(c) ==
    /\ Start(c)
    /\ IsInvalid(c)
    /\ pc' = "failed"
    /\ UNCHANGED cursor

\* scan asserts that the chunk size it looked up is not zero
Panic(c) ==
    /\ Start(c)
    /\ ~IsInvalid(c)
    /\ ChunkSizeOf(c) = 0
    /\ pc' = "panicked"
    /\ UNCHANGED cursor

\* An inverted range given as two numbers scans nothing
Begin(c) ==
    /\ Start(c)
    /\ ~IsInvalid(c)
    /\ ChunkSizeOf(c) > 0
    /\ pc' = IF StartOf(c.start) <= EndOf(c.end) THEN "scanning" ELSE "scanned"
    /\ cursor' = StartOf(c.start)

\* A bug: saturating_add keeps the cursor at the last block, so the loop goes on
AdvanceSaturating(to) ==
    /\ cursor' = IF to = U64Max THEN U64Max ELSE to + 1
    /\ pc' = IF cursor' <= Hi THEN "scanning" ELSE "scanned"

\* checked_add past the chunk: at the last block number the loop breaks
Advance(to) ==
    LET ends == to = U64Max \/ to + 1 > Hi
    IN  /\ pc' = IF ends THEN "scanned" ELSE "scanning"
        /\ cursor' = IF ends THEN cursor ELSE to + 1

ReadChunk ==
    /\ pc = "scanning"
    /\ found' = found \o LogsIn(call.filter, cursor, ToBlock)
    /\ Advance(ToBlock)
    /\ UNCHANGED <<head, call, skipped, answer>>

\* A bug: every API continues past a failed chunk
NeverAbortsOnError(c) == FALSE

\* The closure of fetch_logs_chunked maps every error, EventScanner's none
AbortsOnError(c) == TakesChunkSize(c)

\* None: the error is logged and the scan goes on with the next chunk
SkipChunk ==
    /\ pc = "scanning" /\ ~AbortsOnError(call)
    /\ skipped' = skipped \cup {<<cursor, ToBlock>>}
    /\ Advance(ToBlock)
    /\ UNCHANGED <<head, call, found, answer>>

\* Some(err): the scan ends with it, and no partial result
AbortScan ==
    /\ pc = "scanning" /\ AbortsOnError(call)
    /\ pc' = "failed"
    /\ UNCHANGED <<head, call, cursor, found, skipped, answer>>

-----------------------------------------------------------------------------
(* What each API makes of the logs *)

\* A bug: the sum wraps around
WrappingAdd(a, b) == (a + b) % (AmountMax + 1)

SaturatingAdd(a, b) == IF a + b < AmountMax THEN a + b ELSE AmountMax

Decodes(b) == LogOf[b].sound

\* The loop over the logs: one that does not decode is warned about and left out
AmountOf(logs) ==
    LET sum[n \in 0 .. Len(logs)] ==
          IF n = 0 THEN 0
          ELSE IF Decodes(logs[n]) THEN SaturatingAdd(sum[n - 1], LogOf[logs[n]].value)
          ELSE sum[n - 1]
    IN  sum[Len(logs)]

TokensOf(logs, router) ==
    {LogOf[b].token : b \in {c \in ToSet(logs) : Decodes(c) /\ LogOf[c].to = router}}

Answer(c, logs) ==
    CASE c.api = "transfer_amount"  -> AmountOf(logs)
      [] c.api = "transferred_tokens" -> TokensOf(logs, c.filter.to)
      [] OTHER -> logs

HasHandler(c) == c.api \in {"scan_with_handler", "scan_with_handler_range"}

\* Ok(result): logs, the total, or the set of tokens
Deliver ==
    /\ pc = "scanned" /\ ~HasHandler(call)
    /\ answer' = Answer(call, found)
    /\ pc' = "answered"
    /\ UNCHANGED <<head, call, cursor, found, skipped>>

\* The handler is called once, with all logs; its error is the scan's error
CallHandler ==
    /\ pc = "scanned" /\ HasHandler(call)
    /\ answer' = found
    /\ pc' \in {"answered", "failed"}
    /\ UNCHANGED <<head, call, cursor, found, skipped>>

Return ==
    /\ pc \in {"answered", "failed", "panicked"}
    /\ pc' = "idle" /\ call' = NoCall /\ cursor' = 0
    /\ found' = <<>> /\ skipped' = {} /\ answer' = Unset
    /\ UNCHANGED head

ScanInit ==
    /\ head = FirstHead
    /\ pc = "idle" /\ call = NoCall /\ cursor = 0
    /\ found = <<>> /\ skipped = {} /\ answer = Unset

ScanStep == \/ \E c \in Calls : Reject(c) \/ Panic(c) \/ Begin(c)
            \/ ReadChunk \/ SkipChunk \/ AbortScan \/ Deliver \/ CallHandler \/ Return

\* A call is a future somebody polls and every RPC is answered or fails, so it
\* never stops half-way.  That an RPC succeeds is not assumed.
ScanProgress == (ReadChunk \/ SkipChunk \/ AbortScan) \/ Deliver \/ CallHandler \/ Return

-----------------------------------------------------------------------------
(* Properties *)

InSkipped(b) == \E s \in skipped : s[1] <= b /\ b <= s[2]

\* The blocks of the call's range whose log its filter asks for
Asked == {b \in Lo .. Hi : Matches(call.filter, b)}

\* Types of the scanner's variables.
ScanTypeOK ==
    /\ head \in Blocks /\ cursor \in Blocks
    /\ pc \in {"idle", "scanning", "scanned", "answered", "failed", "panicked"}
    /\ call = NoCall \/ call.asked \in Blocks
    /\ found \in Seq(Blocks)
    /\ skipped \subseteq Blocks \X Blocks

\* However the chunks cut the range and whichever of them fail, the logs come
\* in block order, none twice, none that was not asked for; and what the chain
\* already had when the call was made is missing only where a chunk failed,
\* which under the fail-fast policy never is: "no partial results"
\* (chunked.rs:76).
OnlyFailedChunksAreMissing ==
    pc \in {"scanned", "answered"} =>
        /\ \A i, j \in DOMAIN found : i < j => found[i] < found[j]
        /\ ToSet(found) \subseteq Asked
        /\ \A b \in Asked : b <= call.asked => b \in ToSet(found) \/ InSkipped(b)
        /\ TakesChunkSize(call) => skipped = {}

\* Transfers between the two addresses, as the chain has them
Transfers == {b \in Asked : b <= head /\ Decodes(b)}

\* Their amounts together, as far as a TokenAmount goes
Total(S) == Min({AmountMax, MapThenSumSet(LAMBDA b : LogOf[b].value, S)})

\* An amount or a token set never holds anything the chain does not, and when
\* no chunk failed it holds all the chain had when the call was made: the
\* total, saturated, and every token.  The order of the logs, a log that does
\* not decode and the growth of the chain change nothing else.
AnswerMatchesChain ==
    LET settled == {b \in Transfers : b <= call.asked}
        tokens(S) == {LogOf[b].token : b \in S}
    IN  pc = "answered" =>
          /\ call.api = "transfer_amount" =>
                /\ answer <= Total(Transfers)
                /\ skipped = {} => answer >= Total(settled)
          /\ call.api = "transferred_tokens" =>
                /\ answer \subseteq tokens(Transfers)
                /\ skipped = {} => tokens(settled) \subseteq answer

\* Every call ends, whichever chunks fail and even when its range ends at the
\* last block number: the loop of scan_raw advances on every path.
EveryScanEnds == pc # "idle" ~> pc = "idle"
==============================================================================
