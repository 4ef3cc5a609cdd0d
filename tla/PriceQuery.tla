------------------------------ MODULE PriceQuery ------------------------------
(***************************************************************************)
(* PriceCalculator (src/price/calculator.rs): from the logs of a gap to the *)
(* swaps it adds up, and the token decimals each swap needs                 *)
(* (src/price/decimals.rs, extractor.rs, normalize.rs, aggregator.rs).      *)
(*                                                                         *)
(* The calculator is called through &mut self, so there is one call at a    *)
(* time; but its caches outlive the call, which may fail, lose swaps or be  *)
(* dropped at any await.  RangeQuery is the abstract specification: there a *)
(* gap loses blocks out of the blue, here it loses the swaps whose decimals *)
(* no RPC would give.  A result is the set of the swaps added to it and of  *)
(* those added twice.                                                       *)
(***************************************************************************)
EXTENDS BlockRangeCache, SequencesExt

CONSTANTS
    Usdc,       \* usdc_address
    Tokens,     \* token addresses
    Logs,       \* the router logs of the chain, in order
    ChunkSize,  \* max_block_range of the scan configuration
    Ranges      \* the <<start_block, end_block>> callers ask for

Log == [block : Blocks, index : Nat, in : Tokens, out : Tokens,
        decodes : BOOLEAN, included : BOOLEAN]

ASSUME PriceQueryAssumption ==
    /\ Jobs # {} /\ Jobs \subseteq Tokens /\ Usdc \in Tokens
    /\ Keys = Jobs
    /\ Logs \in Seq(Log)
    /\ \A i, j \in DOMAIN Logs : i < j => /\ Logs[i].block <= Logs[j].block
                                        /\ Logs[i] # Logs[j]
    /\ ChunkSize \in Nat \ {0}
    /\ Ranges \subseteq {r \in Blocks \X Blocks : r[1] <= r[2] /\ r[2] < U64Max}

VARIABLES
    cache,    \* price_cache: entries, their value a set of swaps
    known,    \* the tokens in decimals_cache
    call,     \* which method runs: "none", "price" or "raw"
    pc,       \* where it is
    query,    \* its token and window
    todo,     \* the gaps it has still to scan
    cursor,   \* current_block of its scan
    logs,     \* logs, then what is left of them when swaps have been taken up
    part,     \* aggregator of the current gap; the raw results
    lost,     \* the swaps skipped in the current gap
    acc,      \* price_data
    degraded  \* any_degraded

vars == <<cache, known, call, pc, query, todo, cursor, logs, part, lost, acc, degraded>>

NoQuery == [job |-> CHOOSE j \in Jobs : TRUE, lo |-> 0, hi |-> 0, settled |-> FALSE]

Init ==
    /\ cache = {} /\ known = {}
    /\ call = "none" /\ pc = "idle" /\ query = NoQuery
    /\ todo = {} /\ cursor = 0 /\ logs = <<>>
    /\ part = EmptyAggregate /\ lost = {} /\ acc = EmptyAggregate
    /\ degraded = FALSE

IsNext(g) == g \in todo /\ \A h \in todo : g.at <= h.at

-----------------------------------------------------------------------------
(* From logs to swaps *)

\* extract_swap_from_log and should_include_swap: a log that does not decode, is
\* no swap or is filtered out leaves no trace
IsSwap(log) == log.decodes /\ log.included

\* involves_pair
Involves(swap, token) == {swap.in, swap.out} = {token, Usdc}

\* What the call works on, out of the logs it scanned
IsRelevant(log) == IsSwap(log) /\ (call = "price" => Involves(log, query.job))

\* The swap whose turn it is; the logs before it have been filtered out
IsNextSwap(i) == /\ i \in DOMAIN logs /\ IsRelevant(logs[i])
                 /\ \A j \in 1 .. i - 1 : ~IsRelevant(logs[j])

NoSwapLeft == \A i \in DOMAIN logs : ~IsRelevant(logs[i])

LogsAfter(i) == SubSeq(logs, i + 1, Len(logs))

\* The tokens whose decimals a swap needs, in the order they are looked up
Needs(swap) == IF call = "price" THEN <<query.job, Usdc>> ELSE <<swap.in, swap.out>>

TokensOf(swaps) == UNION {ToSet(Needs(swap)) : swap \in swaps}

-----------------------------------------------------------------------------
(* A call *)

Ask(token, lo, hi, method) ==
    /\ pc = "idle"
    /\ call' = method
    /\ query' = [job |-> token, lo |-> lo, hi |-> hi, settled |-> TRUE]
    /\ UNCHANGED <<cache, known, logs, part, lost, degraded>>

PriceMiss(token, lo, hi) ==
    /\ Ask(token, lo, hi, "price")
    /\ WithinQuery(cache, token, lo, hi) = {}
    /\ todo' = {[at |-> 1, lo |-> lo, hi |-> hi]}
    /\ cursor' = lo /\ pc' = "scan"
    /\ UNCHANGED acc

PriceHit(token, lo, hi) ==
    LET W == WithinQuery(cache, token, lo, hi)
    IN  /\ Ask(token, lo, hi, "price")
        /\ W # {}
        /\ \E pos \in SortedPositions(W) : Gaps(W, lo, hi, pos) = {}
        /\ acc' = MergeEntries(W) /\ pc' = "done"
        /\ UNCHANGED <<todo, cursor>>

PricePartial(token, lo, hi) ==
    LET W == WithinQuery(cache, token, lo, hi)
    IN  /\ Ask(token, lo, hi, "price")
        /\ W # {}
        /\ \E pos \in SortedPositions(W) :
             LET gaps == Gaps(W, lo, hi, pos)
             IN  /\ todo' = gaps
                 /\ \E g \in gaps : (\A h \in gaps : g.at <= h.at) /\ cursor' = g.lo
        /\ acc' = MergeEntries(W) /\ pc' = "scan"

AskPrice == \E token \in Jobs, r \in Ranges :
                \/ PriceMiss(token, r[1], r[2])
                \/ PriceHit(token, r[1], r[2])
                \/ PricePartial(token, r[1], r[2])

\* extract_raw_swaps scans its whole window and leaves the price cache alone
AskRaw == \E r \in Ranges :
    /\ Ask(NoQuery.job, r[1], r[2], "raw")
    /\ todo' = {[at |-> 1, lo |-> r[1], hi |-> r[2]]}
    /\ cursor' = r[1] /\ pc' = "scan"
    /\ UNCHANGED acc

ChunkEnd(from, hi) == Min({from + (ChunkSize - 1), hi})

LogsBefore(b) == Cardinality({i \in DOMAIN Logs : Logs[i].block < b})

LogsIn(from, to) == SubSeq(Logs, LogsBefore(from) + 1, LogsBefore(to + 1))

\* One get_logs of scan_raw
ScanChunk ==
    /\ pc = "scan"
    /\ \E g \in todo :
        /\ IsNext(g) /\ cursor <= g.hi
        /\ logs' = logs \o LogsIn(cursor, ChunkEnd(cursor, g.hi))
        /\ cursor' = ChunkEnd(cursor, g.hi) + 1
    /\ UNCHANGED <<cache, known, call, pc, query, todo, part, lost, acc, degraded>>

\* ensure_decimals asks for all uncached tokens at once; any of them may fail.
\* Nothing is asked when no swap was found or all tokens are known.
EnsureDecimals ==
    /\ pc = "scan" /\ todo # {}
    /\ \A g \in todo : IsNext(g) => cursor > g.hi
    /\ \E fetched \in SUBSET (TokensOf({log \in ToSet(logs) : IsRelevant(log)}) \ known) :
            known' = known \cup fetched
    /\ pc' = "swaps"
    /\ UNCHANGED <<cache, call, query, todo, cursor, logs, part, lost, acc, degraded>>

\* A bug: get_or_fetch returns what it fetched and does not keep it
AddSwapForgetting ==
    /\ pc = "swaps"
    /\ \E i \in DOMAIN logs :
        /\ IsNextSwap(i)
        /\ part' = Merge(part, [seen |-> {logs[i]}, again |-> {}])
        /\ logs' = LogsAfter(i)
    /\ UNCHANGED <<cache, known, call, pc, query, todo, cursor, lost, acc, degraded>>

\* get_or_fetch for each token of the swap in turn; both are there
AddSwap ==
    /\ pc = "swaps"
    /\ \E i \in DOMAIN logs :
        /\ IsNextSwap(i)
        /\ known' = known \cup ToSet(Needs(logs[i]))
        /\ part' = Merge(part, [seen |-> {logs[i]}, again |-> {}])
        /\ logs' = LogsAfter(i)
    /\ UNCHANGED <<cache, call, pc, query, todo, cursor, lost, acc, degraded>>

\* The n-th token of a swap cannot be fetched; what was fetched before it is kept
CannotRead(swap) ==
    \E n \in DOMAIN Needs(swap) :
        /\ Needs(swap)[n] \notin known
        /\ known' = known \cup {Needs(swap)[m] : m \in 1 .. n - 1}

\* A bug: the swap is put off until its decimals can be read
SkipSwapForNow ==
    /\ pc = "swaps"
    /\ \E i \in DOMAIN logs :
        /\ IsNextSwap(i) /\ CannotRead(logs[i])
        /\ logs' = Append(LogsAfter(i), logs[i])
    /\ UNCHANGED <<cache, call, pc, query, todo, cursor, part, lost, acc, degraded>>

\* The swap is skipped
SkipSwap ==
    /\ pc = "swaps"
    /\ \E i \in DOMAIN logs :
        /\ IsNextSwap(i) /\ CannotRead(logs[i])
        /\ lost' = lost \cup {logs[i]}
        /\ logs' = LogsAfter(i)
    /\ UNCHANGED <<cache, call, pc, query, todo, cursor, part, acc, degraded>>

\* A bug: a gap that lost swaps is cached like any other
FinishGapAnyway ==
    /\ call = "price" /\ pc = "swaps" /\ NoSwapLeft
    /\ \E g \in todo :
        /\ IsNext(g)
        /\ cache' = Insert(cache, query.job, g.lo, g.hi, part)
        /\ todo' = todo \ {g}
    /\ cursor' = IF todo' = {} THEN 0 ELSE (CHOOSE h \in todo' : \A k \in todo' : h.at <= k.at).lo
    /\ acc' = Merge(acc, part) /\ part' = EmptyAggregate
    /\ degraded' = (degraded \/ lost # {}) /\ lost' = {}
    /\ pc' = "scan" /\ logs' = <<>>
    /\ UNCHANGED <<known, call, query>>

\* The gap is cached unless it lost a swap, and merged into the result
FinishGap ==
    /\ call = "price" /\ pc = "swaps" /\ NoSwapLeft
    /\ \E g \in todo :
        /\ IsNext(g)
        /\ cache' = IF lost = {} THEN Insert(cache, query.job, g.lo, g.hi, part) ELSE cache
        /\ todo' = todo \ {g}
    /\ cursor' = IF todo' = {} THEN 0 ELSE (CHOOSE h \in todo' : \A k \in todo' : h.at <= k.at).lo
    /\ acc' = Merge(acc, part) /\ part' = EmptyAggregate
    /\ degraded' = (degraded \/ lost # {}) /\ lost' = {}
    /\ pc' = "scan" /\ logs' = <<>>
    /\ UNCHANGED <<known, call, query>>

WriteBack ==
    /\ call = "price" /\ pc = "scan" /\ todo = {}
    /\ cache' = IF degraded THEN cache ELSE Insert(cache, query.job, query.lo, query.hi, acc)
    /\ pc' = "done"
    /\ UNCHANGED <<known, call, query, todo, cursor, logs, part, lost, acc, degraded>>

FinishRaw ==
    /\ call = "raw" /\ pc = "swaps" /\ NoSwapLeft
    /\ pc' = "done"
    /\ UNCHANGED <<cache, known, call, query, todo, cursor, logs, part, lost, acc, degraded>>

\* Whatever ends the call, the two caches keep what is in them
Forget ==
    /\ call' = "none" /\ pc' = "idle" /\ query' = NoQuery
    /\ todo' = {} /\ cursor' = 0 /\ logs' = <<>>
    /\ part' = EmptyAggregate /\ lost' = {} /\ acc' = EmptyAggregate
    /\ degraded' = FALSE
    /\ UNCHANGED <<cache, known>>

Return == pc = "done" /\ Forget

\* A chunk fails, or the future is dropped at an await
GiveUp == pc \in {"scan", "swaps"} /\ todo # {} /\ Forget

Progress == ScanChunk \/ EnsureDecimals \/ AddSwap \/ SkipSwap \/ FinishGap
              \/ WriteBack \/ FinishRaw \/ Return

Next == AskPrice \/ AskRaw \/ Progress \/ GiveUp

\* The call is polled and its RPCs are answered or fail
Spec == Init /\ [][Next]_vars /\ WF_vars(Progress)

-----------------------------------------------------------------------------
(* The refinement *)

\* The swaps of a token in some blocks
SwapsIn(token, blocks) ==
    {log \in ToSet(Logs) : log.block \in blocks /\ IsSwap(log) /\ Involves(log, token)}

SwapsOf(token, b) == SwapsIn(token, {b})

\* A result over the blocks lo .. hi of a token, as RangeQuery has it: a block is
\* in it when all its swaps are, and is in twice when one of them is; a swap
\* from elsewhere brings its block in too.
Cells(token, blocks, seen, again) ==
    [seen |-> {c \in Contributions :
                IF c[1] = token /\ c[2] \in blocks
                THEN SwapsOf(c[1], c[2]) \subseteq seen
                ELSE SwapsOf(c[1], c[2]) \cap seen # {}},
     again |-> {c \in Contributions : SwapsOf(c[1], c[2]) \cap again # {}}]

BlocksOf(gaps) == UNION {g.lo .. g.hi : g \in gaps}

\* What the scan of the current gap holds, in whatever stage
Twice(seq) == {x \in ToSet(seq) : \E i, j \in DOMAIN seq : i # j /\ seq[i] = x /\ seq[j] = x}

ScanCells ==
    Cells(query.job,
          UNION {g.lo .. cursor - 1 : g \in {h \in todo : IsNext(h)}},
          {s \in ToSet(logs) \cup part.seen \cup lost : Involves(s, query.job)},
          {s \in Twice(logs) \cup part.again \cup (ToSet(logs) \cap (part.seen \cup lost)) :
                Involves(s, query.job)})

AccCells == Cells(query.job, (query.lo .. query.hi) \ BlocksOf(todo), acc.seen, acc.again)

\* RangeQuery's view of the state: one caller, which knows nothing of raw calls
ForCaller(value, none) == [t \in {"calculator"} |-> IF call = "price" THEN value ELSE none]

cacheBar == {[e EXCEPT !.value = Cells(e.key, e.lo .. e.hi, @.seen, @.again)] : e \in cache}
pcBar == ForCaller(IF pc = "done" THEN "done" ELSE "busy", "idle")
queryBar == ForCaller(query, NoQuery)
todoBar == ForCaller(todo, {})
cursorBar == ForCaller(cursor, 0)
partBar == ForCaller(ScanCells, EmptyAggregate)
accBar == ForCaller(AccCells, EmptyAggregate)
degradedBar == ForCaller(degraded, FALSE)

Abstract == INSTANCE RangeQuery WITH
    Tasks <- {"calculator"},
    KeyOf <- [token \in Jobs |-> token],
    FirstHead <- U64Max, head <- U64Max,
    PastHead <- FALSE, Degradable <- TRUE,
    ClearedKeys <- {}, ClearedBelow <- {},
    cache <- cacheBar, pc <- pcBar, query <- queryBar, todo <- todoBar, cursor <- cursorBar,
    part <- partBar, acc <- accBar, degraded <- degradedBar

-----------------------------------------------------------------------------
(* Properties *)

\* The price calculator is a RangeQuery: a call that loses swaps only ever loses
\* them from its own answer, a cached range always holds every swap of it, none
\* twice, and what is proved of RangeQuery holds of prices.
IsRangeQuery == Abstract!Spec

\* Decimals that were read once are never missing again: no swap is skipped, by
\* any later call, when a swap of the same tokens has been added before and is
\* still in a result.
NeverLostOnceCounted ==
    [][\A s \in lost' \ lost, r \in {part, acc} \cup {e.value : e \in cache} :
            \A c \in r.seen : {c.in, c.out} # {s.in, s.out}]_vars

\* A call returns, whatever the tokens do.
EveryCallReturns == pc # "idle" ~> pc = "idle"

\* What calculator.rs:470 says of extract_raw_swaps: its result is "containing
\* each swap".
RawIsWhole ==
    call = "raw" /\ pc = "done" =>
        part.seen = {log \in ToSet(Logs) : log.block \in query.lo .. query.hi /\ IsSwap(log)}
==============================================================================
