# semioscan in TLA+

Modules, TLC configurations and TLAPS proofs about the library in `src/`
(semioscan: gas costs, token prices, combined transfer data and block windows
of EVM chains, read over JSON-RPC and cached). Paths below are relative to
`src/src/`.

## How to run

```
tlc -workers 2 -config GasQuery.cfg GasQueryMC            # any run of the tables below
tlapm RangeQuery_proofs.tla                               # a module of proofs (minutes, from nothing)
```

`PROJECT.json` lists the runs, the lines each definition models, a mutant for
each property (a plausible bug that the run must catch), the findings, the
hazards and the theorems. Definitions commented `A bug:` are those mutants; the
specifications do not use them.

## The system

semioscan is a library. An application holds a few long-lived objects, shares
them behind `Arc`s, and calls them from as many tokio tasks as it likes; every
call awaits RPCs, each of which may fail, and its future may be dropped at any
await. Nothing is locked across two calls, and what the calls share is caches.

| component | state it keeps | operations | what is hard | what makes it correct |
|---|---|---|---|---|
| block range cache `cache/block_range.rs` | entries: key, first and last block, an aggregate | find_overlapping, insert, find_within_query, calculate_gaps, retain, clear | insert with every kind of overlap; the gap walk at both ends of u64; entries in HashMap order | ranges of a key never overlap; gaps are exactly what no entry inside the window covers |
| gas calculator `gas/core.rs`, `gas/cache.rs` | an `Arc<Mutex<GasCache>>` | calculate_gas_cost_*, clear_signer_data, clear_old_blocks | the lock is dropped between gap computation and insert; failures half-way; every sum saturates | answers and cached entries are the exact sum over their blocks, nothing twice, nothing missing; the breakdown adds up to the total |
| price calculator `price/calculator.rs`, `price/cache.rs` | the same for tokens, and a decimals cache | calculate_price_between_blocks, extract_raw_swaps | swaps whose decimals cannot be fetched degrade a gap | a degraded sum is returned, never cached |
| log scanner `scan/logs.rs` | none; its chunk cursor | scan_raw | the chunk loop at u64::MAX, one policy that aborts and one that goes on | every block is in one chunk |
| block window calculator `blocks/window.rs` | genesis cell, head memo with TTL and mutex, a window cache | get_daily_window, block_range_for_timestamps | the head is stale, lacks its timestamp, grows, is reorganised; binary search borders | a persisted window is the day and stays so |
| disk cache `blocks/cache/disk.rs` | a JSON file shared by processes | get, insert, clear | advisory locks, load-change-write-rename, crashes, read errors, eviction | the file is always whole, no insert undoes another |
| memory cache `blocks/cache/memory.rs` | a map behind a mutex, statistics | get, insert, clear, stats | TTL removal inside get, LRU order by clock and sequence, limits | the limit, LRU order, exact statistics |
| event scanners `events/*.rs` | none | scan, scan_range, scan_with_handler, fetch_logs_chunked, transfer amounts, token discovery | failed chunks are skipped by some and end the scan in others; the chain grows | what is missing lies in a failed chunk |
| realtime `events/realtime.rs` | subscriptions | subscribe_logs_with_catchup | history and live stream are two requests | order, no duplicates, nothing lost but between the two |
| transport `transport/*.rs` | a token bucket; attempt counters | tower `call` | all callers share the bucket and sleep outside its lock | bounded rate, bounded retries, everyone is served |
| provider pool `provider/pool.rs`, `factory.rs` | a map from chain to provider; the builder's fields | the builder, add, get, get_or_add, remove, clear | check and act under separate locks; limits come from five places | a provider has the limits it was promised; get_or_add replaces none that was there |
| combined retrieval `retrieval/*.rs` | none; the result under construction | batch, serial fallback, bookkeeping | every log fails, recovers or is skipped on its own | each log is counted once, in one place |
| decimals and price extraction `price/decimals.rs`, `extractor.rs`, ... | token decimals | get_or_fetch, ensure_decimals | partial failure of a batch | a failure is retried and marks the gap |
| arithmetic and value types `types/`, `gas/blob.rs`, `retrieval/utils.rs` | none | | | unit tests reach it |
| configuration, errors, tracing, filters | none | | | no behaviour over time |

How they interact: the calculators call the log scanner, which calls the
provider through the transport layers; the gas and price calculators share the
block range cache's code and their own instance of it; the block window
calculator uses whichever `BlockWindowCache` it was given (disk, memory, none);
the pool hands providers to whoever builds a calculator.

## Modules

| module | models | kind |
|---|---|---|
| `BlockRangeCache` | the range cache: Insert, Gaps, WithinQuery, ... as operators over a set of entries | operators |
| `RangeQuery` | concurrent calls over one range cache, with the log scanner's chunk loop: what gas and price queries have in common | machine |
| `RangeQueryMC` | instances on the limits of what holds | TLC |
| `BlockRangeCache_proofs` | lemmas about the operators of the cache, for the next and `PriceQuery_proofs`; about sums, for the next and `Scans_proofs` | TLAPS |
| `RangeQuery_proofs` | that cached ranges and answers are exact, and what `GasQuery` charges for them | TLAPS |
| `GasQuery`, `GasQueryMC` | `RangeQuery` with the gas calculator's amounts | machine, TLC |
| `PriceQuery`, `PriceQueryMC` | the price calculator from log to swap to sum, shown to implement `RangeQuery` | machine, TLC |
| `PriceQuery_proofs` | that refinement, exact prices, and that decimals stay read | TLAPS |
| `EventScan` | the public log readers: chunk loop, bounds, error policies, what they make of the logs | machine |
| `LiveFeed`, `LiveFeedMC` | the subscriptions, next to `EventScan` on one chain | machine, TLC |
| `LogOrder` | the order of a node's logs, and filtering a list of them, for `EventScan` and `CombinedRetrieval` | operators |
| `BlockWindow`, `BlockWindowMC` | the block window calculator | machine, TLC |
| `BlockWindow_proofs` | that searches, answers and persisted windows are right | TLAPS |
| `BlockWindowCache` | what the cache trait promises | abstract machine |
| `DiskCache`, `DiskCacheMC` | the disk cache, shown to implement `BlockWindowCache` | machine, TLC |
| `MemoryCache`, `MemoryCacheMC` | the memory cache, shown to implement `BlockWindowCache` | machine, TLC |
| `DiskCache_proofs`, `MemoryCache_proofs` | what each cache keeps, and both refinements | TLAPS |
| `CombinedRetrieval`, `CombinedRetrievalMC` | one call of the combined calculator, from scan to metadata | machine, TLC |
| `Scans_proofs` | what scans and feeds deliver, what a total amounts to, and that the retrieval accounts for each log once | TLAPS |
| `ProviderPool`, `ProviderPoolMC` | the pool's builder, the client factory's rules, and the shared pool | machine, TLC |
| `RateLimit` | the token bucket and its callers | machine |
| `Retry`, `RetryMC` | the retry layer over `RateLimit`, shown to implement it | machine, TLC |
| `Transport_proofs` | that the bucket bounds the rate, with retries too, and the refinement; the pool's limits as promised, what get_or_add may do | TLAPS |

### RangeQuery over BlockRangeCache

`cache` is the calculator's `Arc<Mutex<..>>` contents. One action is one
critical section of that mutex or one RPC: `Lookup` (lock, calculate_gaps,
unlock, in its three outcomes: no entry inside the window, entries that tile
it, entries that leave gaps), `ScanChunk` (one `get_logs` of `scan_raw`, with
its cursor arithmetic), `FinishGap` (lock, insert the gap, unlock, merge),
`DegradeGap` (price only: the gap is merged but not inserted), `WriteBack`
(lock, insert the whole window unless degraded), `ScanFails` (the `?` of a
chunk, decode or receipt error), `Return`. `ClearSignerData`, `ClearOldBlocks`
and `NewBlock` come from outside at any time. `Degradable` and the Clear sets turn
what only one of the calculators does on and off. The calls' locals are the other
variables: `todo` the gap list, `cursor` current_block, `part` gap_result,
`acc` the result, `degraded` any_degraded.

The aggregates are sums of U256s. The properties ask whether a block's
contribution is in a sum and whether it is in twice, so an aggregate is the
pair of those two sets (`seen`, `again`); `Merge` adds them as the code adds the
totals. A *job* is everything the question says (chain, token, event, from,
to); the *key* is what the cache keys it by. That the two differ in the gas
cache is finding `shared_key`.

`Gaps` is the loop of calculate_gaps in closed form: `Current(W, lo, pos, i)` is
`current` when the loop reaches position i, which is the maximum of the
start and of what follows each earlier entry. `pos` ranges over every order
a stable sort by start can leave.

### GasQuery

`GasQuery` puts the code's amounts next to the sets of `RangeQuery`: `accBill` is a
call's GasCostResult, `entryBill` the one in each cache entry. Each action is the
one of `RangeQuery` with what it does to the bills; a bill is built by
`AddTransaction` from the transactions of a gap's logs, by `MergeBill` from cached
entries, and every sum and product saturates at `WeiMax`. `GasForTx` keeps
what process_event_log passes on: gas, effective price, L1 fee. `BillIsTheSum`
then compares, in every state, what is charged with the exact sum over the
blocks the result stands for, cut at `WeiMax`, in total and in each part.

### PriceQuery

The calculator is called through `&mut self`, so there is one call at a time; what
outlives it are `cache` and `known`, the decimals cache. A call scans a gap
(`ScanChunk`), asks for the decimals of all tokens at once, of which any may come
back (`EnsureDecimals`), and takes up the swaps one by one: `AddSwap` when its
get_or_fetch calls succeed, `SkipSwap` when the i-th fails. A swap's two lookups are
one action, since nobody else runs between them and a failure is told apart by i.
`FinishGap` caches the gap unless `lost` holds a swap of it; `WriteBack` caches the
window unless a gap was degraded. extract_raw_swaps (`AskRaw`, `FinishRaw`) shares
the decimals and leaves the price cache alone.

`IsRangeQuery` maps it to `RangeQuery` with one caller and `Degradable`: a block is
in a result when all its swaps are, twice when one of them is. `RangeQuery`'s
`DegradeGap` is thereby given its meaning, and its theorems hold of prices.

### EventScan and LiveFeed

`EventScan` is one call of any of the eight readers. They share the loop
(`ReadChunk`, `SkipChunk`, `AbortScan`, with `Advance` at the last block number) and
differ in the range they accept (`IsFiniteRange`), in where the chunk size comes
from (`Override`; zero is a panic in one and an error in the other), in whether a
failed chunk ends the scan (`AbortsOnError`), and in their `Answer`. `head` grows
during the scan, so a chunk holds what the chain has when it is read.

`LiveFeed` extends it with the subscriptions. subscribe_logs_with_catchup is two
RPCs, `FetchHistory` and `GoLive`, with `NewBlock` in between; `stream` is the chained
stream, `got` what the consumer has taken. `reads` records the head at the two
RPCs, so that a property can name the blocks of the handover. The live filter is
made from the caller's template and has no first block, so a catch-up from a block
the chain has not reached delivers what comes before that block too; `Covers` says
so, and the run asks for such a feed.

The live logs wait in `stream`, which has no bound. Alloy's pubsub, which the
subscription comes from, keeps them in a channel of bounded size, and the chained
stream does not poll it before the history is consumed: a consumer slow enough for
the channel to overflow may lose live logs too. `OnlyTheHandoverIsLost` is therefore
about a consumer that keeps up with that channel. The overflow is the library's
(external code); nothing under src/ sets the channel's size or asks what it dropped.

### ProviderPool

First the builder: `Set` is one call on it, in any order, `Build` the loop of build()
with its first error or panic (`FirstBad`), by the checks of create_pooled_provider and
the factory in their order: with_min_delay's assertion that a delay is not zero
(`DelayIsZero`) comes before the URL is parsed, then two limits are refused
(`IsRefused`), then per_second(0) panics (`PanicsIn`). A delay of zero may be an
endpoint's own, in a public field, or what a policy answers.
`setters` is a history variable from which `Promised` says, independently of the
builder's fields, what each endpoint should end up with. Then the pool: each
access of the RwLock is one action, so get_or_add is `GetOrAdd`, `Create`, `Insert`,
`GetAgain`. A provider is its limits and the number of its insertion, which stands
for the Arc's identity. `missed_at` and `emptied` note what others did meanwhile.

### BlockWindow

One action is one header fetch, one probe of a binary search, or one cache
insert, with what the code does until its next await. `memo` and `holder` are
ChainBoundsMemo's head and its tokio mutex, which is held across the fetch;
`genesis` is the OnceCell; `bound` is what the call took from the memo;
`search` is lo, hi, result of find_first_at_or_after_with and
find_last_at_or_before_with. `store` is the window cache as `BlockWindowCache`
allows it: `Persist` may fail, `Evict` may lose anything at any time. The
environment appends blocks, lets the memo's TTL elapse, and replaces up to
`ReorgDepth` last blocks.

### BlockWindowCache, DiskCache, MemoryCache

`BlockWindowCache` is the trait's promise: a get answers with what was last
inserted under its key or with nothing, entries may be lost at any time, and
appear only through an insert in flight, at one instant between its call and
its return. Both caches are checked to implement it (`IsBlockWindowCache`, with
`held`, `got` and `asked` as the refinement mapping).

`DiskCache` takes get, insert and clear apart at every file operation: take the
lock, read and parse, truncate the temporary file, fill it, rename it. `Stop`
ends a call at any of these points, by an I/O error or the death of its
process, which releases the advisory lock and leaves the temporary file. A
file is whole, garbled or absent; its JSON is not modelled. An open temporary
file is followed by its name, which is exact except while two stems collide,
where it is one of the possible outcomes.

`MemoryCache` runs under one mutex. Only the eviction loop of insert takes more
than one step, so that its termination can be asked about. `maxEntries` is chosen
once, in `Init`, among `Limits`: with 0, which with_max_entries takes, the loop has
nothing to evict and never ends, the mutex held. `used` is a history
variable: the keys by last use, against which the clock-based eviction order is
judged. `gets` counts the gets, against which the statistics are judged.
`RecordSkipInsert` is what the block window calculator reports when it does not
cache a window.

### CombinedRetrieval

One action is the answer to one RPC with what the call does until it waits for
the next: a chunk of the scan, a typed or raw transaction lookup, a receipt
lookup. `tx` and `receipt` are the two halves of each enrich_one's join; in the
batch they answer in any order, in the fallback one log is asked about at a
time. `queue` is batch_failures, of which the head is what retry_failed works
on, with `tries` its attempts. A log is a number in chain order; the totals are
the list of logs they were summed over. Logs that do not decode, or lack a hash
or a number, are outside `Readable`.

### RateLimit and Retry

Time is in nanoseconds, as in the code. Tokens are counted in parts of a period,
so a nanosecond brings a whole number of them and the model's bucket is exact,
where the code's f64 is rounded. `Acquire` and `Sleep` are the two outcomes of
try_acquire under the mutex; between `Sleep` and `Wake` the call holds nothing.
`since` is capped at a period, after which the bucket is full whatever it held.
`age` and `seen` are an observer: `Observe` starts a count at any moment, so
`RateIsBounded` speaks of every stretch of time up to `MaxAge`.

`Retry` adds the layer above: `attempt`, the order in which the kind of an error
and the count are tested (`IsRetryable` sorts the error's variants), the backoff
in whole milliseconds. It is shown to
implement `RateLimit` (`RetriesArePaced`), where a call that backs off is not
calling: with the layers in the order the documentation recommends a retry
takes a token like any request.

## Runs that pass

| run | bounds | shows |
|---|---|---|
| `gas_concurrent` | 2 calls, 1 key, 4 blocks, chunks of 2, both clears, amounts up to 6 | in every interleaving ranges stay disjoint, nothing is counted twice, cached entries and answers are exact and charge exactly their blocks, coverage is never undone |
| `price` | 2 tokens, 3 blocks with 7 logs of all kinds, chunks of 2, any decimals request fails | the calculator is a RangeQuery: a degraded result is never cached, as a gap or inside a window; decimals that were read stay; every call returns |
| `events` | 17 calls of 8 readers, 5 blocks up to the last block number, 4 subscriptions, one of them from a future block | logs come once, in order, and are missing only in failed chunks; amounts and token sets match the chain; a stream loses only the handover; every scan ends |
| `window_shared` | a daily and a range call, 2 days, a growing chain, memo with and without timestamps | what is persisted is the day, whole, and never changes; answers are what a linear search gives; the memo never goes back |
| `window_reorging` | 2 daily calls, reorgs of up to 2 blocks, failures, drops | every call returns |
| `disk_shared` | 2 instances on one file, one with read errors, room for 2 of 3 keys, TTL, clock set back | the file is whole, an insert that could read undoes no other, the file is a BlockWindowCache |
| `memory_lru` | room for none, 1 or 2 of 3 keys, TTL, equal milliseconds, clock set back | the limit, LRU eviction while the clock does not go back, an insert ends if the limit is above 0 and never if it is 0, BlockWindowCache |
| `pool` | builders of up to 4 calls out of 12, 2 tasks, 2 chains, up to 4 inserts | each provider has the limits it was promised; a build fails or panics only over an endpoint that was promised what cannot be kept, and each such endpoint makes it; get_or_add fails only if its chain was emptied and replaces only what was added while it ran |
| `retrieval` | 4 logs of which 2 are readable, windows of up to 4 blocks in chunks of 2, 2 serial attempts, the raw lookup | every readable log is in the totals or among the failures, once; counters and histories agree; the fallback is serial; the call returns |
| `retry_paced` | 2 callers with 2 calls each, 2 requests in 3 ns, 1 retry | the rate over any stretch of time, transient failures use up their attempts, nobody waits for ever, the layers together are a RateLimit |

Why the bounds are enough to mean something: two calls are enough for every
lost update, since each step reads what one other wrote; three or four blocks
hold two cached entries with a gap before, between or after them, and a gap of
more than one chunk; two days share a border block; one key too many exercises
every eviction; two failures make a queue; a rate that does not divide the
period makes waits that are cut short; amounts that exceed the largest number
together and not apart saturate in some orders of merging and not in others; a
builder of four calls can have an endpoint between two policies and another
after them. Each property has a mutant that the same bounds catch.

## Runs that find a violation

Each contradicts a sentence of the repository, quoted in `findings`.

| run | what happens |
|---|---|
| `shared_key` | the gas cache key is (from, to): gas for token B is answered with token A's |
| `blobs_charged` | the cost of a transaction's blobs is computed and logged, and is not in the total that is documented to include it |

Further configurations whose counterexamples mark the limits of what holds; they
are not among the runs, and the runs above exclude the case. Where one names
several properties, `tlc -continue` shows each violated, or check them one by one:

| configuration | property | what happens |
|---|---|---|
| `RangeQueryInverted.cfg` | NeverDoubleCounted | a window with start > end is cached and later splits a gap into two overlapping ones |
| `RangeQueryLastBlock.cfg` | NeverDoubleCounted | range_end + 1 wraps at u64::MAX, covered blocks are scanned and added again |
| `RangeQueryPastHead.cfg` | AnswerIsWhole | blocks that do not exist yet are cached as scanned |
| `PriceQueryRaw.cfg` | RawIsWhole | a raw swap whose decimals cannot be read is dropped, where calculator.rs:470 promises each swap |
| `LiveFeedHandover.cfg` | NothingIsLost | a block between the history and the live subscription is in neither, where realtime.rs:246 promises a seamless transition |
| `BlockWindowReorged.cfg` | PersistedIsFinal | a day found to be over by a tip that is then replaced is persisted truncated |
| `BlockWindowPreGenesis.cfg` | PersistedIsTheDay | a day before the chain began is block 0, and is persisted |
| `DiskCacheInserts.cfg` | NewEntryStays | at the limit, the second insert of one millisecond evicts itself |
| `DiskCacheInserts.cfg` | KeepsTheRest | an insert whose load fails writes a file with its own entry only |
| `DiskCacheSameStem.cfg` | FileIsWhole | cache.json and cache.bak share a temporary file but not a lock |
| `MemoryCacheDrift.cfg` | EveryGetCountsOnce | a get of an expired entry counts two misses |
| `MemoryCacheDrift.cfg` | EntriesIsCurrent | stats.entries keeps counting an expired entry |
| `MemoryCacheDrift.cfg` | EvictsLruUnderAnyClock | after the clock is set back, the most recent entry is evicted |
| `RetryLimited.cfg` | TransientIsRetried | a rate-limit error inside a JSON-RPC response is returned at once |
| `CombinedRetrievalGas.cfg` | GasOnce | a transaction with two matching transfers has its gas added twice |

`AddsOnlyIfAbsent` of `ProviderPool` is what pool.rs:250 says of get_or_add, "add it
if not present"; two callers that look together break it, and what does hold is
`ReplacesOnlyNewcomers`.

## Fairness

- `RangeQuery`: WF of `Progress(t)`. A started call is a tokio task: it is
  polled when its RPC is answered, and an RPC is answered or fails. Nothing
  makes a caller ask, and nothing makes a scan fail.
- `BlockWindow`: WF of `Progress(t)` for the same reason, and SF of
  `Acquire(t)`: tokio's mutex is a FIFO queue, so a waiting call gets it although
  it is taken and released by others in between. The head TTL may elapse again
  and again, which is why WF would not do.
- `MemoryCache`: WF of `Insert(c)`: an insert has no await between taking the
  mutex and releasing it.
- `CombinedRetrieval`: WF of `Progress`: every RPC is answered or fails, and the
  task is polled. Lookups may fail at every attempt; the attempts are bounded.
- `Retry`: WF of each call's `Progress` and of `Tick`. The runtime polls the
  call when its sleep is over, requests are answered, and time passes. The
  callers make a bounded number of calls (`MaxCalls`): if others called without
  end, nothing in the code would keep one caller from being overtaken for ever.
- `PriceQuery`: WF of `Progress`, as for `RangeQuery`. That a request for decimals
  ever succeeds is not assumed.
- `EventScan`, `LiveFeed`: WF of `ScanProgress`, the disjunction of a scan's steps.
  Chunks may fail one after the other; nothing makes a subscription's consumer
  read.
- `DiskCache` and `ProviderPool` claim no liveness: file locks are not queues, and
  the pool's methods do not wait for each other beyond the RwLock.

## What is proved

The proofs are of the specifications themselves, for every value of the constants
that satisfies the assumptions in their modules. Those assumptions say what the
types of the code say: limits are naturals, the callers' arguments are records of
the right fields, a chain's logs are finitely many, a cache has some key. What a
theorem assumes beyond that stands in its ASSUME, and is listed here with the
counterexample that makes it necessary.

Each proof has the same shape: an inductive invariant, one lemma or step per action,
then the property from the invariant. The properties are checked by TLC in the runs
as well, so that none of them is proved of a system without interesting states.

### Range queries (`BlockRangeCache_proofs`, `RangeQuery_proofs`)

- `TypeCorrect`, `Disjointness`, `CoverageGrows`: TypeOK, RangesDisjoint and
  CoverageOnlyGrows, with no assumption on the windows.
- `NothingCountedTwice`: NeverDoubleCounted, if windows are in order and end
  before u64::MAX (`ProperQueries`). Without it `RangeQueryInverted.cfg` and
  `RangeQueryLastBlock.cfg` are counterexamples, so the assumption is needed.
- `CacheIsExact`, `AnswersAreExact`: CachedIsWhole and AnswerIsWhole, if also no
  two jobs share a key (`KeyDeterminesJob`; counterexample `shared_key`) and
  nobody asks past the head (`~PastHead`; counterexample
  `RangeQueryPastHead.cfg`).
- `NothingElse`: OnlyWhatWasAsked under ProperQueries and KeyDeterminesJob.

Exactness is not inductive: a gap is inserted long after it was
computed, and by then the cache is another. What is inductive is local to a
call. `Counted` says that an entry holds only contributions of its own range,
each once, and that a call has merged only blocks of its window outside its
remaining gaps, which lie apart from each other, and has scanned only
blocks of the current gap before its cursor. So a merge never meets a block
twice, whatever the others did to the cache meanwhile: the call works on its
own snapshot. `Complete` says the converse, that nothing of an entry's range
and nothing of the window outside the remaining gaps is missing. Together they
give equality with the reference `Whole`.

`BlockRangeCache_proofs` holds the lemmas about the cache's operators. The main ones:
`GapsAreUncovered`, `GapsAreApart` and `GapsAreExhaustive` say that the walk's gaps
hold no block of an entry, do not overlap, and with the entries make up the
window; `InsertKeepsDisjoint` and `InsertKeepsCoverage` are what an insert may
rely on.

### Gas bills (`RangeQuery_proofs`)

- `GasIsRangeQuery`: a behavior of `GasQuery` is one of `RangeQuery`, so that the
  theorems above hold of it.
- `BillsAreSums`: BillIsTheSum, for every chain of transactions, any prices and fees
  and any `WeiMax`, if windows are in order and end before u64::MAX (`ProperQueries`,
  as for NothingCountedTwice: a result that stands for a block twice charges it
  twice).

`Billed` is the inductive invariant: every result, of a call or in the cache, is
`BillFor(S)`, where S are the blocks `RangeQuery` says it stands for and each amount
of `BillFor(S)` is the exact sum over S, cut at `WeiMax`. It needs `Counted` beside
it, which says that what is merged never stands for a block of both. The
argument has three parts. Cutting commutes with adding, so that a sum that
saturated on the way is still the cut of the exact one (`BillAdds`). The loop over the logs
of a gap and the merge of entries in any order come to `BillFor` (`BillOfOneMore`,
`BillOfIs`, `BillOfEntriesIs`). And what `BillFor` charges is what the property asks for,
the breakdown adding up to the total included (`TotalIsBoth`, `BillCharges`).

### Sums (`BlockRangeCache_proofs`)

What a fold computes is an induction over data, and the library's induction theorems
are out of the provers' reach. The lemmas on sums do without them. `SumExists`
builds the function that MapThenSumSet chooses from the sums over the smaller sets;
`SumsAgree` says it is the only one; `SumAdds`, `SumOfUnion`, `SumGrows` and `SumOfTwo` are
what the proofs use. Each takes a counterexample of the least size, which exists
since the naturals are well founded (`SetMin`), and shows that there is a smaller one. The
loops of the models, over logs and blocks, are recursive functions, about which the
proofs argue in the same way: a least index at which the loop is not the sum.

### Prices (`PriceQuery_proofs`)

- `PriceIsRangeQuery`: IsRangeQuery, the refinement of `RangeQuery`, for any chain,
  any tokens, windows and chunk size. Since no two jobs share a key there and nobody
  is past the head (a price call's `head` is U64Max), the conditions of the theorems
  about `RangeQuery` are met.
- `CachedPricesAreExact`, `PriceAnswerIsExact`: a cached range holds every swap of its
  token, once, and nothing else; so does the answer of a call that lost none.
- `DecimalsStayRead`: NeverLostOnceCounted.

The windows are in order and end before u64::MAX (`PriceQueryAssumption`), as
`RangeQueryInverted.cfg` and `RangeQueryLastBlock.cfg` show they must be.

`PriceInv` is the inductive invariant. `CacheInv` says of the cache, whoever calls, that
its ranges are disjoint and exact. `PriceCall` says of a call that its gaps lie in the
window, apart from each other (`GapsFit`), and that its result holds swaps of the
blocks it is through with, each once, and all of them unless it is degraded
(`Holds`). Within a gap, `ScanInv` says which logs have been read and `SwapsInv` that each
swap of the gap is still to come, added or lost, and only one of the three.
From it follows what `RangeQuery` sees of a state (`AllSeen`): of the cache
and of a result, pairs of a token and a block (`cacheBar`, `accBar`); of the gap, the
blocks before the cursor. The two lemmas everything rests on are `CellsOfPrices`
and its like, which turn a set of swaps into the set of their blocks, and those
on the insert, which show that replacing entries and turning them into blocks
commute (`BlockRangeCache_proofs` has what both sides need). Then each step is one
of `RangeQuery`: EnsureDecimals, AddSwap and SkipSwap change nothing it sees; FinishGap is its
FinishGap, or its DegradeGap when a swap was lost; what a raw call does is a stutter.

The proof made two changes to the model: tokens and logs became CONSTANTS, and the logs
a call works on stay in one list through decode and filter, so that the index of the
next swap (`IsNextSwap`) can be reasoned about.

### Rate limit and retries (`Transport_proofs`)

- `BucketIsConserved`, `Rate`, `RetryRate`: the bucket stays between empty and full,
  and RateIsBounded, of the rate limiter alone and under the retry layer.
- `TransientFailuresAreRetried`: TransientIsRetried, if no error hides in a
  successful response (`"limited" \notin Replies`; counterexample
  `RetryLimited.cfg`).
- `RetryImplementsRateLimit`: RetriesArePaced, the refinement of `RateLimit`.

RateIsBounded alone is not inductive: it does not say what is left in the
bucket. `Conserved` does: what was sent since the count began and what could be
sent now are together at most a full bucket and what has come since. Acquiring
moves a token from the second to the first, a nanosecond adds as much to both
sides or less, and a new count starts with a bucket that is at most full. The
only nonlinear arithmetic is distributing a product over + 1, which each step
does in a leaf of its own. For the retries, `SendsMatchAttempts` ties the number
of requests of a call to its attempt counter, at each point between the two
places where the code compares and increments it.

### Provider pool (`Transport_proofs`)

- `PoolsAreBuiltAsConfigured`: BuiltAsConfigured, for any sequence of builder calls,
  endpoints and policies, delays and budgets of zero included. A pool is built only
  if every endpoint, also one that a later endpoint of its chain replaces, was
  promised limits that can be kept; an error is over two limits or a URL, a panic
  over a delay of zero, or over a budget of zero where neither error came first.
- `GetOrAddFailsOnlyIfEmptied`, `GetOrAddReplacesOnlyNewcomers`, for any number of
  tasks.

`BuilderAsTold` says of the builder, after any prefix of its calls, what each
endpoint and each pending policy delay owes to the last call that concerned it:
`Promised` looks back over the calls, the builder only holds what the last left. Its
part `EndpointsAsTold` goes both ways, so that no endpoint of the calls is missing from
the loop of build().
For the shared pool, `InsertedIsThere` says that once a task has inserted, its chain
has a provider, the task's own or a newer one, unless `emptied` notes that a remove
or a clear came between; `OnlyNewcomers` that what it may
replace carries a later number than the one it noted when it missed.

### Window caches (`DiskCache_proofs`, `MemoryCache_proofs`)

- `FilesAreWhole`, `InsertsLoseNothing`, `DiskImplementsBlockWindowCache`: FileIsWhole,
  SoundInsertsKeepTheRest and IsBlockWindowCache of the disk cache, if files have a
  temporary file each (`TempsAreApart`; counterexample `DiskCacheSameStem.cfg`).
- `MapStaysWithinLimit`, `EvictionIsLru`, `MemoryImplementsBlockWindowCache`:
  NeverOverLimit, EvictsLeastRecentlyUsed and IsBlockWindowCache of the memory cache.

On disk, `WriterIsAlone` is what the lock gives: while a call writes, no other call
on its file is under way. Hence what it loaded is still the file (`DataIsUpdate`,
`DataKeepsTheRest`), and what it renames is what it filled (`TempIsFilled`). That
evict_oldest leaves as many as fit needs its order to be total on what is there,
also with equal creation times (`OlderIsTotal`, `NewestStay`). In memory,
`SeqsAreInOrder` says that `used`, the order of use that no clock touches, is the
order of the access sequence numbers; while the clock does not go back, the
pair (accessed, seq) therefore has its least element at the head of `used`.
In both refinements an eviction, an expiry and an unreadable file are the abstract
cache's loss, and the one step that makes the new entry visible is its insert.

### Block windows (`BlockWindow_proofs`)

- `SearchesStayOnTheChain`: TypeOK, over any chain, reorganised or not.
- `AnswersAreExact`, `PersistedWindowsAreFinal`, `PersistedWindowsNeverChange`:
  AnswerIsExact, PersistedIsFinal and PersistedNeverChanges, on a chain whose
  timestamps do not go back and whose blocks stay (`ChainIsFinal`). Consensus rules
  give the first; `BlockWindowReorged.cfg` shows the second is needed.
- `HeadIsNeverOlder`: HeadNeverGoesBack, if blocks stay.

`FirstLoop` and `LastLoop` are the invariants of the two binary searches: all blocks
below lo are before the target, all above hi are not, and the result is the best
block seen. Another block or another call's refresh cannot disturb them, because a
call searches up to the head it took (`OnChain`, `Grown`). `Knows` has one clause per
point of the call and says what it may rely on there, up to the short-circuits for
days before and after the chain; `StoreIsExact` is what a call that is about to
persist knows already. For the head, `HeadInv` says that whoever is fetching holds
the mutex, so that no late answer overtakes another.

### Scans and subscriptions (`Scans_proofs`)

- `ScansMissOnlyFailedChunks`, `FeedsLoseOnlyTheHandover`: OnlyFailedChunksAreMissing
  and OnlyTheHandoverIsLost, with no assumption on the chain, the calls or the feeds;
  `LiveFeedTypes` adds that the cursor stays a block number.
- `AnswersMatchTheChain`: AnswerMatchesChain, for every chain and every
  `AmountMax` the chain's amounts do not exceed (a log's value is a U256).

`ScanInv` is the loop invariant of scan_raw: what was found lies before the cursor,
and what was asked for and lies before the cursor is found or in a skipped chunk
(`ScannedUpTo`). Both ends of the loop, past hi and at u64::MAX, leave it true of the
whole range. `FeedInv` says what the stream holds after each of the two RPCs. The
attempt to prove the second theorem found that the property had been too
strong for a catch-up from a future block (see EventScan and LiveFeed above).

An answer is what its reader makes of the logs found, and `AmountIsTotal` says of
AmountOf that it is their total, cut at `AmountMax`; the rest is monotonicity: logs
found are logs of the chain, and when no chunk failed all that were settled are found
(`TotalGrows`). The token reader drops events to another receiver than its router, so
that its answer is complete only because its filter always asks for that receiver; the
proof needed this said, and `EventScanAssumption` now says it.

### Combined retrieval (`Scans_proofs`)

- `LogsAreAccountedOnce`, `MetadataAgree`, `HistoriesAreWhole`, `FallbackIsSequential`:
  AccountedOnce, CountersAgree, HistoryIsWhole and OneAtATime, for any logs, chunk
  size and number of attempts; `RetrievalTypeCorrect` the types.

The relation all of it rests on is `Lists(list, S)`: the list holds all of S, each
once. Concatenating, filtering, appending and taking the head keep it
(`ConcatLists`, `OnlyLists`, `AppendLists`, `TailLists`), so each step only moves a log
from one list to another: from a chunk to the entries, from the batch to the totals
or the queue, from the queue to the totals or the failures.

## What is only model-checked

- Liveness, which is out of the prover's reach: `EveryCallReturns`,
  `InsertEndsIfThereIsRoom`, `EveryScanEnds`.
- The properties of the violating runs, which are false.

## What is not modelled

- Numbers other than gas bills: prices are f64 sums scaled by decimals, and a
  price result is here the swaps that went into it; `gas/blob.rs` estimates from
  one header; `types/` is newtypes, conversions and formatting. They are
  sequential and unit tests reach them.
- `retrieval/balance.rs` and `retrieval/utils.rs`: single RPCs and arithmetic on
  their answers.
- JSON, tracing, error texts, span names. What does not parse is an outcome
  (`Garbled`, `decodes`), not a text.
- The statistics of DiskCache (per-instance counters beside the file, of which
  stats() reads the number of entries from the file again) and `validate()`,
  which runs once before the cache is used.
- The other settings of the configuration: presets, timeouts and limits are
  constants of the models. The delay between chunks only waits.
- The websocket provider and the presets of the provider factory.
- The rounding of the token bucket's f64.
- The size of the subscription's channel in alloy (see EventScan and LiveFeed).
- A mutex or RwLock poisoned by a panic.

The lines `map` names are some two fifths of the crate's code outside tests and
comments. Tests, examples and documentation make up three quarters of its lines,
and of the code that is left most is type definitions, builders, error
constructors and spans.

## Plan

Order: what is shared and cached first, then what loses or repeats data, then
what paces requests.

1. (done) RangeQuery over BlockRangeCache with its proofs; BlockWindow;
   BlockWindowCache with DiskCache and MemoryCache; CombinedRetrieval; RateLimit
   with its proofs, and Retry over it.
2. (done) GasQuery, PriceQuery as a refinement of RangeQuery, EventScan, LiveFeed,
   ProviderPool.
3. (done) Proofs: RangeQuery; PriceQuery and its refinement of RangeQuery; Retry and its
   refinement of RateLimit; ProviderPool; DiskCache and MemoryCache with their
   refinements of BlockWindowCache; BlockWindow; EventScan and LiveFeed;
   CombinedRetrieval; the sums of GasQuery and EventScan.

What is left is outside the models (see What is not modelled) or the prover's reach:
liveness stays with TLC.
