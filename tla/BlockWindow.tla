----------------------------- MODULE BlockWindow -----------------------------
(***************************************************************************)
(* BlockWindowCalculator (src/blocks/window.rs): concurrent calls of        *)
(* get_daily_window and block_range_for_timestamps over one head memo, one  *)
(* genesis cell and one window cache, while the chain grows and, if         *)
(* ReorgDepth is not 0, replaces its last blocks.                           *)
(*                                                                         *)
(* One action is one RPC with what the code does until its next await: a    *)
(* header fetch, one probe of a binary search, one cache insert.            *)
(***************************************************************************)
EXTENDS Integers, Sequences

CONSTANTS
    Tasks,       \* concurrent calls on one calculator
    NoTask,      \* nobody
    Days,        \* the dates asked for: day d is d * DayLength .. (d + 1) * DayLength - 1
    DayLength,   \* seconds in a day
    Ranges,      \* the <<start_ts, end_ts>> of block_range_for_timestamps
    EagerHead,   \* eager_head_ts: with_disk_cache sets it, the others do not
    Monotonic,   \* whether timestamps never go back from a block to the next
    ReorgDepth,  \* how many of its last blocks the chain may replace
    MaxTime,     \* bound on timestamps
    MaxBlocks    \* bound on the length of the chain

ASSUME BlockWindowAssumption ==
    /\ NoTask \notin Tasks
    /\ Days \subseteq Nat
    /\ DayLength \in Nat \ {0}
    /\ \A r \in Ranges : r \in Nat \X Nat /\ r[1] <= r[2]
    /\ EagerHead \in BOOLEAN /\ Monotonic \in BOOLEAN
    /\ ReorgDepth \in Nat /\ MaxTime \in Nat /\ MaxBlocks \in Nat \ {0}

VARIABLES
    chain,    \* the timestamps of blocks 0, 1, ...
    genesis,  \* ChainBoundsMemo.genesis, or NoTime
    memo,     \* ChainBoundsMemo.head: a block, its timestamp if known, whether it is within the TTL
    holder,   \* the call that holds the memo's mutex, or NoTask
    store,    \* the BlockWindowCache: a window of each day, or NoWindow
    pc,       \* where each call is
    ask,      \* its arguments: the day or NoDay, and the first and last second it asks for
    bound,    \* latest_block and latest_ts as it took them from the memo
    search,   \* lo, hi, result of its binary search
    window    \* start_block and end_block

vars == <<chain, genesis, memo, holder, store, pc, ask, bound, search, window>>

Times == 0 .. MaxTime
HeadBlock == Len(chain) - 1
TimeOf(b) == chain[b + 1]

\* Option::None, as a value of the field's own type
NoTime == -1
NoDay == -1
NoHead == [block |-> 0, ts |-> NoTime, fresh |-> FALSE]
NoWindow == [start |-> -1, end |-> -1]

NoAsk == [day |-> NoDay, from |-> 0, to |-> 0]
NoBound == [block |-> 0, ts |-> NoTime]
NoSearch == [lo |-> 0, hi |-> 0, result |-> 0]

Init ==
    /\ \E t \in Times : chain = <<t>>
    /\ genesis = NoTime
    /\ memo = NoHead
    /\ holder = NoTask
    /\ store = [d \in Days |-> NoWindow]
    /\ pc = [t \in Tasks |-> "idle"]
    /\ ask = [t \in Tasks |-> NoAsk]
    /\ bound = [t \in Tasks |-> NoBound]
    /\ search = [t \in Tasks |-> NoSearch]
    /\ window = [t \in Tasks |-> NoWindow]

IsDaily(t) == ask[t].day # NoDay

Goto(t, l) == pc' = [pc EXCEPT ![t] = l]

\* The call is over: its result, an error or a dropped future leaves nothing
Leave(t) ==
    /\ Goto(t, "idle")
    /\ ask' = [ask EXCEPT ![t] = NoAsk]
    /\ bound' = [bound EXCEPT ![t] = NoBound]
    /\ search' = [search EXCEPT ![t] = NoSearch]
    /\ window' = [window EXCEPT ![t] = NoWindow]

-----------------------------------------------------------------------------
(* The arguments, the cache and the genesis cell *)

DailyHit(t, d) ==
    /\ pc[t] = "idle" /\ store[d] # NoWindow
    /\ Goto(t, "hit")
    /\ ask' = [ask EXCEPT ![t] = [day |-> d, from |-> d * DayLength,
                                  to |-> (d + 1) * DayLength - 1]]
    /\ window' = [window EXCEPT ![t] = store[d]]
    /\ UNCHANGED <<chain, genesis, memo, holder, store, bound, search>>

DailyMiss(t, d) ==
    /\ pc[t] = "idle" /\ store[d] = NoWindow
    /\ Goto(t, "head")
    /\ ask' = [ask EXCEPT ![t] = [day |-> d, from |-> d * DayLength,
                                  to |-> (d + 1) * DayLength - 1]]
    /\ UNCHANGED <<chain, genesis, memo, holder, store, bound, search, window>>

AskRange(t, from, to) ==
    /\ pc[t] = "idle"
    /\ Goto(t, IF genesis = NoTime THEN "genesis" ELSE "head")
    /\ ask' = [ask EXCEPT ![t] = [day |-> NoDay, from |-> from, to |-> to]]
    /\ UNCHANGED <<chain, genesis, memo, holder, store, bound, search, window>>

\* OnceCell::get_or_try_init: whoever comes second finds the value
FetchGenesis(t) ==
    /\ pc[t] = "genesis"
    /\ genesis' = IF genesis = NoTime THEN TimeOf(0) ELSE genesis
    /\ Goto(t, "head")
    /\ UNCHANGED <<chain, memo, holder, store, ask, bound, search, window>>

-----------------------------------------------------------------------------
(* What a call does with the bounds *)

\* The end search begins, unless the range reaches the head
SeekEnd(t, b, start) ==
    /\ window' = [window EXCEPT ![t] = [start |-> start, end |-> b.block]]
    /\ \/ /\ ~IsDaily(t) /\ ask[t].to >= b.ts
          /\ Goto(t, "done")
          /\ search' = [search EXCEPT ![t] = NoSearch]
       \/ /\ IsDaily(t) \/ ask[t].to < b.ts
          /\ Goto(t, "last")
          /\ search' = [search EXCEPT ![t] = [lo |-> 0, hi |-> b.block, result |-> 0]]

SeekStart(t, b) ==
    /\ Goto(t, "first")
    /\ search' = [search EXCEPT ![t] = [lo |-> 0, hi |-> b.block, result |-> b.block]]
    /\ UNCHANGED window

Empty(t, b) ==
    /\ Goto(t, "done")
    /\ window' = [window EXCEPT ![t] = [start |-> b, end |-> b]]
    /\ UNCHANGED search

\* get_daily_window_with after the head is known
DailyBounds(t, b) ==
    \/ b.ts # NoTime /\ ask[t].from > b.ts /\ Empty(t, b.block)
    \/ (b.ts = NoTime \/ ask[t].from <= b.ts) /\ SeekStart(t, b)

\* A bug: a range that ends in the first block's own second counts as before it
RangeBoundsAtGenesis(t, b) ==
    \/ ask[t].from > b.ts /\ Empty(t, b.block)
    \/ ask[t].from <= b.ts /\ ask[t].to <= genesis /\ Empty(t, 0)
    \/ ask[t].from <= b.ts /\ ask[t].to > genesis /\ ask[t].from <= genesis /\ SeekEnd(t, b, 0)
    \/ ask[t].from <= b.ts /\ ask[t].from > genesis /\ SeekStart(t, b)

\* compute_block_range_given_bounds
RangeBounds(t, b) ==
    \/ ask[t].from > b.ts /\ Empty(t, b.block)
    \/ ask[t].from <= b.ts /\ ask[t].to < genesis /\ Empty(t, 0)
    \/ ask[t].from <= b.ts /\ ask[t].to >= genesis /\ ask[t].from <= genesis /\ SeekEnd(t, b, 0)
    \/ ask[t].from <= b.ts /\ ask[t].from > genesis /\ SeekStart(t, b)

NonMonotonic(b) == b.block > 0 /\ genesis > b.ts

UseBounds(t, b) ==
    \/ /\ IsDaily(t) /\ DailyBounds(t, b)
       /\ bound' = [bound EXCEPT ![t] = b] /\ UNCHANGED ask
    \/ /\ ~IsDaily(t) /\ ~NonMonotonic(b) /\ RangeBounds(t, b)
       /\ bound' = [bound EXCEPT ![t] = b] /\ UNCHANGED ask
    \/ ~IsDaily(t) /\ NonMonotonic(b) /\ Leave(t)

-----------------------------------------------------------------------------
(* The head memo *)

WantsTime(t) == ~IsDaily(t) \/ EagerHead

Serves(t) == memo.fresh /\ (WantsTime(t) => memo.ts # NoTime)

\* The mutex is taken and the memo serves: released at once
MemoHit(t) ==
    /\ pc[t] = "head" /\ holder = NoTask /\ Serves(t)
    /\ UseBounds(t, [block |-> memo.block, ts |-> memo.ts])
    /\ UNCHANGED <<chain, genesis, memo, holder, store>>

\* A bug: the mutex is not held across the fetch
MemoMissUnlocked(t) ==
    /\ pc[t] = "head" /\ holder = NoTask /\ ~Serves(t)
    /\ Goto(t, "number")
    /\ UNCHANGED <<chain, genesis, memo, holder, store, ask, bound, search, window>>

\* The mutex is taken and kept across the fetch
MemoMiss(t) ==
    /\ pc[t] = "head" /\ holder = NoTask /\ ~Serves(t)
    /\ holder' = t
    /\ Goto(t, "number")
    /\ UNCHANGED <<chain, genesis, memo, store, ask, bound, search, window>>

\* eth_blockNumber, and nothing else is needed.  The call serves itself from
\* what it has just fetched.
FetchNumber(t) ==
    /\ pc[t] = "number" /\ ~WantsTime(t)
    /\ memo' = [block |-> HeadBlock, ts |-> NoTime, fresh |-> TRUE]
    /\ holder' = NoTask
    /\ UseBounds(t, [block |-> HeadBlock, ts |-> NoTime])
    /\ UNCHANGED <<chain, genesis, store>>

\* eth_blockNumber, before the header of that block.  A range call does not
\* fetch the header of block 0 again.
FetchNumberFirst(t) ==
    /\ pc[t] = "number" /\ WantsTime(t)
    /\ Goto(t, "time")
    /\ bound' = [bound EXCEPT ![t] = [block |-> HeadBlock, ts |-> NoTime]]
    /\ UNCHANGED <<chain, genesis, memo, holder, store, ask, search, window>>

FetchTime(t) ==
    LET n == bound[t].block
    IN  /\ pc[t] = "time" /\ n <= HeadBlock
        /\ memo' = [block |-> n, ts |-> TimeOf(n), fresh |-> TRUE]
        /\ holder' = NoTask
        /\ UseBounds(t, [block |-> n, ts |-> TimeOf(n)])
        /\ UNCHANGED <<chain, genesis, store>>

-----------------------------------------------------------------------------
(* The binary searches: one probe of one block *)

Mid(s) == (s.lo + s.hi) \div 2

\* find_first_at_or_after_with: s after the probe of the middle block
FirstProbed(s, target) ==
    IF TimeOf(Mid(s)) >= target
    THEN [lo |-> s.lo, hi |-> Mid(s) - 1, result |-> Mid(s)]
    ELSE [lo |-> Mid(s) + 1, hi |-> s.hi, result |-> s.result]

\* find_last_at_or_before_with
LastProbed(s, target) ==
    IF TimeOf(Mid(s)) <= target
    THEN [lo |-> Mid(s) + 1, hi |-> s.hi, result |-> Mid(s)]
    ELSE [lo |-> s.lo, hi |-> Mid(s) - 1, result |-> s.result]

\* A bug: no break at block 0, where hi leaves u64
SearchingBelowZero(s) == s.lo <= s.hi \/ s.hi < 0

\* `while lo <= hi`, and the break at block 0, where hi would leave u64
Searching(s) == s.lo <= s.hi

ProbeFirst(t) ==
    LET s == FirstProbed(search[t], ask[t].from)
    IN  /\ pc[t] = "first" /\ Mid(search[t]) <= HeadBlock
        /\ \/ /\ Searching(s)
              /\ search' = [search EXCEPT ![t] = s]
              /\ UNCHANGED <<pc, window>>
           \/ ~Searching(s) /\ SeekEnd(t, bound[t], s.result)
        /\ UNCHANGED <<chain, genesis, memo, holder, store, ask, bound>>

\* A bug: the day may end at the tip's own second
SafeToCacheAtTip(t) == IsDaily(t) /\ bound[t].ts # NoTime /\ ask[t].to <= bound[t].ts

\* A bug: without the head's timestamp the day is taken to be over
SafeToCacheCold(t) == IsDaily(t) /\ (bound[t].ts = NoTime \/ ask[t].to < bound[t].ts)

SafeToCache(t) == IsDaily(t) /\ bound[t].ts # NoTime /\ ask[t].to < bound[t].ts

\* DailyBlockWindow::new refuses a day with no block in it
ProbeLast(t) ==
    LET s == LastProbed(search[t], ask[t].to)
        w == [start |-> window[t].start, end |-> s.result]
    IN  /\ pc[t] = "last" /\ Mid(search[t]) <= HeadBlock
        /\ \/ /\ Searching(s)
              /\ search' = [search EXCEPT ![t] = s]
              /\ UNCHANGED <<pc, ask, bound, window>>
           \/ /\ ~Searching(s) /\ IsDaily(t) /\ w.end < w.start
              /\ Leave(t)
           \/ /\ ~Searching(s) /\ ~(IsDaily(t) /\ w.end < w.start)
              /\ Goto(t, IF SafeToCache(t) THEN "insert" ELSE "done")
              /\ search' = [search EXCEPT ![t] = NoSearch]
              /\ window' = [window EXCEPT ![t] = w]
              /\ UNCHANGED <<ask, bound>>
        /\ UNCHANGED <<chain, genesis, memo, holder, store>>

-----------------------------------------------------------------------------
(* The window cache, errors and the environment *)

\* cache.insert; its error is logged and dropped
Persist(t) ==
    /\ pc[t] = "insert"
    /\ \/ store' = [store EXCEPT ![ask[t].day] = window[t]]
       \/ UNCHANGED store
    /\ Goto(t, "done")
    /\ UNCHANGED <<chain, genesis, memo, holder, ask, bound, search, window>>

Return(t) ==
    /\ pc[t] \in {"hit", "done"}
    /\ Leave(t)
    /\ UNCHANGED <<chain, genesis, memo, holder, store>>

\* A bug: the mutex is not released on the error path
FetchFailsLocked(t) ==
    /\ pc[t] \in {"genesis", "head", "number", "time", "first", "last", "insert"}
    /\ Leave(t)
    /\ UNCHANGED <<chain, genesis, memo, holder, store>>

\* An RPC fails, or the future is dropped at an await: the guard is dropped
\* with it, and the memo keeps what it had.
FetchFails(t) ==
    /\ pc[t] \in {"genesis", "head", "number", "time", "first", "last", "insert"}
    /\ holder' = IF holder = t THEN NoTask ELSE holder
    /\ Leave(t)
    /\ UNCHANGED <<chain, genesis, memo, store>>

\* BlockNotFound: a reorg has taken the block away
NotFound(t) ==
    /\ \/ pc[t] = "time" /\ bound[t].block > HeadBlock
       \/ pc[t] \in {"first", "last"} /\ Mid(search[t]) > HeadBlock
    /\ FetchFails(t)

\* head_ttl elapses
ExpireHead ==
    /\ memo.fresh
    /\ memo' = [memo EXCEPT !.fresh = FALSE]
    /\ UNCHANGED <<chain, genesis, holder, store, pc, ask, bound, search, window>>

\* The cache drops a window: TTL, LRU, clear, a lost file
Evict(d) ==
    /\ store[d] # NoWindow
    /\ store' = [store EXCEPT ![d] = NoWindow]
    /\ UNCHANGED <<chain, genesis, memo, holder, pc, ask, bound, search, window>>

\* On fast chains blocks share a second
NewBlock(time) ==
    /\ Len(chain) < MaxBlocks /\ (Monotonic => time >= TimeOf(HeadBlock))
    /\ chain' = Append(chain, time)
    /\ UNCHANGED <<genesis, memo, holder, store, pc, ask, bound, search, window>>

\* The last k blocks are replaced by one
Reorg(k, time) ==
    /\ k < Len(chain) /\ (Monotonic => time >= TimeOf(HeadBlock - k))
    /\ chain' = Append(SubSeq(chain, 1, Len(chain) - k), time)
    /\ UNCHANGED <<genesis, memo, holder, store, pc, ask, bound, search, window>>

Ask(t) == \/ \E d \in Days : DailyHit(t, d) \/ DailyMiss(t, d)
          \/ \E r \in Ranges : AskRange(t, r[1], r[2])

Acquire(t) == MemoHit(t) \/ MemoMiss(t)

Progress(t) == FetchGenesis(t) \/ FetchNumber(t) \/ FetchNumberFirst(t) \/ FetchTime(t)
                 \/ ProbeFirst(t) \/ ProbeLast(t) \/ NotFound(t) \/ Persist(t) \/ Return(t)

Environment == \/ ExpireHead
               \/ \E d \in Days : Evict(d)
               \/ \E time \in Times : NewBlock(time)
               \/ \E k \in 1 .. ReorgDepth, time \in Times : Reorg(k, time)

Next == \/ \E t \in Tasks : Ask(t) \/ Acquire(t) \/ Progress(t) \/ FetchFails(t)
        \/ Environment

Spec == Init /\ [][Next]_vars

\* The runtime polls a call whose RPC has been answered; tokio's mutex is a
\* FIFO queue, so a waiting call gets it although others come and go; and a
\* probe of a block that is gone fails instead of waiting.
FairSpec ==
    /\ Spec
    /\ \A t \in Tasks : /\ WF_vars(Progress(t))
                        /\ SF_vars(Acquire(t))

-----------------------------------------------------------------------------
(* Reference definitions over the blocks 0 .. b *)

FirstAtOrAfter(target, b) ==
    LET S == {x \in 0 .. b : TimeOf(x) >= target}
    IN  IF S = {} THEN b ELSE CHOOSE x \in S : \A y \in S : x <= y

LastAtOrBefore(target, b) ==
    LET S == {x \in 0 .. b : TimeOf(x) <= target}
    IN  IF S = {} THEN 0 ELSE CHOOSE x \in S : \A y \in S : x >= y

DayOf(d) == d * DayLength .. (d + 1) * DayLength - 1

BlocksOf(d) == {b \in 0 .. HeadBlock : TimeOf(b) \in DayOf(d)}

-----------------------------------------------------------------------------
(* Properties *)

\* Types of the variables.
TypeOK ==
    /\ chain \in Seq(Nat) /\ chain # <<>>
    /\ genesis \in Nat \cup {NoTime}
    /\ memo \in [block : Nat, ts : Nat \cup {NoTime}, fresh : BOOLEAN]
    /\ holder \in Tasks \cup {NoTask}
    /\ store \in [Days -> [start : Nat, end : Nat] \cup {NoWindow}]
    /\ pc \in [Tasks -> {"idle", "hit", "genesis", "head", "number", "time", "first", "last",
                         "insert", "done"}]
    /\ ask \in [Tasks -> [day : Days \cup {NoDay}, from : Nat, to : Nat]]
    /\ bound \in [Tasks -> [block : Nat, ts : Nat \cup {NoTime}]]
    /\ search \in [Tasks -> [lo : Nat, hi : Nat, result : Nat]]
    /\ window \in [Tasks -> [start : Nat, end : Nat] \cup {NoWindow}]

\* "Immutable for past dates": a cached window of a day that does not lie
\* before the chain began is the set of all the blocks of that day the chain
\* has, however the chain has grown since the window was computed.  A window
\* computed against a head inside the day must not be persisted.
PersistedIsFinal ==
    \A d \in Days :
        store[d] # NoWindow /\ TimeOf(0) < (d + 1) * DayLength
            => store[d].start .. store[d].end = BlocksOf(d)

\* The same without the exception for days before the chain began.
PersistedIsTheDay ==
    \A d \in Days : store[d] # NoWindow => store[d].start .. store[d].end = BlocksOf(d)

\* What a call that had to compute returns is what the two reference searches
\* say of the blocks up to the head it used: the short-circuits for ranges
\* before genesis and past the head give what the searches would have given.
AnswerIsExact ==
    \A t \in Tasks :
        pc[t] = "done" =>
            window[t] = [start |-> FirstAtOrAfter(ask[t].from, bound[t].block),
                         end   |-> LastAtOrBefore(ask[t].to, bound[t].block)]

\* Two calls that compute the same day, from different heads, never persist
\* different windows of it.
PersistedNeverChanges ==
    [][\A d \in Days : store[d] # NoWindow /\ store[d]' # NoWindow => store[d]' = store[d]]_vars

\* The memo never goes back to an older head, although two calls may fetch it
\* and the answers may arrive in any order.
HeadNeverGoesBack == [][memo.block <= memo'.block]_vars

\* Every call returns, also when others hold the memo's mutex across slow or
\* failing fetches.
EveryCallReturns == \A t \in Tasks : pc[t] # "idle" ~> pc[t] = "idle"
==============================================================================
