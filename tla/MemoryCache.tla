----------------------------- MODULE MemoryCache -----------------------------
(***************************************************************************)
(* MemoryCache (src/blocks/cache/memory.rs): a map behind one mutex, with a *)
(* TTL, an LRU limit and statistics.  Every call runs under the mutex; only *)
(* an insert may take more than one step, one for each entry it evicts.     *)
(***************************************************************************)
EXTENDS Integers, FiniteSets, SequencesExt

CONSTANTS
    Callers,     \* calls on one cache
    NoCaller,    \* nobody
    Keys,        \* CacheKey
    Windows,     \* DailyBlockWindow
    NoWindow,    \* None
    Limits,      \* what max_entries may be, more than Cardinality(Keys) for no limit
    Ttl,         \* ttl, at least MaxTime for none
    MaxTime,     \* bound on the clock
    ClockSteps,  \* whether the system clock may be set back
    MaxGets,     \* bound on the gets
    MaxSeq,      \* bound on next_seq
    MaxSkips     \* bound on the inserts that are skipped

ASSUME MemoryCacheAssumption ==
    /\ Keys # {}
    /\ NoCaller \notin Callers /\ NoWindow \notin Windows
    /\ Limits \subseteq Nat
    /\ {Ttl, MaxTime, MaxGets, MaxSeq, MaxSkips} \subseteq Nat
    /\ ClockSteps \in BOOLEAN

VARIABLES
    maxEntries,  \* max_entries, set before the cache is shared
    now,      \* SystemTime, in milliseconds
    entries,  \* the map
    nextSeq,  \* next_seq
    stats,    \* hits, misses, expirations, evictions, entries, skips
    insert,   \* the insert that holds the mutex: who, key, window
    got,      \* what the last get of each caller has returned for each key
    gets,     \* how many gets there have been
    used      \* the keys in the map, the least recently used first

vars == <<maxEntries, now, entries, nextSeq, stats, insert, got, gets, used>>

NoEntry == [window |-> NoWindow, created |-> 0, accessed |-> 0, seq |-> 0]
Present(map) == {k \in Keys : map[k] # NoEntry}

NoInsert == [who |-> NoCaller, key |-> CHOOSE k \in Keys : TRUE, window |-> NoWindow]

Init ==
    /\ maxEntries \in Limits
    /\ now = 0
    /\ entries = [k \in Keys |-> NoEntry]
    /\ nextSeq = 0
    /\ stats = [hits |-> 0, misses |-> 0, expirations |-> 0, evictions |-> 0, entries |-> 0,
                skips |-> 0]
    /\ insert = NoInsert
    /\ got = [c \in Callers |-> [k \in Keys |-> NoWindow]]
    /\ gets = 0
    /\ used = <<>>

Unlocked == insert.who = NoCaller

\* used after key k has gone, and after it has been used
Without(k) ==
    LET at == {i \in DOMAIN used : used[i] = k}
    IN  IF at = {} THEN used ELSE RemoveAt(used, CHOOSE i \in at : TRUE)
JustUsed(k) == Append(Without(k), k)

Expired(e) == now - e.created > Ttl

-----------------------------------------------------------------------------
(* get *)

Counted ==
    /\ Unlocked /\ gets < MaxGets
    /\ gets' = gets + 1

\* A bug: a hit does not touch the entry
GetHitUntouched(c, k) ==
    /\ Counted /\ entries[k] # NoEntry /\ ~Expired(entries[k]) /\ nextSeq < MaxSeq
    /\ nextSeq' = nextSeq + 1
    /\ stats' = [stats EXCEPT !.hits = @ + 1]
    /\ got' = [got EXCEPT ![c][k] = entries[k].window]
    /\ used' = JustUsed(k)
    /\ UNCHANGED <<maxEntries, now, entries, insert>>

\* A bug: keys are told apart by less than all of them
GetHitAnyKey(c, k) ==
    /\ Counted /\ entries[k] # NoEntry /\ ~Expired(entries[k]) /\ nextSeq < MaxSeq
    /\ \E j \in Present(entries) : got' = [got EXCEPT ![c][k] = entries[j].window]
    /\ nextSeq' = nextSeq + 1
    /\ stats' = [stats EXCEPT !.hits = @ + 1]
    /\ UNCHANGED <<maxEntries, now, entries, insert, used>>

GetHit(c, k) ==
    /\ Counted /\ entries[k] # NoEntry /\ ~Expired(entries[k]) /\ nextSeq < MaxSeq
    /\ entries' = [entries EXCEPT ![k].accessed = now, ![k].seq = nextSeq]
    /\ nextSeq' = nextSeq + 1
    /\ stats' = [stats EXCEPT !.hits = @ + 1]
    /\ got' = [got EXCEPT ![c][k] = entries[k].window]
    /\ used' = JustUsed(k)
    /\ UNCHANGED <<maxEntries, now, insert>>

\* The entry is removed before the lookup's outcome is counted, so that it is
\* then counted as one that never was
GetExpired(c, k) ==
    /\ Counted /\ entries[k] # NoEntry /\ Expired(entries[k])
    /\ entries' = [entries EXCEPT ![k] = NoEntry]
    /\ stats' = [stats EXCEPT !.expirations = @ + 1, !.misses = @ + 2]
    /\ got' = [got EXCEPT ![c][k] = NoWindow]
    /\ used' = Without(k)
    /\ UNCHANGED <<maxEntries, now, nextSeq, insert>>

GetMiss(c, k) ==
    /\ Counted /\ entries[k] = NoEntry
    /\ stats' = [stats EXCEPT !.misses = @ + 1]
    /\ got' = [got EXCEPT ![c][k] = NoWindow]
    /\ UNCHANGED <<maxEntries, now, entries, nextSeq, insert, used>>

-----------------------------------------------------------------------------
(* insert *)

InsertLock(c, k, w) ==
    /\ Unlocked /\ nextSeq < MaxSeq
    /\ insert' = [who |-> c, key |-> k, window |-> w]
    /\ UNCHANGED <<maxEntries, now, entries, nextSeq, stats, got, gets, used>>

\* min_by_key((last_accessed, access_seq))
LessRecent(j, k) ==
    \/ entries[j].accessed < entries[k].accessed
    \/ entries[j].accessed = entries[k].accessed /\ entries[j].seq <= entries[k].seq

IsLru(j) == j \in Present(entries) /\ \A k \in Present(entries) : LessRecent(j, k)

\* A bug: one entry too many is kept
FullLate == Cardinality(Present(entries)) > maxEntries

\* A bug: the limit is compared with the counter, which evictions leave alone
FullByCounter == stats.entries >= maxEntries

Full == Cardinality(Present(entries)) >= maxEntries

\* `while entries.len() >= max_entries { evict_lru }`, and evict_lru does
\* nothing when the map is empty
Evict(c) ==
    /\ insert.who = c /\ Full
    /\ \/ \E k \in Keys : /\ IsLru(k)
                          /\ entries' = [entries EXCEPT ![k] = NoEntry]
                          /\ used' = Without(k)
                          /\ stats' = [stats EXCEPT !.evictions = @ + 1]
       \/ Present(entries) = {} /\ UNCHANGED <<entries, used, stats>>
    /\ UNCHANGED <<maxEntries, now, nextSeq, insert, got, gets>>

Store(c) ==
    LET k == insert.key
        e == [window |-> insert.window, created |-> now, accessed |-> now, seq |-> nextSeq]
    IN  /\ insert.who = c /\ ~Full
        /\ entries' = [entries EXCEPT ![k] = e]
        /\ nextSeq' = nextSeq + 1
        /\ stats' = [stats EXCEPT !.entries = Cardinality(Present(entries'))]
        /\ insert' = NoInsert
        /\ used' = JustUsed(k)
        /\ UNCHANGED <<maxEntries, now, got, gets>>

-----------------------------------------------------------------------------
(* clear, record_skip_insert, the clock *)

Clear(c) ==
    /\ Unlocked
    /\ entries' = [k \in Keys |-> NoEntry]
    /\ stats' = [stats EXCEPT !.entries = 0]
    /\ used' = <<>>
    /\ UNCHANGED <<maxEntries, now, nextSeq, insert, got, gets>>

\* The calculator has found a window that is not safe to cache
RecordSkipInsert ==
    /\ Unlocked /\ stats.skips < MaxSkips
    /\ stats' = [stats EXCEPT !.skips = @ + 1]
    /\ UNCHANGED <<maxEntries, now, entries, nextSeq, insert, got, gets, used>>

Tick ==
    /\ now < MaxTime
    /\ now' = now + 1
    /\ UNCHANGED <<maxEntries, entries, nextSeq, stats, insert, got, gets, used>>

StepBack ==
    /\ ClockSteps /\ now > 0
    /\ now' = now - 1
    /\ UNCHANGED <<maxEntries, entries, nextSeq, stats, insert, got, gets, used>>

Get(c, k) == GetHit(c, k) \/ GetExpired(c, k) \/ GetMiss(c, k)

Insert(c) == Evict(c) \/ Store(c)

Next == \/ \E c \in Callers, k \in Keys : Get(c, k) \/ \E w \in Windows : InsertLock(c, k, w)
        \/ \E c \in Callers : Insert(c) \/ Clear(c)
        \/ RecordSkipInsert \/ Tick \/ StepBack

Spec == Init /\ [][Next]_vars

\* The task that holds the mutex runs on: there is no await in an insert.
FairSpec == Spec /\ \A c \in Callers : WF_vars(Insert(c))

-----------------------------------------------------------------------------
(* Properties *)

Stats == [hits : Nat, misses : Nat, expirations : Nat, evictions : Nat, entries : Nat, skips : Nat]

\* Types of the variables.
TypeOK ==
    /\ maxEntries \in Nat /\ now \in Nat /\ nextSeq \in Nat /\ gets \in Nat
    /\ entries \in [Keys -> [window : Windows, created : Nat, accessed : Nat, seq : Nat]
                              \cup {NoEntry}]
    /\ stats \in Stats
    /\ insert \in [who : Callers \cup {NoCaller}, key : Keys, window : Windows \cup {NoWindow}]
    /\ got \in [Callers -> [Keys -> Windows \cup {NoWindow}]]
    /\ used \in Seq(Keys)

\* "Optional size limits": the map never holds more than max_entries.
NeverOverLimit == Cardinality(Present(entries)) <= maxEntries

\* What an insert evicts is the entry whose last insert or hit lies furthest
\* back.
EvictsFirstUsed(c) == Evict(c) /\ used # <<>> => entries'[Head(used)] = NoEntry

\* No two uses of what is in the map have a step back of the clock between them.
UsedInClockOrder ==
    \A i, j \in 1 .. Len(used) : i < j => entries[used[i]].accessed <= entries[used[j]].accessed

\* "LRU (least recently used) eviction", as far as the clock can tell: uses of
\* one millisecond are told apart by their sequence numbers.
EvictsLeastRecentlyUsed == [][\A c \in Callers : UsedInClockOrder => EvictsFirstUsed(c)]_vars

\* The same whatever the clock does.
EvictsLruUnderAnyClock == [][\A c \in Callers : EvictsFirstUsed(c)]_vars

\* "Current number of entries in the cache".
EntriesIsCurrent == Unlocked => stats.entries = Cardinality(Present(entries))

\* Every get is a hit or a miss, and counted once.
EveryGetCountsOnce == stats.hits + stats.misses = gets

\* An insert ends exactly if the cache may hold an entry.  Above 0 the eviction
\* loop makes room, however the map was filled, expired and cleared before.  With a
\* limit of 0 there never is room: evict_lru leaves an empty map as it is, and the
\* insert keeps the mutex for ever.
InsertEndsIfThereIsRoom ==
    \A c \in Callers :
        /\ insert.who = c /\ maxEntries > 0 ~> insert.who # c
        /\ [](insert.who = c /\ maxEntries = 0 => [](insert.who = c))

\* The map is a BlockWindowCache.
Held == [k \in Keys |-> entries[k].window]
Asked == [c \in Callers |-> IF insert.who = c THEN {<<insert.key, insert.window>>} ELSE {}]

Abstract == INSTANCE BlockWindowCache WITH held <- Held, asked <- Asked

IsBlockWindowCache == Abstract!Spec
==============================================================================
