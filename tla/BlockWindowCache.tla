--------------------------- MODULE BlockWindowCache ---------------------------
(***************************************************************************)
(* What the trait BlockWindowCache (src/blocks/cache/mod.rs) promises: a    *)
(* get answers with what was last inserted under its key or with nothing;   *)
(* an entry may be lost at any time (limits, TTL, clear, a write that       *)
(* failed), but appears only by an insert that is in flight.  DiskCache and *)
(* MemoryCache are shown to implement this.                                 *)
(***************************************************************************)
CONSTANTS
    Callers,   \* who calls the cache
    Keys,      \* CacheKey: a chain and a date
    Windows,   \* DailyBlockWindow
    NoWindow   \* None

VARIABLES
    asked,  \* the <<key, window>> each caller is inserting, if any
    held,   \* what the cache would answer for each key
    got     \* the answer each caller has got last for each key

vars == <<asked, held, got>>

Init ==
    /\ asked = [c \in Callers |-> {}]
    /\ held = [k \in Keys |-> NoWindow]
    /\ got = [c \in Callers |-> [k \in Keys |-> NoWindow]]

\* after is before with some entries lost
Lost(before, after) == \A k \in Keys : after[k] \in {before[k], NoWindow}

InsertBegins(c, k, w) ==
    /\ asked[c] = {}
    /\ asked' = [asked EXCEPT ![c] = {<<k, w>>}]
    /\ UNCHANGED <<held, got>>

\* The one step at which the entry appears
Insert(c) ==
    /\ \E a \in asked[c] : Lost([held EXCEPT ![a[1]] = a[2]], held')
    /\ held' \in [Keys -> Windows \cup {NoWindow}]
    /\ asked' = [asked EXCEPT ![c] = {}]
    /\ UNCHANGED got

InsertFails(c) ==
    /\ asked' = [asked EXCEPT ![c] = {}]
    /\ UNCHANGED <<held, got>>

Get(c, k) ==
    /\ \E w \in {held[k], NoWindow} : got' = [got EXCEPT ![c][k] = w]
    /\ \/ UNCHANGED held
       \/ held' = [held EXCEPT ![k] = NoWindow]
    /\ UNCHANGED asked

Lose ==
    /\ held' \in [Keys -> Windows \cup {NoWindow}]
    /\ Lost(held, held')
    /\ UNCHANGED <<asked, got>>

Next ==
    \/ \E c \in Callers, k \in Keys : Get(c, k) \/ \E w \in Windows : InsertBegins(c, k, w)
    \/ \E c \in Callers : Insert(c) \/ InsertFails(c)
    \/ Lose

Spec == Init /\ [][Next]_vars
===============================================================================
