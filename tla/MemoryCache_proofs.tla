-------------------------- MODULE MemoryCache_proofs --------------------------
(* Proofs about MemoryCache, for every number of callers, keys and windows:    *)
(* that the map stays within its limit, that eviction is LRU as far as the     *)
(* clock goes, and that the map is a BlockWindowCache.                         *)
EXTENDS MemoryCache, FiniteSetTheorems, SequenceTheorems, TLAPS

\* The keys in the map are those that have been used, each in one place.
UsedIsPresent == ToSet(used) = Present(entries) /\ IsInjective(used)

\* Sequence numbers tell the order of use, and the next is still to be used.
SeqsAreInOrder ==
    /\ \A i, j \in DOMAIN used : i < j => entries[used[i]].seq < entries[used[j]].seq
    /\ \A k \in Keys : entries[k] # NoEntry => entries[k].seq < nextSeq

\* An insert has a window to store.
InsertHasAWindow == insert.who # NoCaller => insert.window \in Windows

MapIsFinite == IsFiniteSet(Present(entries))

MemInv == /\ TypeOK /\ UsedIsPresent /\ SeqsAreInOrder /\ InsertHasAWindow
          /\ MapIsFinite /\ NeverOverLimit

-----------------------------------------------------------------------------
(* The order of use *)

\* Without one of its elements a sequence without duplicates keeps the others
\* in their order (the ghost variable used).
LEMMA WithoutOne ==
    ASSUME used \in Seq(Keys), IsInjective(used), NEW k
    PROVE  /\ Without(k) \in Seq(Keys) /\ IsInjective(Without(k))
           /\ ToSet(Without(k)) = ToSet(used) \ {k}
           /\ \A i, j \in DOMAIN Without(k) : i < j =>
                \E g, h \in DOMAIN used :
                    g < h /\ Without(k)[i] = used[g] /\ Without(k)[j] = used[h]
<1> DEFINE at == {i \in DOMAIN used : used[i] = k}
           n == Len(used)
<1>1. n \in Nat /\ DOMAIN used = 1 .. n /\ \A i \in 1 .. n : used[i] \in Keys
  OBVIOUS
<1>2. CASE at = {}
  <2>1. Without(k) = used
    BY <1>2 DEF Without
  <2>2. k \notin ToSet(used)
    BY <1>2 DEF ToSet
  <2> QED
    BY <2>1, <2>2
<1>3. CASE at # {}
  <2> DEFINE p == CHOOSE i \in at : TRUE
             a == SubSeq(used, 1, p - 1)
             b == SubSeq(used, p + 1, n)
             w == Without(k)
  <2>1. p \in 1 .. n /\ used[p] = k
    BY <1>1, <1>3
  <2>2. w = a \o b
    BY <1>3 DEF Without, RemoveAt
  <2> HIDE DEF p, w
  <2>3. a \in Seq(Keys) /\ Len(a) = p - 1 /\ \A i \in 1 .. p - 1 : a[i] = used[i]
    BY <1>1, <2>1
  <2>4. b \in Seq(Keys) /\ Len(b) = n - p /\ \A i \in 1 .. n - p : b[i] = used[i + p]
    <3>1. p + 1 \in 1 .. n + 1 /\ n \in p + 1 - 1 .. n /\ n - (p + 1) + 1 = n - p
      BY <1>1, <2>1
    <3>2. b \in Seq(Keys) /\ Len(b) = n - (p + 1) + 1
          /\ \A i \in 1 .. n - (p + 1) + 1 : b[i] = used[p + 1 + i - 1]
      BY <3>1, SubSeqProperties
    <3>3. \A i \in 1 .. n - p : p + 1 + i - 1 = i + p
      BY <1>1, <2>1
    <3> QED
      BY <3>1, <3>2, <3>3
  <2> HIDE DEF a, b
  <2>5. /\ w \in Seq(Keys) /\ Len(w) = n - 1
        /\ \A i \in 1 .. n - 1 : w[i] = IF i < p THEN used[i] ELSE used[i + 1]
    <3>1. w \in Seq(Keys) /\ Len(w) = Len(a) + Len(b)
          /\ \A i \in 1 .. Len(a) + Len(b) :
                w[i] = IF i <= Len(a) THEN a[i] ELSE b[i - Len(a)]
      BY <2>2, <2>3, <2>4, ConcatProperties
    <3>2. Len(w) = n - 1
      BY <1>1, <2>1, <2>3, <2>4, <3>1
    <3>3. ASSUME NEW i \in 1 .. n - 1
          PROVE  w[i] = IF i < p THEN used[i] ELSE used[i + 1]
      <4>1. i \in 1 .. Len(a) + Len(b)
        BY <3>1, <3>2
      <4>2. CASE i < p
        BY <1>1, <2>1, <2>3, <3>1, <4>1, <4>2
      <4>3. CASE p <= i
        <5>1. i - (p - 1) \in 1 .. n - p /\ i - (p - 1) + p = i + 1 /\ ~(i <= p - 1)
          BY <1>1, <2>1, <4>3
        <5>2. w[i] = b[i - (p - 1)]
          BY <2>3, <3>1, <4>1, <5>1
        <5> QED
          BY <2>4, <4>3, <5>1, <5>2, <1>1, <2>1
      <4> QED
        BY <1>1, <2>1, <4>2, <4>3
    <3> QED
      BY <3>1, <3>2, <3>3
  <2>6. DOMAIN w = 1 .. n - 1
    BY <2>5
  <2>7. IsInjective(w)
    <3> SUFFICES ASSUME NEW i \in 1 .. n - 1, NEW j \in 1 .. n - 1, w[i] = w[j]
                 PROVE  i = j
      BY <2>6 DEF IsInjective
    <3> QED
      BY <1>1, <2>1, <2>5 DEF IsInjective
  <2>8. ToSet(w) = ToSet(used) \ {k}
    <3>1. ASSUME NEW i \in 1 .. n - 1 PROVE w[i] \in ToSet(used) \ {k}
      <4>1. PICK j \in 1 .. n : j # p /\ w[i] = used[j]
        BY <1>1, <2>1, <2>5
      <4>2. used[j] # k
        BY <1>1, <2>1, <4>1 DEF IsInjective
      <4> QED
        BY <1>1, <4>1, <4>2 DEF ToSet
    <3>2. ASSUME NEW j \in 1 .. n, used[j] # k PROVE \E i \in 1 .. n - 1 : w[i] = used[j]
      <4>1. CASE j < p
        BY <1>1, <2>1, <2>5, <4>1
      <4>2. CASE p < j
        <5>1. j - 1 \in 1 .. n - 1 /\ w[j - 1] = used[j]
          BY <1>1, <2>1, <2>5, <4>2
        <5> QED
          BY <5>1
      <4> QED
        BY <1>1, <2>1, <3>2, <4>1, <4>2
    <3>3. ToSet(w) = {w[i] : i \in 1 .. n - 1} /\ ToSet(used) = {used[j] : j \in 1 .. n}
      BY <1>1, <2>6 DEF ToSet
    <3> QED
      BY <3>1, <3>2, <3>3
  <2>9. ASSUME NEW i \in 1 .. n - 1, NEW j \in 1 .. n - 1, i < j
        PROVE  \E g, h \in DOMAIN used : g < h /\ w[i] = used[g] /\ w[j] = used[h]
    <3> DEFINE g == IF i < p THEN i ELSE i + 1
               h == IF j < p THEN j ELSE j + 1
    <3>1. g \in DOMAIN used /\ h \in DOMAIN used /\ g < h
      BY <1>1, <2>1, <2>9
    <3>2. w[i] = used[g] /\ w[j] = used[h]
      BY <2>5
    <3> QED
      BY <3>1, <3>2
  <2> QED
    BY <2>5, <2>6, <2>7, <2>8, <2>9 DEF w
<1> QED
  BY <1>2, <1>3

\* A key that has just been used comes last (the ghost variable used).
LEMMA UsedLast ==
    ASSUME used \in Seq(Keys), IsInjective(used), NEW k \in Keys
    PROVE  /\ JustUsed(k) \in Seq(Keys) /\ IsInjective(JustUsed(k))
           /\ ToSet(JustUsed(k)) = ToSet(used) \cup {k}
           /\ \A i, j \in DOMAIN JustUsed(k) : i < j =>
                \/ \E g, h \in DOMAIN used :
                    /\ g < h /\ used[g] # k /\ used[h] # k
                    /\ JustUsed(k)[i] = used[g] /\ JustUsed(k)[j] = used[h]
                \/ JustUsed(k)[j] = k /\ JustUsed(k)[i] \in ToSet(used) \ {k}
<1> DEFINE w == Without(k)
           u == JustUsed(k)
           n == Len(w)
<1>1. w \in Seq(Keys) /\ IsInjective(w) /\ ToSet(w) = ToSet(used) \ {k}
  BY WithoutOne
<1>2. \A i, j \in DOMAIN w : i < j =>
        \E g, h \in DOMAIN used : g < h /\ w[i] = used[g] /\ w[j] = used[h]
  BY WithoutOne
<1>3. u = Append(w, k)
  BY DEF JustUsed
<1> HIDE DEF w, u
<1>4. /\ u \in Seq(Keys) /\ n \in Nat /\ DOMAIN w = 1 .. n /\ DOMAIN u = 1 .. n + 1
      /\ u[n + 1] = k /\ \A i \in 1 .. n : u[i] = w[i]
  BY <1>1, <1>3
<1>5. \A i \in 1 .. n : w[i] \in ToSet(used) \ {k}
  BY <1>1, <1>4 DEF ToSet
<1>6. IsInjective(u)
  BY <1>1, <1>4, <1>5 DEF IsInjective
<1>7. ToSet(u) = ToSet(used) \cup {k}
  <2>1. ToSet(u) = ToSet(w) \cup {k}
    BY <1>4 DEF ToSet
  <2> QED
    BY <1>1, <2>1
<1>8. ASSUME NEW i \in DOMAIN u, NEW j \in DOMAIN u, i < j
      PROVE  \/ \E g, h \in DOMAIN used :
                 g < h /\ used[g] # k /\ used[h] # k /\ u[i] = used[g] /\ u[j] = used[h]
             \/ u[j] = k /\ u[i] \in ToSet(used) \ {k}
  <2>1. i \in 1 .. n /\ u[i] = w[i] /\ w[i] \in ToSet(used) \ {k}
    BY <1>4, <1>5, <1>8
  <2>2. CASE j = n + 1
    BY <1>4, <2>1, <2>2
  <2>3. CASE j \in 1 .. n
    <3>1. PICK g, h \in DOMAIN used : g < h /\ w[i] = used[g] /\ w[j] = used[h]
      BY <1>2, <1>4, <1>8, <2>1, <2>3
    <3> QED
      BY <1>4, <1>5, <2>1, <2>3, <3>1
  <2> QED
    BY <1>4, <2>2, <2>3
<1> QED
  BY <1>4, <1>6, <1>7, <1>8 DEF u

-----------------------------------------------------------------------------
(* The map *)

Entry == [window : Windows, created : Nat, accessed : Nat, seq : Nat]

MapTypeOK == entries \in [Keys -> Entry \cup {NoEntry}] /\ nextSeq \in Nat /\ used \in Seq(Keys)

MapInv == MapTypeOK /\ UsedIsPresent /\ SeqsAreInOrder /\ MapIsFinite

\* An entry has a window, and no entry has none (CacheEntry).
LEMMA EntriesHaveAWindow ==
    /\ NoEntry \notin Entry /\ NoEntry.window = NoWindow
    /\ \A e \in Entry : e.window \in Windows /\ e.window # NoWindow
  BY MemoryCacheAssumption DEF Entry, NoEntry

\* An entry that is hit or stored becomes the one used last (get, insert).
LEMMA EntryUsed ==
    ASSUME MapInv, NEW k \in Keys, NEW e \in Entry, e.seq = nextSeq,
           entries' = [entries EXCEPT ![k] = e], nextSeq' = nextSeq + 1, used' = JustUsed(k)
    PROVE  MapInv' /\ Present(entries') = Present(entries) \cup {k}
<1>1. e # NoEntry
  BY EntriesHaveAWindow
<1>2. \A j \in Keys : entries'[j] = IF j = k THEN e ELSE entries[j]
  BY DEF MapInv, MapTypeOK
<1>3. Present(entries') = Present(entries) \cup {k}
  BY <1>1, <1>2 DEF Present
<1>4. /\ used' \in Seq(Keys) /\ IsInjective(used') /\ ToSet(used') = ToSet(used) \cup {k}
      /\ \A i, j \in DOMAIN used' : i < j =>
            \/ \E g, h \in DOMAIN used :
                 /\ g < h /\ used[g] # k /\ used[h] # k
                 /\ used'[i] = used[g] /\ used'[j] = used[h]
            \/ used'[j] = k /\ used'[i] \in ToSet(used) \ {k}
  BY UsedLast DEF MapInv, MapTypeOK, UsedIsPresent
<1>5. MapTypeOK'
  BY <1>4 DEF MapInv, MapTypeOK
<1>6. UsedIsPresent'
  BY <1>3, <1>4 DEF MapInv, UsedIsPresent
<1>7. SeqsAreInOrder'
  <2>1. ASSUME NEW j \in Keys, entries'[j] # NoEntry PROVE entries'[j].seq < nextSeq'
    <3>1. CASE j = k
      BY <1>2, <3>1 DEF MapInv, MapTypeOK
    <3>2. CASE j # k
      <4>1. entries[j] \in Entry /\ entries[j].seq < nextSeq /\ entries'[j] = entries[j]
        BY <1>2, <2>1, <3>2 DEF MapInv, MapTypeOK, SeqsAreInOrder
      <4> QED
        BY <4>1 DEF Entry, MapInv, MapTypeOK
    <3> QED
      BY <3>1, <3>2
  <2>2. ASSUME NEW i \in DOMAIN used', NEW j \in DOMAIN used', i < j
        PROVE  entries'[used'[i]].seq < entries'[used'[j]].seq
    <3>1. CASE \E g, h \in DOMAIN used : /\ g < h /\ used[g] # k /\ used[h] # k
                                         /\ used'[i] = used[g] /\ used'[j] = used[h]
      <4>1. PICK g, h \in DOMAIN used : /\ g < h /\ used[g] # k /\ used[h] # k
                                        /\ used'[i] = used[g] /\ used'[j] = used[h]
        BY <3>1
      <4>2. entries[used[g]].seq < entries[used[h]].seq
        BY <4>1 DEF MapInv, SeqsAreInOrder
      <4>3. used[g] \in Keys /\ used[h] \in Keys
        BY DEF MapInv, MapTypeOK
      <4> QED
        BY <1>2, <4>1, <4>2, <4>3
    <3>2. CASE used'[j] = k /\ used'[i] \in ToSet(used) \ {k}
      <4>1. used'[i] \in Keys /\ entries[used'[i]] # NoEntry
        BY <3>2 DEF MapInv, UsedIsPresent, Present
      <4> QED
        BY <1>2, <3>2, <4>1 DEF MapInv, SeqsAreInOrder
    <3> QED
      BY <1>4, <2>2, <3>1, <3>2
  <2> QED
    BY <2>1, <2>2 DEF SeqsAreInOrder
<1>8. MapIsFinite'
  BY <1>3, FS_AddElement DEF MapInv, MapIsFinite
<1> QED
  BY <1>3, <1>5, <1>6, <1>7, <1>8 DEF MapInv

\* An entry that is evicted or has expired leaves the others in their order
\* (evict_lru, get).
LEMMA EntryGone ==
    ASSUME MapInv, NEW k \in Keys, nextSeq' = nextSeq,
           entries' = [entries EXCEPT ![k] = NoEntry], used' = Without(k)
    PROVE  MapInv' /\ Present(entries') = Present(entries) \ {k}
<1>1. \A j \in Keys : entries'[j] = IF j = k THEN NoEntry ELSE entries[j]
  BY DEF MapInv, MapTypeOK
<1>2. Present(entries') = Present(entries) \ {k}
  BY <1>1 DEF Present
<1>3. /\ used' \in Seq(Keys) /\ IsInjective(used') /\ ToSet(used') = ToSet(used) \ {k}
      /\ \A i, j \in DOMAIN used' : i < j =>
            \E g, h \in DOMAIN used : g < h /\ used'[i] = used[g] /\ used'[j] = used[h]
  BY WithoutOne DEF MapInv, MapTypeOK, UsedIsPresent
<1>4. MapTypeOK' /\ UsedIsPresent'
  BY <1>2, <1>3 DEF MapInv, MapTypeOK, UsedIsPresent
<1>5. SeqsAreInOrder'
  <2>1. ASSUME NEW j \in Keys, entries'[j] # NoEntry PROVE entries'[j].seq < nextSeq'
    BY <1>1, <2>1 DEF MapInv, SeqsAreInOrder
  <2>2. ASSUME NEW i \in DOMAIN used', NEW j \in DOMAIN used', i < j
        PROVE  entries'[used'[i]].seq < entries'[used'[j]].seq
    <3>1. PICK g, h \in DOMAIN used : g < h /\ used'[i] = used[g] /\ used'[j] = used[h]
      BY <1>3, <2>2
    <3>2. entries[used[g]].seq < entries[used[h]].seq
      BY <3>1 DEF MapInv, SeqsAreInOrder
    <3>3. used'[i] \in Present(entries) \ {k} /\ used'[j] \in Present(entries) \ {k}
      BY <1>3 DEF MapInv, UsedIsPresent, ToSet
    <3> QED
      BY <1>1, <3>1, <3>2, <3>3 DEF Present
  <2> QED
    BY <2>1, <2>2 DEF SeqsAreInOrder
<1>6. MapIsFinite'
  BY <1>2, FS_RemoveElement DEF MapInv, MapIsFinite
<1> QED
  BY <1>2, <1>4, <1>5, <1>6 DEF MapInv

-----------------------------------------------------------------------------
(* The invariant *)

LEMMA MemInvParts == MemInv => MapInv /\ Present(entries) \subseteq Keys
  BY DEF MemInv, TypeOK, MapInv, MapTypeOK, Entry, Present

\* The statistics are counters (CacheStats).
LEMMA StatsCount ==
    ASSUME NEW s \in Stats
    PROVE  /\ [s EXCEPT !.hits = @ + 1] \in Stats
           /\ [s EXCEPT !.misses = @ + 1] \in Stats
           /\ [s EXCEPT !.expirations = @ + 1, !.misses = @ + 2] \in Stats
           /\ [s EXCEPT !.evictions = @ + 1] \in Stats
           /\ [s EXCEPT !.skips = @ + 1] \in Stats
           /\ \A n \in Nat : [s EXCEPT !.entries = n] \in Stats
<1>1. [s EXCEPT !.hits = @ + 1] \in Stats
  BY DEF Stats
<1>2. [s EXCEPT !.misses = @ + 1] \in Stats
  BY DEF Stats
<1>3. [s EXCEPT !.expirations = @ + 1, !.misses = @ + 2] \in Stats
  <2> DEFINE r == [s EXCEPT !.expirations = @ + 1]
  <2>1. r \in Stats
    BY DEF Stats
  <2>2. [s EXCEPT !.expirations = @ + 1, !.misses = @ + 2] = [r EXCEPT !.misses = @ + 2]
    BY DEF Stats
  <2> HIDE DEF r
  <2>3. [r EXCEPT !.misses = @ + 2] \in Stats
    BY <2>1 DEF Stats
  <2> QED
    BY <2>2, <2>3
<1>4. [s EXCEPT !.evictions = @ + 1] \in Stats
  BY DEF Stats
<1>5. [s EXCEPT !.skips = @ + 1] \in Stats
  BY DEF Stats
<1>6. \A n \in Nat : [s EXCEPT !.entries = n] \in Stats
  BY DEF Stats
<1> QED
  BY <1>1, <1>2, <1>3, <1>4, <1>5, <1>6

\* The limit is set before the cache is shared (MemoryCache::with_max_entries).
LEMMA LimitStays ==
    ASSUME [Next]_vars
    PROVE  maxEntries' = maxEntries
  BY DEF Next, Get, GetHit, GetExpired, GetMiss, InsertLock, Insert, Evict, Store, Clear,
         RecordSkipInsert, Tick, StepBack, vars

\* Types of the variables, step by step (MemoryCache).
LEMMA TypeStep ==
    ASSUME MemInv, [Next]_vars, MapTypeOK'
    PROVE  TypeOK' /\ InsertHasAWindow'
<1> USE DEF MemInv, TypeOK
<1>1. /\ entries' \in [Keys -> [window : Windows, created : Nat, accessed : Nat, seq : Nat]
                                 \cup {NoEntry}]
      /\ nextSeq' \in Nat /\ used' \in Seq(Keys) /\ maxEntries' \in Nat
  BY LimitStays DEF MapTypeOK, Entry
<1>2. ASSUME NEW c \in Callers, NEW k \in Keys, Get(c, k)
      PROVE  TypeOK' /\ InsertHasAWindow'
  <2>1. gets' \in Nat /\ now' \in Nat /\ insert' = insert
    BY <1>2 DEF Get, GetHit, GetExpired, GetMiss, Counted
  <2>2. stats' \in Stats
    BY <1>2, StatsCount DEF Get, GetHit, GetExpired, GetMiss
  <2>3. PICK w \in Windows \cup {NoWindow} : got' = [got EXCEPT ![c][k] = w]
    BY <1>2, EntriesHaveAWindow DEF Get, GetHit, GetExpired, GetMiss, Entry
  <2>4. got' \in [Callers -> [Keys -> Windows \cup {NoWindow}]]
    BY <2>3
  <2> QED
    BY <1>1, <2>1, <2>2, <2>4 DEF InsertHasAWindow
<1>3. ASSUME NEW c \in Callers, NEW k \in Keys, NEW w \in Windows, InsertLock(c, k, w)
      PROVE  TypeOK' /\ InsertHasAWindow'
  BY <1>1, <1>3 DEF InsertLock, InsertHasAWindow
<1>4. ASSUME NEW c \in Callers, Evict(c)
      PROVE  TypeOK' /\ InsertHasAWindow'
  BY <1>1, <1>4, StatsCount DEF Evict, InsertHasAWindow
<1>5. ASSUME NEW c \in Callers, Store(c), Cardinality(Present(entries')) \in Nat
      PROVE  TypeOK' /\ InsertHasAWindow'
  <2>1. NoInsert \in [who : Callers \cup {NoCaller}, key : Keys, window : Windows \cup {NoWindow}]
        /\ NoInsert.who = NoCaller
    BY MemoryCacheAssumption DEF NoInsert
  <2> QED
    BY <1>1, <1>5, <2>1, StatsCount DEF Store, InsertHasAWindow
<1>6. CASE \E c \in Callers : Clear(c)
  <2>1. stats' = [stats EXCEPT !.entries = 0]
    BY <1>6 DEF Clear
  <2>2. stats' \in Stats
    BY <2>1, StatsCount
  <2> QED
    BY <1>1, <1>6, <2>2 DEF Clear, InsertHasAWindow
<1>7. CASE RecordSkipInsert \/ Tick \/ StepBack \/ UNCHANGED vars
  <2>1. stats' \in Stats
    BY <1>7, StatsCount DEF RecordSkipInsert, Tick, StepBack, vars
  <2>2. now' \in Nat
    BY <1>7 DEF RecordSkipInsert, Tick, StepBack, vars
  <2>3. UNCHANGED <<insert, got, gets>>
    BY <1>7 DEF RecordSkipInsert, Tick, StepBack, vars
  <2> QED
    BY <1>1, <2>1, <2>2, <2>3 DEF InsertHasAWindow
<1>8. ASSUME NEW c \in Callers, Store(c)
      PROVE  Cardinality(Present(entries')) \in Nat
  <2>1. entries' \in [Keys -> Entry \cup {NoEntry}]
        /\ Present(entries') \subseteq Present(entries) \cup {insert.key}
    BY <1>8 DEF MapTypeOK, Store, Present
  <2>2. IsFiniteSet(Present(entries) \cup {insert.key})
    BY FS_AddElement DEF MapIsFinite
  <2> QED
    BY <2>1, <2>2, FS_Subset, FS_CardinalityType
<1> QED
  BY <1>2, <1>3, <1>4, <1>5, <1>6, <1>7, <1>8 DEF Next, Insert

\* What each step does to the map: it touches one entry, drops one, drops all or
\* leaves it as it is (MemoryCache).
LEMMA MapStep ==
    ASSUME MemInv, [Next]_vars
    PROVE  MapInv' /\ NeverOverLimit'
<1> DEFINE P == Present(entries)
<1>1. MapInv /\ P \subseteq Keys /\ IsFiniteSet(P) /\ Cardinality(P) \in Nat
      /\ Cardinality(P) <= maxEntries /\ maxEntries \in Nat
  BY MemInvParts, FS_CardinalityType DEF MapInv, MapIsFinite, MemInv, TypeOK, NeverOverLimit
<1>2. ASSUME MapInv', Present(entries') \subseteq P
      PROVE  NeverOverLimit'
  <2>1. Cardinality(Present(entries')) <= Cardinality(P)
        /\ Cardinality(Present(entries')) \in Nat
    BY <1>1, <1>2, FS_Subset, FS_CardinalityType
  <2> QED
    BY <1>1, <2>1, LimitStays DEF NeverOverLimit
<1>3. ASSUME NEW c \in Callers, NEW k \in Keys, GetHit(c, k)
      PROVE  MapInv' /\ NeverOverLimit'
  <2> DEFINE e == [entries[k] EXCEPT !.accessed = now, !.seq = nextSeq]
  <2>1. e \in Entry /\ e.seq = nextSeq /\ k \in P
    BY <1>3 DEF GetHit, MemInv, TypeOK, Entry, Present
  <2>2. entries' = [entries EXCEPT ![k] = e]
    BY <1>3 DEF GetHit, MemInv, TypeOK
  <2> QED
    BY <1>1, <1>2, <1>3, <2>1, <2>2, EntryUsed DEF GetHit
<1>4. ASSUME NEW k \in Keys, nextSeq' = nextSeq, used' = Without(k),
             entries' = [entries EXCEPT ![k] = NoEntry]
      PROVE  MapInv' /\ NeverOverLimit'
  BY <1>1, <1>2, <1>4, EntryGone
<1>5. ASSUME UNCHANGED <<entries, used, nextSeq>>
      PROVE  MapInv' /\ NeverOverLimit'
  <2>1. MapInv'
    BY <1>1, <1>5 DEF MapInv, MapTypeOK, UsedIsPresent, SeqsAreInOrder, MapIsFinite, Present
  <2> QED
    BY <1>2, <1>5, <2>1
<1>6. ASSUME NEW c \in Callers, Store(c)
      PROVE  MapInv' /\ NeverOverLimit'
  <2> DEFINE k == insert.key
             e == [window |-> insert.window, created |-> now, accessed |-> now, seq |-> nextSeq]
  <2>1. insert.who # NoCaller
    BY <1>6, MemoryCacheAssumption DEF Store
  <2>2. k \in Keys /\ e \in Entry /\ e.seq = nextSeq
    BY <2>1 DEF MemInv, TypeOK, InsertHasAWindow, Entry
  <2>3. entries' = [entries EXCEPT ![k] = e] /\ nextSeq' = nextSeq + 1 /\ used' = JustUsed(k)
    BY <1>6 DEF Store
  <2> HIDE DEF k, e
  <2>4. MapInv' /\ Present(entries') = P \cup {k}
    BY <1>1, <2>2, <2>3, EntryUsed
  <2>5. Cardinality(P) < maxEntries
    BY <1>1, <1>6 DEF Store, Full
  <2>6. Cardinality(P \cup {k}) = IF k \in P THEN Cardinality(P) ELSE Cardinality(P) + 1
    BY <1>1, FS_AddElement
  <2> QED
    BY <1>1, <2>4, <2>5, <2>6, LimitStays DEF NeverOverLimit
<1>7. ASSUME NEW c \in Callers, Clear(c)
      PROVE  MapInv' /\ NeverOverLimit'
  <2>1. Present(entries') = {} /\ \A k \in Keys : entries'[k] = NoEntry
    BY <1>7 DEF Clear, Present
  <2>2. used' = <<>> /\ ToSet(used') = {} /\ IsInjective(used')
    BY <1>7 DEF Clear, ToSet, IsInjective
  <2>3. MapTypeOK'
    BY <1>1, <1>7, <2>2 DEF Clear, MapTypeOK, MapInv
  <2>4. MapInv'
    BY <2>1, <2>2, <2>3, FS_EmptySet DEF MapInv, UsedIsPresent, SeqsAreInOrder, MapIsFinite
  <2> QED
    BY <1>2, <2>1, <2>4
<1>8. ASSUME NEW c \in Callers, Evict(c)
      PROVE  MapInv' /\ NeverOverLimit'
  BY <1>4, <1>5, <1>8 DEF Evict
<1>9. ASSUME NEW c \in Callers, NEW k \in Keys, Get(c, k)
      PROVE  MapInv' /\ NeverOverLimit'
  BY <1>3, <1>4, <1>5, <1>9 DEF Get, GetExpired, GetMiss
<1>10. CASE \/ \E c \in Callers, k \in Keys, w \in Windows : InsertLock(c, k, w)
            \/ RecordSkipInsert \/ Tick \/ StepBack \/ UNCHANGED vars
  BY <1>5, <1>10 DEF InsertLock, RecordSkipInsert, Tick, StepBack, vars
<1> QED
  BY <1>6, <1>7, <1>8, <1>9, <1>10 DEF Next, Insert

\* The map, its order of use and its limit hold in every state (MemoryCache).
THEOREM MemoryInvariant == Spec => []MemInv
<1>1. Init => MemInv
  <2> SUFFICES ASSUME Init PROVE MemInv
    OBVIOUS
  <2>1. used = <<>> /\ ToSet(used) = {} /\ IsInjective(used) /\ Present(entries) = {}
    BY DEF Init, ToSet, IsInjective, Present
  <2>2. MapIsFinite /\ NeverOverLimit
    <3>1. maxEntries \in Nat
      BY MemoryCacheAssumption DEF Init
    <3>2. IsFiniteSet({}) /\ Cardinality({}) = 0
      BY FS_EmptySet
    <3> QED
      BY <2>1, <3>1, <3>2 DEF MapIsFinite, NeverOverLimit
  <2>3. TypeOK
    BY MemoryCacheAssumption DEF Init, TypeOK, NoInsert, Stats
  <2>4. UsedIsPresent /\ SeqsAreInOrder
    <3>1. DOMAIN used = {} /\ \A k \in Keys : entries[k] = NoEntry
      BY <2>1 DEF Init
    <3> QED
      BY <2>1, <3>1 DEF UsedIsPresent, SeqsAreInOrder
  <2>5. InsertHasAWindow
    BY DEF Init, InsertHasAWindow, NoInsert
  <2> QED
    BY <2>2, <2>3, <2>4, <2>5 DEF MemInv
<1>2. MemInv /\ [Next]_vars => MemInv'
  BY MapStep, TypeStep DEF MemInv, MapInv
<1> QED
  BY <1>1, <1>2, PTL DEF Spec

\* The map never holds more entries than its limit, whoever inserts (insert).
THEOREM MapStaysWithinLimit == Spec => []NeverOverLimit
<1>1. MemInv => NeverOverLimit
  BY DEF MemInv
<1> QED
  BY <1>1, MemoryInvariant, PTL

-----------------------------------------------------------------------------
(* Eviction *)

\* Of entries used in the order of the clock, the one used first is the least
\* recent (evict_lru).
LEMMA FirstUsedIsLru ==
    ASSUME MemInv, UsedInClockOrder, used # <<>>, NEW k \in Keys, IsLru(k)
    PROVE  k = Head(used)
<1> DEFINE n == Len(used)
<1>1. n \in Nat /\ DOMAIN used = 1 .. n /\ 1 \in 1 .. n /\ Head(used) = used[1]
  BY DEF MemInv, TypeOK
<1>2. \A i \in 1 .. n : used[i] \in Present(entries)
  BY <1>1 DEF MemInv, UsedIsPresent, ToSet
<1>3. \A j \in Present(entries) : j \in Keys /\ entries[j].seq \in Nat /\ entries[j].accessed \in Nat
  BY DEF MemInv, TypeOK, Present
<1>4. PICK i \in 1 .. n : k = used[i]
  BY <1>1 DEF IsLru, MemInv, UsedIsPresent, ToSet
<1>5. CASE i # 1
  <2>1. entries[used[1]].seq < entries[k].seq
    BY <1>1, <1>4, <1>5 DEF MemInv, SeqsAreInOrder
  <2>2. entries[used[1]].accessed <= entries[k].accessed
    BY <1>1, <1>4, <1>5 DEF UsedInClockOrder
  <2>3. LessRecent(k, used[1])
    BY <1>1, <1>2 DEF IsLru
  <2> QED
    BY <1>1, <1>2, <1>3, <1>4, <2>1, <2>2, <2>3 DEF LessRecent
<1> QED
  BY <1>1, <1>4, <1>5

\* What an insert evicts is what was used least recently, hits included, as long
\* as the clock has not gone back between two uses (evict_lru).
THEOREM EvictionIsLru == Spec => EvictsLeastRecentlyUsed
<1>1. MemInv => \A c \in Callers : UsedInClockOrder => EvictsFirstUsed(c)
  <2> SUFFICES ASSUME MemInv, NEW c \in Callers, UsedInClockOrder, Evict(c), used # <<>>
               PROVE  entries'[Head(used)] = NoEntry
    BY DEF EvictsFirstUsed
  <2>1. Present(entries) # {}
    <3>1. 1 \in DOMAIN used /\ used[1] \in ToSet(used)
      BY DEF MemInv, TypeOK, ToSet
    <3> QED
      BY <3>1 DEF MemInv, UsedIsPresent
  <2>2. PICK k \in Keys : IsLru(k) /\ entries' = [entries EXCEPT ![k] = NoEntry]
    BY <2>1 DEF Evict
  <2>3. k = Head(used)
    BY <2>2, FirstUsedIsLru
  <2> QED
    BY <2>2, <2>3 DEF MemInv, TypeOK
<1> QED
  BY <1>1, MemoryInvariant, PTL DEF EvictsLeastRecentlyUsed

-----------------------------------------------------------------------------
(* The refinement *)

\* A get answers with what is held or with nothing, and may drop it (get).
LEMMA GetRefines ==
    ASSUME TypeOK, NEW c \in Callers, NEW k \in Keys, Get(c, k)
    PROVE  Abstract!Next
<1>1. NoEntry.window = NoWindow
  BY DEF NoEntry
<1>2. Asked' = Asked
  BY DEF Get, GetHit, GetExpired, GetMiss, Asked
<1>3. \E w \in {Held[k], NoWindow} : got' = [got EXCEPT ![c][k] = w]
  BY DEF Get, GetHit, GetExpired, GetMiss, Held
<1>4. Held' = Held \/ Held' = [Held EXCEPT ![k] = NoWindow]
  <2>1. CASE GetHit(c, k)
    <3>1. \A j \in Keys : entries'[j].window = entries[j].window
      BY <2>1 DEF GetHit, TypeOK
    <3> QED
      BY <3>1 DEF Held
  <2>2. CASE GetExpired(c, k)
    <3>1. \A j \in Keys : entries'[j].window = IF j = k THEN NoWindow ELSE entries[j].window
      BY <1>1, <2>2 DEF GetExpired, TypeOK
    <3> QED
      BY <3>1 DEF Held
  <2>3. CASE GetMiss(c, k)
    BY <2>3 DEF GetMiss, Held
  <2> QED
    BY <2>1, <2>2, <2>3 DEF Get
<1>5. Abstract!Get(c, k)
  BY <1>2, <1>3, <1>4 DEF Abstract!Get
<1> QED
  BY <1>5 DEF Abstract!Next

\* Eviction and clear lose entries (evict_lru, clear).
LEMMA LossRefines ==
    ASSUME TypeOK, TypeOK', NEW c \in Callers, Evict(c) \/ Clear(c)
    PROVE  Abstract!Next
<1>1. \A k \in Keys : entries'[k] \in {entries[k], NoEntry}
  BY DEF Evict, Clear, TypeOK
<1>2. \A k \in Keys : Held'[k] \in {Held[k], NoWindow}
  BY <1>1 DEF Held, NoEntry
<1>3. Held' \in [Keys -> Windows \cup {NoWindow}]
  BY DEF TypeOK, Held, NoEntry
<1>4. Asked' = Asked /\ got' = got
  BY DEF Evict, Clear, Asked
<1>5. Abstract!Lose
  BY <1>2, <1>3, <1>4 DEF Abstract!Lose, Abstract!Lost
<1> QED
  BY <1>5 DEF Abstract!Next

\* An insert makes its entry, and no other, appear (insert).
LEMMA StoreRefines ==
    ASSUME TypeOK, TypeOK', NEW c \in Callers, Store(c)
    PROVE  Abstract!Next
<1> DEFINE a == <<insert.key, insert.window>>
<1>1. Asked[c] = {a}
  BY DEF Store, Asked
<1>2. Asked' = [Asked EXCEPT ![c] = {}]
  <2>1. \A d \in Callers : d # c => Asked[d] = {}
    BY DEF Store, Asked
  <2>2. insert'.who = NoCaller
    BY DEF Store, NoInsert
  <2>3. \A d \in Callers : Asked'[d] = {}
    BY <2>2, MemoryCacheAssumption DEF Asked
  <2>4. DOMAIN Asked = Callers /\ Asked' = [d \in Callers |-> Asked'[d]]
    BY DEF Asked
  <2> QED
    BY <2>1, <2>3, <2>4
<1>3. \A k \in Keys : Held'[k] = IF k = insert.key THEN insert.window ELSE Held[k]
  BY DEF Store, TypeOK, Held
<1>4. \A k \in Keys : Held'[k] \in {[Held EXCEPT ![a[1]] = a[2]][k], NoWindow}
  BY <1>3 DEF Held
<1>5. Held' \in [Keys -> Windows \cup {NoWindow}]
  BY DEF TypeOK, Held, NoEntry
<1>6. got' = got
  BY DEF Store
<1>7. Abstract!Insert(c)
  BY <1>1, <1>2, <1>4, <1>5, <1>6 DEF Abstract!Insert, Abstract!Lost
<1> QED
  BY <1>7 DEF Abstract!Next

\* The map behind its mutex is a BlockWindowCache: a get answers with what was
\* inserted last under its key or with nothing (MemoryCache).
THEOREM MemoryImplementsBlockWindowCache == Spec => IsBlockWindowCache
<1>1. Init => Abstract!Init
  BY MemoryCacheAssumption DEF Init, Abstract!Init, Held, Asked, NoEntry, NoInsert
<1>2. MemInv /\ MemInv' /\ [Next]_vars => [Abstract!Next]_(Abstract!vars)
  <2> SUFFICES ASSUME MemInv, MemInv', [Next]_vars
               PROVE  Abstract!Next \/ Abstract!vars' = Abstract!vars
    OBVIOUS
  <2> USE DEF MemInv
  <2>1. ASSUME NEW c \in Callers, NEW k \in Keys, Get(c, k)
        PROVE  Abstract!Next
    BY <2>1, GetRefines
  <2>2. ASSUME NEW c \in Callers, NEW k \in Keys, NEW w \in Windows, InsertLock(c, k, w)
        PROVE  Abstract!Next
    <3>1. \A d \in Callers : Asked[d] = {}
      BY <2>2, MemoryCacheAssumption DEF InsertLock, Unlocked, Asked
    <3>2. Asked' = [Asked EXCEPT ![c] = {<<k, w>>}]
      BY <2>2, <3>1 DEF InsertLock, Asked
    <3>3. Held' = Held /\ got' = got
      BY <2>2 DEF InsertLock, Held
    <3>4. Abstract!InsertBegins(c, k, w)
      BY <3>1, <3>2, <3>3 DEF Abstract!InsertBegins
    <3> QED
      BY <3>4 DEF Abstract!Next
  <2>3. ASSUME NEW c \in Callers, Insert(c) \/ Clear(c)
        PROVE  Abstract!Next
    BY <2>3, LossRefines, StoreRefines DEF Insert
  <2>4. CASE RecordSkipInsert \/ Tick \/ StepBack \/ UNCHANGED vars
    <3>1. UNCHANGED <<entries, insert, got>>
      BY <2>4 DEF RecordSkipInsert, Tick, StepBack, vars
    <3> QED
      BY <3>1 DEF Abstract!vars, Held, Asked
  <2> QED
    BY <2>1, <2>2, <2>3, <2>4 DEF Next
<1> QED
  BY <1>1, <1>2, MemoryInvariant, PTL DEF Spec, IsBlockWindowCache, Abstract!Spec
=============================================================================
