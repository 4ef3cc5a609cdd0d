--------------------------- MODULE PriceQuery_proofs ---------------------------
(***************************************************************************)
(* Proofs about PriceQuery, for every chain, every set of tokens, every     *)
(* window and every chunk size.                                            *)
(***************************************************************************)
EXTENDS PriceQuery, BlockRangeCache_proofs

\* The logs of some blocks
LogsOf(blocks) == {log \in ToSet(Logs) : log.block \in blocks}

\* The swaps of a token in some blocks, each counted once
Prices(token, blocks) == [seen |-> SwapsIn(token, blocks), again |-> {}]

\* The same as RangeQuery counts it
BlockCells(token, blocks) == [seen |-> {token} \X blocks, again |-> {}]

-----------------------------------------------------------------------------
(* Logs *)

LEMMA LogTypes ==
    /\ Len(Logs) \in Nat /\ DOMAIN Logs = 1 .. Len(Logs)
    /\ \A i \in DOMAIN Logs : Logs[i] \in Log
    /\ \A log \in ToSet(Logs) : log \in Log
    /\ \A log \in Log : log.block \in Blocks /\ log.block \in Nat
<1>1. Logs \in Seq(Log)
  BY PriceQueryAssumption
<1>2. \A log \in Log : log.block \in Blocks /\ log.block \in Nat
  BY U64MaxAssumption DEF Log, Blocks
<1>3. Len(Logs) \in Nat /\ DOMAIN Logs = 1 .. Len(Logs) /\ \A i \in DOMAIN Logs : Logs[i] \in Log
  BY <1>1
<1> QED
  BY <1>2, <1>3 DEF ToSet

LEMMA IntervalSize == ASSUME NEW k \in Nat PROVE Cardinality(1 .. k) = k
<1>1. Cardinality(1 .. k) = IF 1 > k THEN 0 ELSE k - 1 + 1
  BY FS_Interval
<1> QED
  BY <1>1

\* The logs of the first blocks come first.
LEMMA LogsBeforeSplits ==
    ASSUME NEW b \in Int
    PROVE  /\ LogsBefore(b) \in 0 .. Len(Logs)
           /\ \A i \in DOMAIN Logs : Logs[i].block < b <=> i <= LogsBefore(b)
<1> DEFINE D == {i \in DOMAIN Logs : Logs[i].block < b}
           n == Len(Logs)
<1>1. n \in Nat /\ DOMAIN Logs = 1 .. n /\ LogsBefore(b) = Cardinality(D)
  BY LogTypes DEF LogsBefore
<1>2. \A i \in DOMAIN Logs : Logs[i].block \in Nat
  BY LogTypes
<1> HIDE DEF n
<1>3. CASE D = 1 .. n
  <2>1. Cardinality(D) = n
    BY <1>1, <1>3, IntervalSize
  <2> QED
    <3>1. \A i \in 1 .. n : Logs[i].block < b <=> i <= n
      BY <1>1, <1>3
    <3>2. LogsBefore(b) = n /\ n \in 0 .. n
      BY <1>1, <2>1
    <3> QED
      BY <1>1, <3>1, <3>2 DEF n
<1>4. CASE D # 1 .. n
  <2>1. PICK m \in (1 .. n) \ D : \A x \in (1 .. n) \ D : m <= x
    <3>1. (1 .. n) \ D \in SUBSET Nat /\ (1 .. n) \ D # {}
      BY <1>1, <1>4
    <3> QED
      BY <3>1, SetMin
  <2>2. \A i \in 1 .. n : i < m => i \in D
    BY <1>1, <2>1
  <2>3. ASSUME NEW i \in 1 .. n, m <= i
        PROVE  ~(Logs[i].block < b)
    <3>1. ~(Logs[m].block < b)
      BY <1>1, <2>1
    <3>2. m = i \/ Logs[m].block <= Logs[i].block
      BY <1>1, <2>1, <2>3, PriceQueryAssumption
    <3>3. i = m \/ ~(Logs[i].block < b)
      BY <1>1, <1>2, <2>1, <3>1, <3>2
    <3> QED
      BY <3>1, <3>3
  <2>4. D = 1 .. m - 1
    BY <1>1, <2>1, <2>2, <2>3
  <2>5. Cardinality(D) = m - 1
    <3>1. m - 1 \in Nat
      BY <1>1, <2>1
    <3> QED
      BY <2>4, <3>1, IntervalSize
  <2>6. \A i \in 1 .. n : Logs[i].block < b <=> i <= m - 1
    BY <1>1, <2>1, <2>2, <2>3
  <2>7. m - 1 \in 0 .. n
    BY <1>1, <2>1
  <2> QED
    BY <1>1, <2>5, <2>6, <2>7 DEF n
<1> QED
  BY <1>3, <1>4

\* A get_logs answers with the logs of its blocks, each once.
LEMMA LogsInAreThose ==
    ASSUME NEW from \in Nat, NEW to \in Int, from <= to + 1
    PROVE  /\ LogsIn(from, to) \in Seq(Log)
           /\ IsInjective(LogsIn(from, to))
           /\ ToSet(LogsIn(from, to)) = LogsOf(from .. to)
<1> DEFINE m == LogsBefore(from)
           n == LogsBefore(to + 1)
           s == LogsIn(from, to)
<1>1. /\ m \in 0 .. Len(Logs) /\ n \in 0 .. Len(Logs) /\ Len(Logs) \in Nat
      /\ \A i \in 1 .. Len(Logs) :
            /\ (Logs[i].block < from) <=> (i <= m)
            /\ (Logs[i].block < to + 1) <=> (i <= n)
            /\ Logs[i].block \in Nat /\ Logs[i] \in Log
  <2>1. from \in Int /\ to + 1 \in Int
    OBVIOUS
  <2>2. \A i \in 1 .. Len(Logs) : Logs[i].block \in Nat /\ Logs[i] \in Log
    BY LogTypes
  <2>3. /\ m \in 0 .. Len(Logs)
        /\ \A i \in DOMAIN Logs : (Logs[i].block < from) <=> (i <= m)
    BY <2>1, LogsBeforeSplits
  <2>4. /\ n \in 0 .. Len(Logs)
        /\ \A i \in DOMAIN Logs : (Logs[i].block < to + 1) <=> (i <= n)
    BY <2>1, LogsBeforeSplits
  <2> QED
    BY <2>2, <2>3, <2>4, LogTypes
<1>2. s = SubSeq(Logs, m + 1, n)
  BY DEF LogsIn
<1> HIDE DEF m, n, s
<1>4. m <= n
  <2> SUFFICES ASSUME n < m PROVE FALSE
    BY <1>1
  <2>1. m \in 1 .. Len(Logs)
    BY <1>1
  <2>2. Logs[m].block < from /\ ~(Logs[m].block < to + 1) /\ Logs[m].block \in Nat
    BY <1>1, <2>1
  <2> QED
    BY <2>2
<1>5. /\ s \in Seq(Log) /\ Len(s) = n - m /\ DOMAIN s = 1 .. n - m
      /\ \A i \in 1 .. n - m : s[i] = Logs[i + m]
  <2>1. Logs \in Seq(Log)
    BY PriceQueryAssumption
  <2>2. m + 1 \in 1 .. Len(Logs) + 1 /\ n \in m .. Len(Logs)
    BY <1>1, <1>4
  <2> QED
    BY <1>1, <1>2, <1>4, <2>1, <2>2
<1>6. IsInjective(s)
  <2> SUFFICES ASSUME NEW i \in 1 .. n - m, NEW j \in 1 .. n - m, s[i] = s[j], i # j
               PROVE  FALSE
    BY <1>5 DEF IsInjective
  <2>1. i + m \in DOMAIN Logs /\ j + m \in DOMAIN Logs /\ (i + m < j + m \/ j + m < i + m)
    BY <1>1, <1>4, LogTypes
  <2> QED
    BY <1>5, <2>1, PriceQueryAssumption
<1>7. ASSUME NEW i \in 1 .. n - m
      PROVE  s[i] \in LogsOf(from .. to)
  <2>1. i + m \in 1 .. Len(Logs) /\ ~(i + m <= m) /\ i + m <= n
    BY <1>1, <1>4
  <2>2. Logs[i + m].block \in from .. to
    BY <1>1, <2>1
  <2> QED
    BY <1>5, <2>1, <2>2, LogTypes DEF LogsOf, ToSet
<1>8. ASSUME NEW log \in LogsOf(from .. to)
      PROVE  \E i \in 1 .. n - m : log = s[i]
  <2>1. PICK i \in 1 .. Len(Logs) : log = Logs[i] /\ Logs[i].block \in from .. to
    BY LogTypes DEF LogsOf, ToSet
  <2>2. ~(i <= m) /\ i <= n
    BY <1>1, <2>1
  <2>3. i - m \in 1 .. n - m /\ (i - m) + m = i
    BY <1>1, <2>2
  <2> QED
    BY <1>5, <2>1, <2>3
<1>9. ToSet(s) = LogsOf(from .. to)
  BY <1>5, <1>7, <1>8 DEF ToSet
<1> QED
  BY <1>5, <1>6, <1>9 DEF s

\* The chunks of a scan, one after the other
LEMMA ChunksJoin ==
    ASSUME NEW s \in Seq(Log), NEW t \in Seq(Log), IsInjective(s), IsInjective(t),
           ToSet(s) \cap ToSet(t) = {}
    PROVE  /\ s \o t \in Seq(Log) /\ IsInjective(s \o t)
           /\ ToSet(s \o t) = ToSet(s) \cup ToSet(t)
<1> DEFINE u == s \o t
<1>1. /\ u \in Seq(Log) /\ Len(u) = Len(s) + Len(t) /\ Len(s) \in Nat /\ Len(t) \in Nat
      /\ DOMAIN s = 1 .. Len(s) /\ DOMAIN t = 1 .. Len(t) /\ DOMAIN u = 1 .. Len(u)
      /\ \A i \in 1 .. Len(s) : u[i] = s[i]
      /\ \A i \in 1 .. Len(t) : u[i + Len(s)] = t[i]
  OBVIOUS
<1> HIDE DEF u
<1>2. \A i \in 1 .. Len(u) : i \in 1 .. Len(s) \/ (i - Len(s) \in 1 .. Len(t) /\ u[i] = t[i - Len(s)])
  <2> TAKE i \in 1 .. Len(u)
  <2>1. CASE i <= Len(s)
    BY <1>1, <2>1
  <2>2. CASE i > Len(s)
    <3>1. i - Len(s) \in 1 .. Len(t) /\ (i - Len(s)) + Len(s) = i
      BY <1>1, <2>2
    <3> QED
      BY <1>1, <3>1
  <2> QED
    BY <1>1, <2>1, <2>2
<1>3. ToSet(u) = ToSet(s) \cup ToSet(t)
  <2>1. \A i \in 1 .. Len(u) : u[i] \in ToSet(s) \cup ToSet(t)
    BY <1>1, <1>2 DEF ToSet
  <2>2. \A i \in 1 .. Len(s) : s[i] \in ToSet(u)
    BY <1>1 DEF ToSet
  <2>3. \A i \in 1 .. Len(t) : t[i] \in ToSet(u)
    <3> TAKE i \in 1 .. Len(t)
    <3>1. i + Len(s) \in DOMAIN u
      BY <1>1
    <3> QED
      BY <1>1, <3>1 DEF ToSet
  <2> QED
    <3>1. /\ ToSet(u) = {u[i] : i \in 1 .. Len(u)} /\ ToSet(s) = {s[i] : i \in 1 .. Len(s)}
          /\ ToSet(t) = {t[i] : i \in 1 .. Len(t)}
      BY <1>1 DEF ToSet
    <3>2. ToSet(u) \subseteq ToSet(s) \cup ToSet(t)
      BY <2>1, <3>1
    <3>3. ToSet(s) \subseteq ToSet(u) /\ ToSet(t) \subseteq ToSet(u)
      BY <2>2, <2>3, <3>1
    <3> QED
      BY <3>2, <3>3
<1>4. IsInjective(u)
  <2> SUFFICES ASSUME NEW i \in 1 .. Len(u), NEW j \in 1 .. Len(u), u[i] = u[j]
               PROVE  i = j
    BY <1>1 DEF IsInjective
  <2>1. CASE i \in 1 .. Len(s) /\ j \in 1 .. Len(s)
    BY <1>1, <2>1 DEF IsInjective
  <2>2. CASE i \notin 1 .. Len(s) /\ j \notin 1 .. Len(s)
    <3>1. /\ i - Len(s) \in DOMAIN t /\ j - Len(s) \in DOMAIN t
          /\ t[i - Len(s)] = t[j - Len(s)]
      BY <1>1, <1>2, <2>2
    <3>2. i - Len(s) = j - Len(s)
      BY <3>1 DEF IsInjective
    <3> QED
      BY <1>1, <3>2
  <2>3. CASE i \in 1 .. Len(s) /\ j \notin 1 .. Len(s)
    BY <1>1, <1>2, <2>3 DEF ToSet
  <2>4. CASE i \notin 1 .. Len(s) /\ j \in 1 .. Len(s)
    BY <1>1, <1>2, <2>4 DEF ToSet
  <2> QED
    BY <2>1, <2>2, <2>3, <2>4
<1> QED
  BY <1>1, <1>3, <1>4 DEF u

\* What is left after taking up a swap
LEMMA TakingASwap ==
    ASSUME logs \in Seq(Log), IsInjective(logs), NEW i \in DOMAIN logs, IsNextSwap(i)
    PROVE  /\ LogsAfter(i) \in Seq(Log) /\ IsInjective(LogsAfter(i))
           /\ ToSet(LogsAfter(i)) \subseteq ToSet(logs) \ {logs[i]}
           /\ logs[i] \in ToSet(logs) /\ IsRelevant(logs[i])
           /\ \A log \in ToSet(logs) : IsRelevant(log) => log = logs[i] \/ log \in ToSet(LogsAfter(i))
<1> DEFINE n == Len(logs)
           s == LogsAfter(i)
<1>1. n \in Nat /\ DOMAIN logs = 1 .. n /\ i \in 1 .. n
  OBVIOUS
<1>2. /\ s \in Seq(Log) /\ DOMAIN s = 1 .. n - i
      /\ \A j \in 1 .. n - i : s[j] = logs[j + i] /\ j + i \in 1 .. n /\ j + i # i
  <2>1. s = SubSeq(logs, i + 1, n)
    BY DEF LogsAfter
  <2>2. i + 1 \in 1 .. n + 1
    BY <1>1
  <2> QED
    BY <1>1, <2>1, <2>2
<1> HIDE DEF n, s
<1>3. IsInjective(s)
  BY <1>1, <1>2 DEF IsInjective
<1>4. ToSet(s) \subseteq ToSet(logs) \ {logs[i]}
  BY <1>1, <1>2 DEF ToSet, IsInjective
<1>5. ASSUME NEW j \in 1 .. n, IsRelevant(logs[j])
      PROVE  logs[j] = logs[i] \/ logs[j] \in ToSet(s)
  <2>1. ~(j \in 1 .. i - 1)
    BY <1>5 DEF IsNextSwap
  <2>2. j = i \/ (j - i \in 1 .. n - i /\ (j - i) + i = j)
    BY <1>1, <2>1
  <2> QED
    BY <1>2, <2>2 DEF ToSet
<1> QED
  BY <1>1, <1>2, <1>3, <1>4, <1>5 DEF s, ToSet, IsNextSwap

-----------------------------------------------------------------------------
(* Results *)

\* Swaps of different tokens or blocks are different swaps.
LEMMA SwapsAreApart ==
    ASSUME NEW token, NEW other, NEW A, NEW B, token # other \/ A \cap B = {}
    PROVE  SwapsIn(token, A) \cap SwapsIn(other, B) = {}
<1> SUFFICES ASSUME NEW log, log \in SwapsIn(token, A), log \in SwapsIn(other, B)
             PROVE  FALSE
  OBVIOUS
<1>1. log.block \in A \cap B
  BY DEF SwapsIn
<1>2. {token, Usdc} = {other, Usdc}
  BY DEF SwapsIn, Involves
<1>3. token = other
  BY <1>2
<1> QED
  BY <1>1, <1>3

\* The blocks all of whose swaps are in a result
FullBlocks(token, blocks, seen) ==
    {c \in {token} \X blocks : SwapsOf(token, c[2]) \subseteq seen}

\* RangeQuery's view of a result that holds nothing from elsewhere
LEMMA CellsAre ==
    ASSUME NEW token \in Jobs, NEW blocks \in SUBSET Blocks, NEW seen,
           \A log \in seen : Involves(log, token) /\ log.block \in blocks
    PROVE  Cells(token, blocks, seen, {}) = [seen |-> FullBlocks(token, blocks, seen), again |-> {}]
<1>1. ASSUME NEW c \in Contributions, ~(c[1] = token /\ c[2] \in blocks)
      PROVE  SwapsOf(c[1], c[2]) \cap seen = {}
  <2> SUFFICES ASSUME NEW log, log \in SwapsOf(c[1], c[2]), log \in seen
               PROVE  FALSE
    OBVIOUS
  <2>1. log.block = c[2] /\ {token, Usdc} = {c[1], Usdc}
    BY DEF SwapsOf, SwapsIn, Involves
  <2>2. token = c[1]
    BY <2>1
  <2> QED
    BY <1>1, <2>1, <2>2
<1>2. \A c : c \in {token} \X blocks <=> c \in Contributions /\ c[1] = token /\ c[2] \in blocks
  BY DEF Contributions
<1>3. {c \in Contributions :
         IF c[1] = token /\ c[2] \in blocks
         THEN SwapsOf(c[1], c[2]) \subseteq seen
         ELSE SwapsOf(c[1], c[2]) \cap seen # {}}
       = FullBlocks(token, blocks, seen)
  BY <1>1, <1>2 DEF FullBlocks
<1>4. {c \in Contributions : SwapsOf(c[1], c[2]) \cap {} # {}} = {}
  OBVIOUS
<1> QED
  BY <1>3, <1>4 DEF Cells

\* All swaps of the blocks: all the blocks.
LEMMA CellsOfPrices ==
    ASSUME NEW token \in Jobs, NEW blocks \in SUBSET Blocks
    PROVE  Cells(token, blocks, SwapsIn(token, blocks), {}) = BlockCells(token, blocks)
<1>1. \A log \in SwapsIn(token, blocks) : Involves(log, token) /\ log.block \in blocks
  BY DEF SwapsIn
<1>2. \A c \in {token} \X blocks : SwapsOf(token, c[2]) \subseteq SwapsIn(token, blocks)
  BY DEF SwapsOf, SwapsIn
<1>3. FullBlocks(token, blocks, SwapsIn(token, blocks)) = {token} \X blocks
  BY <1>2 DEF FullBlocks
<1> QED
  BY <1>1, <1>3, CellsAre DEF BlockCells

LEMMA CellsOfNothing ==
    ASSUME NEW token \in Jobs
    PROVE  Cells(token, {}, {}, {}) = EmptyAggregate
<1>1. Cells(token, {}, {}, {}) =
        [seen |-> FullBlocks(token, {}, {}), again |-> {}]
  BY CellsAre
<1> QED
  BY <1>1 DEF EmptyAggregate, FullBlocks

\* Results of different blocks are merged block by block.
LEMMA CellsMerge ==
    ASSUME NEW token \in Jobs, NEW A \in SUBSET Blocks, NEW B \in SUBSET Blocks, A \cap B = {},
           NEW s \in SUBSET SwapsIn(token, A), NEW t \in SUBSET SwapsIn(token, B)
    PROVE  /\ Cells(token, A \cup B, s \cup t, {})
                = Merge(Cells(token, A, s, {}), Cells(token, B, t, {}))
           /\ s \cap t = {}
<1>1. /\ \A log \in s : Involves(log, token) /\ log.block \in A
      /\ \A log \in t : Involves(log, token) /\ log.block \in B
  BY DEF SwapsIn
<1>2. \A log \in s \cup t : Involves(log, token) /\ log.block \in A \cup B
  BY <1>1
<1>3. A \cup B \in SUBSET Blocks
  OBVIOUS
<1>4. /\ Cells(token, A, s, {}) = [seen |-> FullBlocks(token, A, s), again |-> {}]
      /\ Cells(token, B, t, {}) = [seen |-> FullBlocks(token, B, t), again |-> {}]
      /\ Cells(token, A \cup B, s \cup t, {}) =
            [seen |-> FullBlocks(token, A \cup B, s \cup t), again |-> {}]
  <2>1. Cells(token, A, s, {}) = [seen |-> FullBlocks(token, A, s), again |-> {}]
    BY <1>1, CellsAre
  <2>2. Cells(token, B, t, {}) = [seen |-> FullBlocks(token, B, t), again |-> {}]
    BY <1>1, CellsAre
  <2>3. Cells(token, A \cup B, s \cup t, {}) =
            [seen |-> FullBlocks(token, A \cup B, s \cup t), again |-> {}]
    BY <1>2, <1>3, CellsAre
  <2> QED
    BY <2>1, <2>2, <2>3
<1>5. ASSUME NEW b \in A
      PROVE  SwapsOf(token, b) \subseteq s \cup t <=> SwapsOf(token, b) \subseteq s
  <2>1. \A log \in SwapsOf(token, b) : log \notin t
    BY <1>1 DEF SwapsOf, SwapsIn
  <2> QED
    BY <2>1
<1>6. ASSUME NEW b \in B
      PROVE  SwapsOf(token, b) \subseteq s \cup t <=> SwapsOf(token, b) \subseteq t
  <2>1. \A log \in SwapsOf(token, b) : log \notin s
    BY <1>1 DEF SwapsOf, SwapsIn
  <2> QED
    BY <2>1
<1>7. \A c : c \in FullBlocks(token, A \cup B, s \cup t)
               <=> c \in FullBlocks(token, A, s) \/ c \in FullBlocks(token, B, t)
  BY <1>5, <1>6 DEF FullBlocks
<1>8. /\ FullBlocks(token, A \cup B, s \cup t) = FullBlocks(token, A, s) \cup FullBlocks(token, B, t)
      /\ FullBlocks(token, A, s) \cap FullBlocks(token, B, t) = {}
  <2>1. FullBlocks(token, A, s) \cap FullBlocks(token, B, t) = {}
    BY DEF FullBlocks
  <2> QED
    BY <1>7, <2>1
<1>9. s \cap t = {}
  BY <1>1
<1> QED
  BY <1>4, <1>8, <1>9 DEF Merge

-----------------------------------------------------------------------------
(* The cache *)

\* An entry holds every swap of its range, each once.
IsExact(e) ==
    /\ e.key \in Jobs /\ e.lo \in Blocks /\ e.hi \in Blocks /\ e.lo <= e.hi /\ e.hi < U64Max
    /\ e = [key |-> e.key, lo |-> e.lo, hi |-> e.hi, value |-> Prices(e.key, e.lo .. e.hi)]

AllExact(entries) == \A e \in entries : IsExact(e)

\* The entry RangeQuery has in its place
AsBlocks(e) ==
    [key |-> e.key, lo |-> e.lo, hi |-> e.hi, value |-> BlockCells(e.key, e.lo .. e.hi)]

Bar(entries) == {AsBlocks(e) : e \in entries}

\* The blocks the entries cover
CoveredBy(W) == UNION {e.lo .. e.hi : e \in W}

LEMMA RangeInBlocks ==
    ASSUME NEW lo \in Blocks, NEW hi \in Blocks
    PROVE  lo .. hi \in SUBSET Blocks
  BY U64MaxAssumption DEF Blocks

LEMMA CacheBarIs ==
    ASSUME AllExact(cache)
    PROVE  cacheBar = Bar(cache)
<1>1. ASSUME NEW e \in cache
      PROVE  [e EXCEPT !.value = Cells(e.key, e.lo .. e.hi, @.seen, @.again)] = AsBlocks(e)
  <2>1. IsExact(e)
    BY DEF AllExact
  <2>2. e.value.seen = SwapsIn(e.key, e.lo .. e.hi) /\ e.value.again = {}
    <3>1. e.value = Prices(e.key, e.lo .. e.hi)
      BY <2>1 DEF IsExact
    <3> QED
      BY <3>1 DEF Prices
  <2>3. Cells(e.key, e.lo .. e.hi, e.value.seen, e.value.again) = BlockCells(e.key, e.lo .. e.hi)
    BY <2>1, <2>2, RangeInBlocks, CellsOfPrices DEF IsExact
  <2>4. [e EXCEPT !.value = BlockCells(e.key, e.lo .. e.hi)] = AsBlocks(e)
    BY <2>1 DEF IsExact, AsBlocks
  <2> QED
    BY <2>3, <2>4
<1>2. cacheBar = {[e EXCEPT !.value = Cells(e.key, e.lo .. e.hi, @.seen, @.again)] : e \in cache}
  BY DEF cacheBar
<1> QED
  BY <1>1, <1>2 DEF Bar

LEMMA AsBlocksType ==
    ASSUME NEW e, IsExact(e)
    PROVE  /\ AsBlocks(e) \in Entry /\ Proper(AsBlocks(e))
           /\ AsBlocks(e).key = e.key /\ AsBlocks(e).lo = e.lo /\ AsBlocks(e).hi = e.hi
           /\ AsBlocks(e).value = BlockCells(e.key, e.lo .. e.hi)
<1>1. e.lo .. e.hi \in SUBSET Blocks
  BY RangeInBlocks DEF IsExact
<1>2. BlockCells(e.key, e.lo .. e.hi) \in Aggregate
  BY <1>1 DEF BlockCells, Aggregate, Contributions, IsExact
<1> QED
  BY <1>2, PriceQueryAssumption DEF AsBlocks, IsExact, Entry, Proper

LEMMA AsBlocksInjective ==
    ASSUME NEW e, NEW f, IsExact(e), IsExact(f), AsBlocks(e) = AsBlocks(f)
    PROVE  e = f
<1>1. e.key = f.key /\ e.lo = f.lo /\ e.hi = f.hi
  BY AsBlocksType
<1> QED
  BY <1>1 DEF IsExact

LEMMA BarWithin ==
    ASSUME NEW entries, AllExact(entries), NEW key, NEW lo, NEW hi
    PROVE  /\ WithinQuery(Bar(entries), key, lo, hi) = Bar(WithinQuery(entries, key, lo, hi))
           /\ AllExact(WithinQuery(entries, key, lo, hi))
<1>1. \A e \in entries : AsBlocks(e).key = e.key /\ AsBlocks(e).lo = e.lo /\ AsBlocks(e).hi = e.hi
  BY AsBlocksType DEF AllExact
<1>2. \A e \in entries :
        AsBlocks(e) \in WithinQuery(Bar(entries), key, lo, hi) <=> e \in WithinQuery(entries, key, lo, hi)
  BY <1>1 DEF WithinQuery, Bar
<1>3. /\ WithinQuery(Bar(entries), key, lo, hi) \subseteq Bar(entries)
      /\ WithinQuery(entries, key, lo, hi) \subseteq entries
  BY DEF WithinQuery
<1>4. WithinQuery(Bar(entries), key, lo, hi) \subseteq Bar(WithinQuery(entries, key, lo, hi))
  BY <1>2, <1>3 DEF Bar
<1>5. Bar(WithinQuery(entries, key, lo, hi)) \subseteq WithinQuery(Bar(entries), key, lo, hi)
  BY <1>2, <1>3 DEF Bar
<1> QED
  BY <1>3, <1>4, <1>5 DEF AllExact

LEMMA BarDisjoint ==
    ASSUME NEW entries, AllExact(entries), Disjoint(entries)
    PROVE  Disjoint(Bar(entries))
<1> SUFFICES ASSUME NEW e \in entries, NEW f \in entries, AsBlocks(e) # AsBlocks(f),
                    AsBlocks(e).key = AsBlocks(f).key
             PROVE  (AsBlocks(e).lo .. AsBlocks(e).hi) \cap (AsBlocks(f).lo .. AsBlocks(f).hi) = {}
  BY DEF Disjoint, Bar
<1>1. e.key = f.key /\ e # f
  BY AsBlocksType DEF AllExact
<1> QED
  BY <1>1, AsBlocksType DEF AllExact, Disjoint

\* Inserting an exact result is the same in both views.
LEMMA BarInsert ==
    ASSUME NEW entries, AllExact(entries),
           NEW key \in Jobs, NEW lo \in Blocks, NEW hi \in Blocks, lo <= hi, hi < U64Max
    PROVE  /\ AllExact(Insert(entries, key, lo, hi, Prices(key, lo .. hi)))
           /\ Bar(Insert(entries, key, lo, hi, Prices(key, lo .. hi)))
                = Insert(Bar(entries), key, lo, hi, BlockCells(key, lo .. hi))
<1> DEFINE new == [key |-> key, lo |-> lo, hi |-> hi, value |-> Prices(key, lo .. hi)]
           over == Overlapping(entries, key, lo, hi)
           overBar == Overlapping(Bar(entries), key, lo, hi)
           Same(e) == e.key = key /\ e.lo = lo /\ e.hi = hi
           kept == {e \in entries \ over : ~Same(e)}
           keptBar == {e \in Bar(entries) \ overBar : ~Same(e)}
<1>1. IsExact(new)
  BY DEF IsExact
<1>2. AsBlocks(new) = [key |-> key, lo |-> lo, hi |-> hi, value |-> BlockCells(key, lo .. hi)]
  BY DEF AsBlocks
<1>3. ASSUME NEW e \in entries
      PROVE  /\ AsBlocks(e).key = e.key /\ AsBlocks(e).lo = e.lo /\ AsBlocks(e).hi = e.hi
             /\ AsBlocks(e) \in overBar <=> e \in over
             /\ AsBlocks(e) \in keptBar <=> e \in kept
  <2>1. AsBlocks(e).key = e.key /\ AsBlocks(e).lo = e.lo /\ AsBlocks(e).hi = e.hi
    BY AsBlocksType DEF AllExact
  <2>2. AsBlocks(e) \in Bar(entries)
    BY DEF Bar
  <2>3. AsBlocks(e) \in overBar <=> e \in over
    BY <2>1, <2>2 DEF Overlapping
  <2> QED
    BY <2>1, <2>2, <2>3
<1>4. overBar \subseteq Bar(entries) /\ over \subseteq entries
  BY DEF Overlapping
<1>5. keptBar = Bar(kept)
  BY <1>3 DEF Bar
<1>6. (\A e \in overBar : e.lo >= lo /\ e.hi <= hi) <=> (\A e \in over : e.lo >= lo /\ e.hi <= hi)
  <2>1. \A e \in over : AsBlocks(e) \in overBar /\ AsBlocks(e).lo = e.lo /\ AsBlocks(e).hi = e.hi
    BY <1>3, <1>4
  <2>2. \A x \in overBar : \E e \in over : x = AsBlocks(e)
    BY <1>3, <1>4 DEF Bar
  <2> HIDE DEF over, overBar
  <2> QED
    BY <2>1, <2>2
<1>7. CASE \A e \in over : e.lo >= lo /\ e.hi <= hi
  <2>1. Insert(entries, key, lo, hi, Prices(key, lo .. hi)) = kept \cup {new}
    BY <1>7 DEF Insert, Store
  <2>2. Insert(Bar(entries), key, lo, hi, BlockCells(key, lo .. hi)) = keptBar \cup {AsBlocks(new)}
    BY <1>2, <1>6, <1>7 DEF Insert, Store
  <2>3. Bar(kept \cup {new}) = Bar(kept) \cup {AsBlocks(new)}
    BY DEF Bar
  <2> QED
    BY <1>1, <1>5, <2>1, <2>2, <2>3 DEF AllExact
<1>8. CASE ~(\A e \in over : e.lo >= lo /\ e.hi <= hi)
  BY <1>6, <1>8 DEF Insert
<1> QED
  BY <1>7, <1>8

\* The walk meets the same ranges in both views, so it finds the same gaps.
LEMMA BarGaps ==
    ASSUME NEW W, AllExact(W), IsFiniteSet(W), NEW lo \in Blocks, NEW hi \in Blocks,
           NEW pos \in SortedPositions(W)
    PROVE  /\ Bar(W) \in SUBSET Entry /\ IsFiniteSet(Bar(W)) /\ \A e \in Bar(W) : Proper(e)
           /\ \E q \in SortedPositions(Bar(W)) : Gaps(Bar(W), lo, hi, q) = Gaps(W, lo, hi, pos)
<1> DEFINE bar == [e \in W |-> AsBlocks(e)]
           V == Bar(W)
           entry(x) == CHOOSE e \in W : AsBlocks(e) = x
           q == [x \in V |-> pos[entry(x)]]
<1>1. \A e \in W : AsBlocks(e) \in V /\ entry(AsBlocks(e)) = e /\ q[AsBlocks(e)] = pos[e]
  <2> TAKE e \in W
  <2>1. AsBlocks(e) \in V
    BY DEF Bar
  <2>2. entry(AsBlocks(e)) \in W /\ AsBlocks(entry(AsBlocks(e))) = AsBlocks(e)
    OBVIOUS
  <2>3. entry(AsBlocks(e)) = e
    <3> HIDE DEF entry
    <3> QED
      BY <2>2, AsBlocksInjective DEF AllExact
  <2> QED
    BY <2>1, <2>3
<1>2. \A x \in V : \E e \in W : x = AsBlocks(e)
  BY DEF Bar
<1>3. \A e \in W : /\ AsBlocks(e).lo = e.lo /\ AsBlocks(e).hi = e.hi
                   /\ AsBlocks(e) \in Entry /\ Proper(AsBlocks(e))
  BY AsBlocksType DEF AllExact
<1>4. V \in SUBSET Entry /\ \A x \in V : Proper(x)
  BY <1>2, <1>3
<1>5. IsFiniteSet(V) /\ Cardinality(V) = Cardinality(W)
  <2>1. bar \in Bijection(W, V)
    <3>1. bar \in [W -> V] /\ \A e \in W : bar[e] = AsBlocks(e)
      BY <1>1
    <3> HIDE DEF bar, V, entry
    <3>2. \A e, f \in W : bar[e] = bar[f] => e = f
      BY <1>1, <3>1
    <3>3. \A x \in V : \E e \in W : bar[e] = x
      BY <1>2, <3>1
    <3>4. bar \in Injection(W, V)
      BY <3>1, <3>2 DEF Injection, IsInjective
    <3>5. bar \in Surjection(W, V)
      BY <3>1, <3>3 DEF Surjection
    <3> QED
      BY <3>4, <3>5 DEF Bijection
  <2>2. ExistsBijection(W, V)
    BY <2>1 DEF ExistsBijection
  <2> QED
    BY <2>2, FS_Bijection
<1>6. /\ pos \in [W -> 1 .. Cardinality(W)]
      /\ \A e, f \in W : (e # f => pos[e] # pos[f]) /\ (e.lo < f.lo => pos[e] < pos[f])
  BY DEF SortedPositions
<1> HIDE DEF bar, V, entry
<1>7. q \in SortedPositions(V)
  <2>1. q \in [V -> 1 .. Cardinality(V)]
    <3>1. ASSUME NEW x \in V PROVE pos[entry(x)] \in 1 .. Cardinality(V)
      <4>1. PICK e \in W : x = AsBlocks(e)
        BY <1>2
      <4> QED
        BY <1>1, <1>5, <1>6, <4>1
    <3> QED
      BY <3>1
  <2>2. ASSUME NEW x \in V, NEW y \in V
        PROVE  (x # y => q[x] # q[y]) /\ (x.lo < y.lo => q[x] < q[y])
    <3>1. PICK e \in W : x = AsBlocks(e)
      BY <1>2
    <3>2. PICK f \in W : y = AsBlocks(f)
      BY <1>2
    <3> HIDE DEF q
    <3> QED
      BY <1>1, <1>3, <1>6, <3>1, <3>2
  <2> HIDE DEF q
  <2> QED
    BY <2>1, <2>2 DEF SortedPositions
<1> HIDE DEF q
<1>8. ASSUME NEW i
      PROVE  Current(V, lo, q, i) = Current(W, lo, pos, i)
  <2>1. \A e \in {f \in W : pos[f] < i} :
            AsBlocks(e) \in {f \in V : q[f] < i} /\ AsBlocks(e).hi = e.hi
    BY <1>1, <1>3
  <2>2. \A x \in {f \in V : q[f] < i} :
            \E e \in {f \in W : pos[f] < i} : x = AsBlocks(e) /\ x.hi = e.hi
    BY <1>1, <1>2, <1>3
  <2>3. {BlockAfter(e.hi) : e \in {f \in V : q[f] < i}}
          = {BlockAfter(e.hi) : e \in {f \in W : pos[f] < i}}
    BY <2>1, <2>2
  <2> QED
    BY <2>3 DEF Current
<1>9. Gaps(V, lo, hi, q) = Gaps(W, lo, hi, pos)
  <2> DEFINE before(U, p) ==
        {[at |-> p[e], lo |-> Current(U, lo, p, p[e]), hi |-> e.lo - 1] :
            e \in {f \in U : Current(U, lo, p, p[f]) < f.lo}}
  <2>1. ASSUME NEW e \in W, Current(W, lo, pos, pos[e]) < e.lo
        PROVE  [at |-> pos[e], lo |-> Current(W, lo, pos, pos[e]), hi |-> e.lo - 1] \in before(V, q)
    <3>1. /\ AsBlocks(e) \in V /\ q[AsBlocks(e)] = pos[e] /\ AsBlocks(e).lo = e.lo
          /\ Current(V, lo, q, q[AsBlocks(e)]) = Current(W, lo, pos, pos[e])
      BY <1>1, <1>3, <1>8
    <3> QED
      BY <2>1, <3>1
  <2>2. ASSUME NEW x \in V, Current(V, lo, q, q[x]) < x.lo
        PROVE  [at |-> q[x], lo |-> Current(V, lo, q, q[x]), hi |-> x.lo - 1] \in before(W, pos)
    <3>1. PICK e \in W : x = AsBlocks(e)
      BY <1>2
    <3>2. /\ q[x] = pos[e] /\ x.lo = e.lo
          /\ Current(V, lo, q, q[x]) = Current(W, lo, pos, pos[e])
      BY <1>1, <1>3, <1>8, <3>1
    <3> QED
      BY <2>2, <3>2
  <2>3. before(V, q) = before(W, pos)
    BY <2>1, <2>2
  <2>4. {[at |-> i, lo |-> Current(V, lo, q, i), hi |-> hi] :
            i \in {j \in {Cardinality(V) + 1} : Current(V, lo, q, j) <= hi}}
          = {[at |-> i, lo |-> Current(W, lo, pos, i), hi |-> hi] :
                i \in {j \in {Cardinality(W) + 1} : Current(W, lo, pos, j) <= hi}}
    <3>1. Current(V, lo, q, Cardinality(V) + 1) = Current(W, lo, pos, Cardinality(W) + 1)
      BY <1>5, <1>8
    <3> QED
      BY <1>5, <3>1
  <2> HIDE DEF before
  <2> QED
    BY <2>3, <2>4 DEF Gaps, before
<1> QED
  BY <1>4, <1>5, <1>7, <1>9 DEF V

\* What a caller holds after a lookup is exact on what the entries cover.
LEMMA MergeExact ==
    ASSUME NEW W, AllExact(W), Disjoint(W), NEW key \in Jobs, \A e \in W : e.key = key
    PROVE  /\ MergeEntries(W) = Prices(key, CoveredBy(W))
           /\ MergeEntries(Bar(W)) = BlockCells(key, CoveredBy(W))
<1>1. \A e \in W : /\ e.value.seen = SwapsIn(key, e.lo .. e.hi) /\ e.value.again = {}
  <2> TAKE e \in W
  <2>1. e.value = Prices(key, e.lo .. e.hi)
    BY DEF AllExact, IsExact
  <2> QED
    BY <2>1 DEF Prices
<1>2. UNION {e.value.seen : e \in W} = SwapsIn(key, CoveredBy(W))
  BY <1>1 DEF SwapsIn, CoveredBy
<1>3. ASSUME NEW e \in W, NEW f \in W, e # f
      PROVE  e.value.seen \cap f.value.seen = {}
  <2>1. (e.lo .. e.hi) \cap (f.lo .. f.hi) = {}
    BY <1>3 DEF Disjoint
  <2>2. SwapsIn(key, e.lo .. e.hi) \cap SwapsIn(key, f.lo .. f.hi) = {}
    BY <2>1, SwapsAreApart
  <2> QED
    BY <1>1, <2>2
<1>4. MergeEntries(W) = Prices(key, CoveredBy(W))
  <2>1. UNION {e.value.again : e \in W} = {}
    BY <1>1
  <2>2. {c \in UNION {e.value.seen : e \in W} :
            \E e, f \in W : e # f /\ c \in e.value.seen \cap f.value.seen} = {}
    BY <1>3
  <2> QED
    BY <1>2, <2>1, <2>2 DEF MergeEntries, Prices
<1>5. \A x \in Bar(W) : \E e \in W : x = AsBlocks(e)
  BY DEF Bar
<1>6. \A e \in W : /\ AsBlocks(e) \in Bar(W)
                   /\ AsBlocks(e).value.seen = {key} \X (e.lo .. e.hi)
                   /\ AsBlocks(e).value.again = {}
  <2> TAKE e \in W
  <2>1. AsBlocks(e).value = BlockCells(key, e.lo .. e.hi) /\ AsBlocks(e) \in Bar(W)
    BY AsBlocksType DEF AllExact, Bar
  <2> QED
    BY <2>1 DEF BlockCells
<1>7. UNION {x.value.seen : x \in Bar(W)} = {key} \X CoveredBy(W)
  <2>1. \A c : (\E x \in Bar(W) : c \in x.value.seen) <=> (\E e \in W : c \in {key} \X (e.lo .. e.hi))
    BY <1>5, <1>6
  <2>2. \A c : (\E e \in W : c \in {key} \X (e.lo .. e.hi)) <=> c \in {key} \X CoveredBy(W)
    BY DEF CoveredBy
  <2> QED
    BY <2>1, <2>2
<1>8. \A x, y \in Bar(W) : x # y => x.value.seen \cap y.value.seen = {}
  <2> SUFFICES ASSUME NEW e \in W, NEW f \in W, e # f
               PROVE  AsBlocks(e).value.seen \cap AsBlocks(f).value.seen = {}
    BY <1>5
  <2>1. (e.lo .. e.hi) \cap (f.lo .. f.hi) = {}
    BY DEF Disjoint
  <2> QED
    BY <1>6, <2>1
<1>9. MergeEntries(Bar(W)) = BlockCells(key, CoveredBy(W))
  <2>1. \A x \in Bar(W) : x.value.again = {}
    BY <1>5, <1>6
  <2>2. UNION {x.value.again : x \in Bar(W)} = {}
    BY <2>1
  <2>3. {c \in UNION {x.value.seen : x \in Bar(W)} :
            \E x, y \in Bar(W) : x # y /\ c \in x.value.seen \cap y.value.seen} = {}
    BY <1>8
  <2> QED
    BY <1>7, <2>2, <2>3 DEF MergeEntries, BlockCells
<1> QED
  BY <1>4, <1>9

-----------------------------------------------------------------------------
(* The inductive invariant: the cache is exact whoever is calling, and a      *)
(* price call holds the swaps of the blocks it is through with, but for those *)
(* a degraded call lost, and those of the gap it is in.                       *)

CacheInv == IsFiniteSet(cache) /\ AllExact(cache) /\ Disjoint(cache)

AtRest ==
    /\ query = NoQuery /\ todo = {} /\ cursor = 0 /\ logs = <<>>
    /\ part = EmptyAggregate /\ lost = {} /\ acc = EmptyAggregate /\ degraded = FALSE

QueryInv ==
    /\ query = [job |-> query.job, lo |-> query.lo, hi |-> query.hi, settled |-> TRUE]
    /\ query.job \in Jobs /\ query.lo \in Blocks /\ query.hi \in Blocks
    /\ query.lo <= query.hi /\ query.hi < U64Max
    /\ degraded \in BOOLEAN /\ cursor \in Nat

\* Gaps lie in the window, in an order, apart from each other.
GapsFit(gaps, lo, hi) ==
    /\ \A g \in gaps : /\ g.at \in Nat /\ g.lo \in Blocks /\ g.hi \in Blocks
                       /\ lo <= g.lo /\ g.lo <= g.hi /\ g.hi <= hi
    /\ \A g, h \in gaps : g # h => g.at # h.at /\ (g.hi < h.lo \/ h.hi < g.lo)

\* A result of some blocks: each swap once, and every swap when it is whole
Holds(result, token, blocks, whole) ==
    /\ result = [seen |-> result.seen, again |-> {}]
    /\ result.seen \subseteq SwapsIn(token, blocks)
    /\ whole => result.seen = SwapsIn(token, blocks)

\* The blocks the call is through with
Through == (query.lo .. query.hi) \ BlocksOf(todo)

ScanInv ==
    pc = "scan" =>
        /\ part = EmptyAggregate /\ lost = {}
        /\ logs \in Seq(Log) /\ IsInjective(logs)
        /\ todo = {} => logs = <<>>
        /\ \A g \in todo : IsNext(g) =>
              /\ g.lo <= cursor /\ cursor <= g.hi + 1
              /\ ToSet(logs) = LogsOf(g.lo .. cursor - 1)

\* Every swap of the gap is still to come, has been added or has been lost.
Accounted(g) ==
    /\ cursor = g.hi + 1
    /\ ToSet(logs) \subseteq LogsOf(g.lo .. g.hi)
    /\ part.seen \cup lost \subseteq SwapsIn(query.job, g.lo .. g.hi)
    /\ SwapsIn(query.job, g.lo .. g.hi) \subseteq ToSet(logs) \cup part.seen \cup lost

SwapsInv ==
    pc = "swaps" =>
        /\ todo # {}
        /\ logs \in Seq(Log) /\ IsInjective(logs)
        /\ part = [seen |-> part.seen, again |-> {}]
        /\ part.seen \cap lost = {} /\ ToSet(logs) \cap (part.seen \cup lost) = {}
        /\ \A g \in todo : IsNext(g) => Accounted(g)

DoneInv ==
    pc = "done" => todo = {} /\ logs = <<>> /\ part = EmptyAggregate /\ lost = {}

PriceCall ==
    /\ pc \in {"scan", "swaps", "done"}
    /\ QueryInv
    /\ GapsFit(todo, query.lo, query.hi)
    /\ Holds(acc, query.job, Through, ~degraded)
    /\ ScanInv /\ SwapsInv /\ DoneInv

PriceInv ==
    /\ CacheInv
    /\ call \in {"none", "price", "raw"}
    /\ call = "none" <=> pc = "idle"
    /\ call = "none" => AtRest
    /\ call = "price" => PriceCall

-----------------------------------------------------------------------------
(* Gaps and what they leave *)

\* There is one next gap, unless there are none.
LEMMA NextGapIs ==
    ASSUME NEW lo, NEW hi, GapsFit(todo, lo, hi)
    PROVE  /\ todo # {} => \E g \in todo : IsNext(g)
           /\ \A g, h \in todo : IsNext(g) /\ IsNext(h) => g = h
<1>1. ASSUME todo # {}
      PROVE  \E g \in todo : IsNext(g)
  <2> DEFINE S == {g.at : g \in todo}
  <2>1. S \in SUBSET Nat /\ S # {}
    BY <1>1 DEF GapsFit
  <2>2. PICK m \in S : \A x \in S : m <= x
    BY <2>1, SetMin
  <2>3. PICK g \in todo : g.at = m
    BY <2>2
  <2> QED
    BY <2>2, <2>3 DEF IsNext
<1>2. ASSUME NEW g \in todo, NEW h \in todo, IsNext(g), IsNext(h)
      PROVE  g = h
  <2>1. g.at <= h.at /\ h.at <= g.at /\ g.at \in Nat /\ h.at \in Nat
    BY <1>2 DEF IsNext, GapsFit
  <2>2. g.at = h.at
    BY <2>1
  <2> QED
    BY <2>2 DEF GapsFit
<1> QED
  BY <1>1, <1>2

\* Finishing a gap leaves gaps that fit, and takes its blocks out of them.
LEMMA GapOff ==
    ASSUME NEW gaps, NEW lo \in Blocks, NEW hi \in Blocks, GapsFit(gaps, lo, hi), NEW g \in gaps
    PROVE  /\ GapsFit(gaps \ {g}, lo, hi)
           /\ (lo .. hi) \ BlocksOf(gaps \ {g}) = ((lo .. hi) \ BlocksOf(gaps)) \cup (g.lo .. g.hi)
           /\ ((lo .. hi) \ BlocksOf(gaps)) \cap (g.lo .. g.hi) = {}
           /\ g.lo .. g.hi \in SUBSET Blocks
           /\ (lo .. hi) \ BlocksOf(gaps) \in SUBSET Blocks
<1>1. GapsFit(gaps \ {g}, lo, hi)
  BY DEF GapsFit
<1>2. \A h \in gaps : h # g => (h.lo .. h.hi) \cap (g.lo .. g.hi) = {}
  <2> TAKE h \in gaps
  <2>1. h # g => h.hi < g.lo \/ g.hi < h.lo
    BY DEF GapsFit
  <2>2. h.lo \in Int /\ h.hi \in Int /\ g.lo \in Int /\ g.hi \in Int
    BY U64MaxAssumption DEF GapsFit, Blocks
  <2> QED
    BY <2>1, <2>2
<1>3. g.lo .. g.hi \subseteq BlocksOf(gaps)
  BY DEF BlocksOf
<1>4. g.lo .. g.hi \subseteq lo .. hi
  <2>1. /\ g.lo \in Int /\ g.hi \in Int /\ lo \in Int /\ hi \in Int
        /\ lo <= g.lo /\ g.hi <= hi
    BY U64MaxAssumption DEF GapsFit, Blocks
  <2> QED
    BY <2>1
<1>5. BlocksOf(gaps) = BlocksOf(gaps \ {g}) \cup (g.lo .. g.hi)
  BY DEF BlocksOf
<1>6. BlocksOf(gaps \ {g}) \cap (g.lo .. g.hi) = {}
  BY <1>2 DEF BlocksOf
<1>7. lo .. hi \in SUBSET Blocks
  BY RangeInBlocks
<1> QED
  BY <1>1, <1>3, <1>4, <1>5, <1>6, <1>7

\* The walk's gaps are the blocks of the window that no entry covers.
LEMMA GapsLeaveCovered ==
    ASSUME NEW entries, IsFiniteSet(entries), AllExact(entries), Disjoint(entries),
           NEW key \in Jobs, NEW lo \in Blocks, NEW hi \in Blocks,
           NEW pos \in SortedPositions(WithinQuery(entries, key, lo, hi))
    PROVE  LET W == WithinQuery(entries, key, lo, hi)
               gaps == Gaps(W, lo, hi, pos)
           IN  /\ GapsFit(gaps, lo, hi)
               /\ (lo .. hi) \ BlocksOf(gaps) = CoveredBy(W)
               /\ MergeEntries(W) = Prices(key, CoveredBy(W))
               /\ MergeEntries(WithinQuery(Bar(entries), key, lo, hi)) = BlockCells(key, CoveredBy(W))
               /\ \E q \in SortedPositions(WithinQuery(Bar(entries), key, lo, hi)) :
                     Gaps(WithinQuery(Bar(entries), key, lo, hi), lo, hi, q) = gaps
<1> DEFINE W == WithinQuery(entries, key, lo, hi)
           V == WithinQuery(Bar(entries), key, lo, hi)
           gaps == Gaps(W, lo, hi, pos)
<1>1. V = Bar(W) /\ AllExact(W)
  BY BarWithin
<1>2. W \subseteq entries /\ \A e \in W : e.key = key /\ lo <= e.lo /\ e.hi <= hi
  <2>1. W \subseteq entries /\ \A e \in W : e.key = key /\ e.lo >= lo /\ e.hi <= hi
    BY DEF WithinQuery
  <2>2. \A e \in W : e.lo \in Int /\ e.hi \in Int
    BY <1>1, U64MaxAssumption DEF AllExact, IsExact, Blocks
  <2>3. lo \in Int /\ hi \in Int
    BY U64MaxAssumption DEF Blocks
  <2> QED
    BY <2>1, <2>2, <2>3
<1>3. IsFiniteSet(W) /\ Disjoint(W)
  BY <1>2, FS_Subset, SubsetKeepsDisjoint
<1> HIDE DEF W
<1>4. PICK q \in SortedPositions(Bar(W)) : Gaps(Bar(W), lo, hi, q) = Gaps(W, lo, hi, pos)
  <2>1. pos \in SortedPositions(W)
    BY DEF W
  <2> QED
    BY <1>1, <1>3, <2>1, BarGaps
<1>5. Bar(W) \in SUBSET Entry /\ IsFiniteSet(Bar(W)) /\ \A x \in Bar(W) : Proper(x)
  <2>1. pos \in SortedPositions(W)
    BY DEF W
  <2> QED
    BY <1>1, <1>3, <2>1, BarGaps
<1>6. \A x \in Bar(W) : Proper(x) /\ lo <= x.lo /\ x.hi <= hi
  BY <1>1, <1>2, <1>5, AsBlocksType DEF Bar, AllExact
<1>7. GapsFit(gaps, lo, hi)
  <2>1. \A g \in Gaps(Bar(W), lo, hi, q) :
            /\ g.at \in Nat /\ g.lo \in Blocks /\ g.hi \in Blocks
            /\ lo <= g.lo /\ g.lo <= g.hi /\ g.hi <= hi
    BY <1>4, <1>5, <1>6, GapsAreUncovered
  <2>2. \A g, h \in Gaps(Bar(W), lo, hi, q) :
            g # h => g.at # h.at /\ (g.hi < h.lo \/ h.hi < g.lo)
    BY <1>4, <1>5, <1>6, GapsAreApart
  <2> QED
    BY <1>4, <2>1, <2>2 DEF GapsFit
<1>8. \A e \in W, b \in lo .. hi : b \in e.lo .. e.hi <=> Covers(AsBlocks(e), b)
  <2>1. \A e \in W : /\ AsBlocks(e).lo = e.lo /\ AsBlocks(e).hi = e.hi
                     /\ e.lo \in Int /\ e.hi \in Int
    BY <1>1, AsBlocksType, U64MaxAssumption DEF AllExact, IsExact, Blocks
  <2>2. \A b \in lo .. hi : b \in Int
    OBVIOUS
  <2> QED
    BY <2>1, <2>2 DEF Covers
<1>9. ASSUME NEW b \in lo .. hi
      PROVE  b \notin BlocksOf(gaps) <=> b \in CoveredBy(W)
  <2>1. CASE b \in CoveredBy(W)
    <3>1. PICK e \in W : Covers(AsBlocks(e), b)
      BY <1>8, <2>1 DEF CoveredBy
    <3>2. AsBlocks(e) \in Bar(W)
      BY DEF Bar
    <3>3. \A g \in gaps : b \notin g.lo .. g.hi
      BY <1>4, <1>5, <1>6, <3>1, <3>2, GapsAreUncovered
    <3> QED
      BY <2>1, <3>3 DEF BlocksOf
  <2>2. CASE b \notin CoveredBy(W)
    <3>1. \A x \in Bar(W) : ~ Covers(x, b)
      BY <1>8, <2>2 DEF CoveredBy, Bar
    <3>2. PICK g \in gaps : Covers(g, b)
      BY <1>4, <1>5, <1>6, <3>1, GapsAreExhaustive
    <3>3. b \in g.lo .. g.hi
      BY <1>7, <3>2, U64MaxAssumption DEF Covers, GapsFit, Blocks
    <3> QED
      BY <2>2, <3>3 DEF BlocksOf
  <2> QED
    BY <2>1, <2>2
<1>10. CoveredBy(W) \subseteq lo .. hi
  <2>1. \A e \in W : e.lo \in Int /\ e.hi \in Int /\ lo <= e.lo /\ e.hi <= hi
    BY <1>1, <1>2, U64MaxAssumption DEF AllExact, IsExact, Blocks
  <2>2. lo \in Int /\ hi \in Int
    BY U64MaxAssumption DEF Blocks
  <2>3. \A e \in W : e.lo .. e.hi \subseteq lo .. hi
    BY <2>1, <2>2
  <2> QED
    BY <2>3 DEF CoveredBy
<1>11. (lo .. hi) \ BlocksOf(gaps) = CoveredBy(W)
  BY <1>9, <1>10
<1>12. MergeEntries(W) = Prices(key, CoveredBy(W)) /\ MergeEntries(Bar(W)) = BlockCells(key, CoveredBy(W))
  BY <1>1, <1>2, <1>3, MergeExact
<1> QED
  BY <1>1, <1>4, <1>7, <1>11, <1>12 DEF W

-----------------------------------------------------------------------------
(* The invariant holds *)

LEMMA NoLogs ==
    /\ <<>> \in Seq(Log) /\ IsInjective(<<>>) /\ ToSet(<<>>) = {}
    /\ \A n \in Int : n .. n - 1 = {}
    /\ LogsOf({}) = {}
    /\ \A token : SwapsIn(token, {}) = {}
  BY DEF IsInjective, ToSet, LogsOf, SwapsIn

LEMMA PriceInvInit == Init => PriceInv
  BY FS_EmptySet DEF Init, PriceInv, CacheInv, AtRest, AllExact, Disjoint

\* What a call starts from
LEMMA AtTheStart ==
    ASSUME PriceInv, NEW token \in Jobs, NEW r \in Ranges, NEW method, Ask(token, r[1], r[2], method)
    PROVE  /\ CacheInv /\ AtRest /\ call = "none" /\ pc = "idle" /\ CacheInv'
           /\ r[1] \in Blocks /\ r[2] \in Blocks /\ r[1] <= r[2] /\ r[2] < U64Max
           /\ query' = [job |-> token, lo |-> r[1], hi |-> r[2], settled |-> TRUE]
           /\ call' = method /\ cache' = cache /\ logs' = <<>> /\ part' = EmptyAggregate /\ lost' = {}
           /\ degraded' = FALSE
<1>1. pc = "idle" /\ call = "none" /\ AtRest /\ CacheInv
  BY DEF PriceInv, Ask
<1>2. r[1] \in Blocks /\ r[2] \in Blocks /\ r[1] <= r[2] /\ r[2] < U64Max
  BY PriceQueryAssumption
<1>3. /\ query' = [job |-> token, lo |-> r[1], hi |-> r[2], settled |-> TRUE]
      /\ call' = method /\ cache' = cache /\ logs' = <<>> /\ part' = EmptyAggregate /\ lost' = {}
      /\ degraded' = FALSE
  BY <1>1 DEF Ask, AtRest
<1>4. CacheInv'
  BY <1>1, <1>3 DEF CacheInv
<1> QED
  BY <1>1, <1>2, <1>3, <1>4

LEMMA PriceMissKeepsInv ==
    ASSUME PriceInv, NEW token \in Jobs, NEW r \in Ranges, PriceMiss(token, r[1], r[2])
    PROVE  PriceInv'
<1> DEFINE lo == r[1]
           hi == r[2]
           gap == [at |-> 1, lo |-> lo, hi |-> hi]
<1>1. /\ CacheInv /\ AtRest /\ CacheInv'
      /\ lo \in Blocks /\ hi \in Blocks /\ lo <= hi /\ hi < U64Max
      /\ query' = [job |-> token, lo |-> lo, hi |-> hi, settled |-> TRUE]
      /\ call' = "price" /\ logs' = <<>> /\ part' = EmptyAggregate /\ lost' = {} /\ degraded' = FALSE
  BY AtTheStart DEF PriceMiss
<1>2. todo' = {gap} /\ cursor' = lo /\ pc' = "scan" /\ acc' = EmptyAggregate
  BY <1>1 DEF PriceMiss, AtRest
<1>3. lo \in Nat /\ hi \in Nat
  BY <1>1, U64MaxAssumption DEF Blocks
<1> HIDE DEF lo, hi
<1>4. QueryInv'
  BY <1>1, <1>2, <1>3 DEF QueryInv
<1>5. GapsFit(todo, query.lo, query.hi)'
  BY <1>1, <1>2, <1>3 DEF GapsFit
<1>6. Through' = {}
  BY <1>1, <1>2 DEF Through, BlocksOf
<1>7. Holds(acc, query.job, Through, ~degraded)'
  BY <1>2, <1>6, NoLogs DEF Holds, EmptyAggregate
<1>8. ScanInv'
  <2>1. lo .. lo - 1 = {}
    BY <1>3, NoLogs
  <2>2. lo <= lo /\ lo <= hi + 1
    BY <1>1, <1>3
  <2>3. \A h \in todo' : h.lo = lo /\ h.hi = hi
    BY <1>2
  <2> QED
    BY <1>1, <1>2, <2>1, <2>2, <2>3, NoLogs DEF ScanInv
<1>9. SwapsInv' /\ DoneInv'
  BY <1>2 DEF SwapsInv, DoneInv
<1> QED
  BY <1>1, <1>2, <1>4, <1>5, <1>7, <1>8, <1>9 DEF PriceInv, PriceCall

\* What a lookup that meets entries finds
LEMMA AtTheLookup ==
    ASSUME CacheInv, NEW token \in Jobs, NEW lo \in Blocks, NEW hi \in Blocks,
           NEW pos \in SortedPositions(WithinQuery(cache, token, lo, hi))
    PROVE  LET W == WithinQuery(cache, token, lo, hi)
               gaps == Gaps(W, lo, hi, pos)
           IN  /\ GapsFit(gaps, lo, hi)
               /\ (lo .. hi) \ BlocksOf(gaps) = CoveredBy(W)
               /\ MergeEntries(W) = Prices(token, CoveredBy(W))
  BY GapsLeaveCovered DEF CacheInv

LEMMA PriceHitKeepsInv ==
    ASSUME PriceInv, NEW token \in Jobs, NEW r \in Ranges, PriceHit(token, r[1], r[2])
    PROVE  PriceInv'
<1> DEFINE lo == r[1]
           hi == r[2]
           W == WithinQuery(cache, token, lo, hi)
<1>1. /\ CacheInv /\ AtRest /\ CacheInv'
      /\ lo \in Blocks /\ hi \in Blocks /\ lo <= hi /\ hi < U64Max
      /\ query' = [job |-> token, lo |-> lo, hi |-> hi, settled |-> TRUE]
      /\ call' = "price" /\ logs' = <<>> /\ part' = EmptyAggregate /\ lost' = {} /\ degraded' = FALSE
  BY AtTheStart DEF PriceHit
<1>2. todo' = {} /\ cursor' = 0 /\ pc' = "done" /\ acc' = MergeEntries(W)
  BY <1>1 DEF PriceHit, AtRest
<1>3. PICK pos \in SortedPositions(W) : Gaps(W, lo, hi, pos) = {}
  BY DEF PriceHit
<1> HIDE DEF lo, hi
<1>4. (lo .. hi) \ BlocksOf({}) = CoveredBy(W) /\ MergeEntries(W) = Prices(token, CoveredBy(W))
  BY <1>1, <1>3, AtTheLookup
<1> HIDE DEF W
<1>5. QueryInv'
  BY <1>1, <1>2 DEF QueryInv
<1>6. GapsFit(todo, query.lo, query.hi)'
  BY <1>2 DEF GapsFit
<1>7. Holds(acc, query.job, Through, ~degraded)'
  <2>1. Through' = CoveredBy(W)
    BY <1>1, <1>2, <1>4 DEF Through
  <2>2. acc' = Prices(token, CoveredBy(W)) /\ query'.job = token
    BY <1>1, <1>2, <1>4
  <2> QED
    BY <2>1, <2>2 DEF Holds, Prices
<1>8. ScanInv' /\ SwapsInv' /\ DoneInv'
  BY <1>1, <1>2 DEF ScanInv, SwapsInv, DoneInv
<1> QED
  BY <1>1, <1>2, <1>5, <1>6, <1>7, <1>8 DEF PriceInv, PriceCall

LEMMA PricePartialKeepsInv ==
    ASSUME PriceInv, NEW token \in Jobs, NEW r \in Ranges, PricePartial(token, r[1], r[2])
    PROVE  PriceInv'
<1> DEFINE lo == r[1]
           hi == r[2]
           W == WithinQuery(cache, token, lo, hi)
<1>1. /\ CacheInv /\ AtRest /\ CacheInv'
      /\ lo \in Blocks /\ hi \in Blocks /\ lo <= hi /\ hi < U64Max
      /\ query' = [job |-> token, lo |-> lo, hi |-> hi, settled |-> TRUE]
      /\ call' = "price" /\ logs' = <<>> /\ part' = EmptyAggregate /\ lost' = {} /\ degraded' = FALSE
  BY AtTheStart DEF PricePartial
<1>2. PICK pos \in SortedPositions(W) :
        /\ todo' = Gaps(W, lo, hi, pos)
        /\ \E g \in todo' : (\A h \in todo' : g.at <= h.at) /\ cursor' = g.lo
  BY DEF PricePartial
<1>3. pc' = "scan" /\ acc' = MergeEntries(W)
  BY DEF PricePartial
<1> HIDE DEF lo, hi
<1>4. /\ GapsFit(todo', lo, hi) /\ (lo .. hi) \ BlocksOf(todo') = CoveredBy(W)
      /\ MergeEntries(W) = Prices(token, CoveredBy(W))
  BY <1>1, <1>2, AtTheLookup
<1> HIDE DEF W
<1>5. PICK g \in todo' : (\A h \in todo' : g.at <= h.at) /\ cursor' = g.lo
  BY <1>2
<1>6. \A h \in todo' : h.lo \in Nat /\ h.hi \in Nat /\ h.lo <= h.hi /\ h.at \in Nat
  BY <1>4, U64MaxAssumption DEF GapsFit, Blocks
<1>7. QueryInv'
  BY <1>1, <1>5, <1>6 DEF QueryInv
<1>8. GapsFit(todo, query.lo, query.hi)'
  BY <1>1, <1>4
<1>9. Holds(acc, query.job, Through, ~degraded)'
  <2>1. Through' = CoveredBy(W)
    BY <1>1, <1>4 DEF Through
  <2>2. acc' = Prices(token, CoveredBy(W)) /\ query'.job = token
    BY <1>1, <1>3, <1>4
  <2> QED
    BY <2>1, <2>2 DEF Holds, Prices
<1>10. ASSUME NEW h \in todo', \A k \in todo' : h.at <= k.at
       PROVE  h = g
  <2>1. h.at = g.at
    BY <1>5, <1>6, <1>10
  <2> QED
    BY <1>4, <2>1 DEF GapsFit
<1>11. ScanInv'
  <2>1. g.lo .. g.lo - 1 = {} /\ g.lo <= g.lo /\ g.lo <= g.hi + 1
    BY <1>6, NoLogs
  <2>2. ASSUME NEW h \in todo', IsNext(h)'
        PROVE  /\ h.lo <= cursor' /\ cursor' <= h.hi + 1
               /\ ToSet(logs') = LogsOf(h.lo .. cursor' - 1)
    <3>1. h = g
      BY <1>10, <2>2 DEF IsNext
    <3> QED
      BY <1>1, <1>5, <2>1, <3>1, NoLogs
  <2> QED
    BY <1>1, <1>3, <2>2, NoLogs DEF ScanInv
<1>12. SwapsInv' /\ DoneInv'
  BY <1>3 DEF SwapsInv, DoneInv
<1> QED
  BY <1>1, <1>3, <1>7, <1>8, <1>9, <1>11, <1>12 DEF PriceInv, PriceCall

\* A raw call may do what it likes with its own state, and with nothing else.
LEMMA RawKeepsInv ==
    ASSUME PriceInv, call' = "raw", pc' # "idle", cache' = cache
    PROVE  PriceInv'
<1>1. CacheInv'
  BY DEF PriceInv, CacheInv
<1> QED
  BY <1>1 DEF PriceInv

LEMMA ForgetKeepsInv ==
    ASSUME PriceInv, Forget
    PROVE  PriceInv'
<1>1. CacheInv'
  BY DEF PriceInv, CacheInv, Forget
<1> QED
  BY <1>1 DEF PriceInv, Forget, AtRest

\* What a price call has while it is at work
LEMMA AtWork ==
    ASSUME PriceInv, call = "price"
    PROVE  /\ CacheInv /\ PriceCall /\ QueryInv /\ GapsFit(todo, query.lo, query.hi)
           /\ query.job \in Jobs /\ query.lo \in Nat /\ query.hi \in Nat
           /\ Holds(acc, query.job, Through, ~degraded)
           /\ \A g, h \in todo : IsNext(g) /\ IsNext(h) => g = h
           /\ todo # {} => \E g \in todo : IsNext(g)
           /\ \A g \in todo : g.at \in Nat /\ g.lo \in Nat /\ g.hi \in Nat /\ g.lo <= g.hi
                                /\ g.lo \in Blocks /\ g.hi \in Blocks /\ g.hi < U64Max
<1>1. CacheInv /\ PriceCall /\ QueryInv /\ GapsFit(todo, query.lo, query.hi)
      /\ Holds(acc, query.job, Through, ~degraded)
  BY DEF PriceInv, PriceCall
<1>2. query.job \in Jobs /\ query.lo \in Nat /\ query.hi \in Nat /\ query.hi < U64Max
  BY <1>1, U64MaxAssumption DEF QueryInv, Blocks
<1>3. \A g \in todo : g.at \in Nat /\ g.lo \in Nat /\ g.hi \in Nat /\ g.lo <= g.hi
                                /\ g.lo \in Blocks /\ g.hi \in Blocks /\ g.hi < U64Max
  BY <1>1, <1>2, U64MaxAssumption DEF GapsFit, Blocks
<1> QED
  BY <1>1, <1>2, <1>3, NextGapIs

LEMMA ChunkEndIs ==
    ASSUME NEW from \in Nat, NEW hi \in Nat, from <= hi
    PROVE  /\ ChunkEnd(from, hi) = IF from + (ChunkSize - 1) < hi THEN from + (ChunkSize - 1) ELSE hi
           /\ ChunkEnd(from, hi) \in Nat /\ from <= ChunkEnd(from, hi) /\ ChunkEnd(from, hi) <= hi
<1> DEFINE c == from + (ChunkSize - 1)
           S == {c, hi}
           m == IF c < hi THEN c ELSE hi
<1>1. c \in Nat /\ from <= c
  BY PriceQueryAssumption
<1> HIDE DEF c
<1>2. m \in S /\ \A x \in S : m <= x
  BY <1>1
<1>3. Min(S) \in S /\ \A x \in S : Min(S) <= x
  BY <1>2 DEF Min
<1>4. Min(S) = m
  BY <1>1, <1>2, <1>3
<1>5. ChunkEnd(from, hi) = m
  BY <1>4 DEF ChunkEnd, c
<1> QED
  BY <1>1, <1>5 DEF c

LEMMA ScanChunkKeepsInv ==
    ASSUME PriceInv, call = "price", ScanChunk
    PROVE  PriceInv'
<1>1. PICK g \in todo : /\ IsNext(g) /\ cursor <= g.hi
                        /\ logs' = logs \o LogsIn(cursor, ChunkEnd(cursor, g.hi))
                        /\ cursor' = ChunkEnd(cursor, g.hi) + 1
  BY DEF ScanChunk
<1>2. /\ pc = "scan" /\ cache' = cache /\ call' = call /\ pc' = pc /\ query' = query
      /\ todo' = todo /\ part' = part /\ lost' = lost /\ acc' = acc /\ degraded' = degraded
  BY DEF ScanChunk
<1>3. /\ g.lo <= cursor /\ cursor <= g.hi + 1 /\ ToSet(logs) = LogsOf(g.lo .. cursor - 1)
      /\ part = EmptyAggregate /\ lost = {} /\ logs \in Seq(Log) /\ IsInjective(logs)
      /\ cursor \in Nat
  BY <1>1, <1>2, AtWork DEF PriceCall, ScanInv, QueryInv
<1> DEFINE end == ChunkEnd(cursor, g.hi)
           new == LogsIn(cursor, end)
<1>4. end \in Nat /\ cursor <= end /\ end <= g.hi
  BY <1>1, <1>3, AtWork, ChunkEndIs
<1> HIDE DEF end
<1>5. new \in Seq(Log) /\ IsInjective(new) /\ ToSet(new) = LogsOf(cursor .. end)
  <2>1. cursor \in Nat /\ end \in Int /\ cursor <= end + 1
    BY <1>3, <1>4
  <2> HIDE DEF new
  <2> QED
    BY <2>1, LogsInAreThose DEF new
<1>6. g.lo \in Nat
  BY AtWork
<1> HIDE DEF new
<1>7. ToSet(logs) \cap ToSet(new) = {}
  BY <1>3, <1>4, <1>5, LogTypes DEF LogsOf
<1>8. logs' = logs \o new /\ cursor' = end + 1
  BY <1>1 DEF end, new
<1>9. logs' \in Seq(Log) /\ IsInjective(logs') /\ ToSet(logs') = ToSet(logs) \cup ToSet(new)
  BY <1>3, <1>5, <1>7, <1>8, ChunksJoin
<1>10. ToSet(logs') = LogsOf(g.lo .. cursor' - 1)
  <2>1. g.lo .. cursor' - 1 = (g.lo .. cursor - 1) \cup (cursor .. end)
    BY <1>3, <1>4, <1>6, <1>8
  <2> QED
    BY <1>3, <1>5, <1>9, <2>1 DEF LogsOf
<1>11. ScanInv'
  <2>1. g.lo <= cursor' /\ cursor' <= g.hi + 1
    BY <1>3, <1>4, <1>6, <1>8, AtWork
  <2>2. \A h \in todo' : IsNext(h)' => h = g
    BY <1>1, <1>2, AtWork DEF IsNext
  <2> QED
    BY <1>1, <1>2, <1>3, <1>9, <1>10, <2>1, <2>2 DEF ScanInv
<1>12. QueryInv'
  BY <1>2, <1>4, <1>8, AtWork DEF QueryInv
<1>13. CacheInv' /\ GapsFit(todo, query.lo, query.hi)' /\ Holds(acc, query.job, Through, ~degraded)'
  <2>1. Through' = Through
    BY <1>2 DEF Through
  <2>2. CacheInv'
    BY <1>2, AtWork DEF CacheInv
  <2> QED
    BY <1>2, <2>1, <2>2, AtWork
<1> QED
  BY <1>2, <1>11, <1>12, <1>13 DEF PriceInv, PriceCall, SwapsInv, DoneInv

\* The lookups of decimals leave a call where it is.
LEMMA SameCall ==
    ASSUME PriceInv, call = "price", UNCHANGED <<cache, call, query, todo, cursor, acc, degraded>>
    PROVE  /\ CacheInv' /\ QueryInv' /\ GapsFit(todo, query.lo, query.hi)'
           /\ Holds(acc, query.job, Through, ~degraded)'
           /\ \A g : IsNext(g)' <=> IsNext(g)
<1>1. Through' = Through
  BY DEF Through
<1>2. CacheInv' /\ QueryInv'
  BY AtWork DEF CacheInv, QueryInv
<1>3. GapsFit(todo, query.lo, query.hi)' /\ Holds(acc, query.job, Through, ~degraded)'
  BY <1>1, AtWork
<1>4. \A g : IsNext(g)' <=> IsNext(g)
  BY DEF IsNext
<1> QED
  BY <1>2, <1>3, <1>4

LEMMA EnsureDecimalsKeepsInv ==
    ASSUME PriceInv, call = "price", EnsureDecimals
    PROVE  PriceInv'
<1>1. /\ pc = "scan" /\ pc' = "swaps" /\ todo # {} /\ \A g \in todo : IsNext(g) => cursor > g.hi
      /\ UNCHANGED <<cache, call, query, todo, cursor, logs, part, lost, acc, degraded>>
  BY DEF EnsureDecimals
<1>2. /\ CacheInv' /\ QueryInv' /\ GapsFit(todo, query.lo, query.hi)'
      /\ Holds(acc, query.job, Through, ~degraded)' /\ \A g : IsNext(g)' <=> IsNext(g)
  BY <1>1, SameCall
<1>3. /\ part = EmptyAggregate /\ lost = {} /\ logs \in Seq(Log) /\ IsInjective(logs)
      /\ cursor \in Nat
  BY <1>1, AtWork DEF PriceCall, ScanInv, QueryInv
<1>4. ASSUME NEW g \in todo, IsNext(g)
      PROVE  Accounted(g)'
  <2>1. /\ g.lo <= cursor /\ cursor <= g.hi + 1 /\ ToSet(logs) = LogsOf(g.lo .. cursor - 1)
        /\ cursor > g.hi
    BY <1>1, <1>4, AtWork DEF PriceCall, ScanInv
  <2>2. cursor = g.hi + 1 /\ cursor - 1 = g.hi
    BY <1>3, <2>1, AtWork
  <2>3. ToSet(logs) = LogsOf(g.lo .. g.hi)
    BY <2>1, <2>2
  <2>4. SwapsIn(query.job, g.lo .. g.hi) \subseteq ToSet(logs)
    BY <2>3 DEF SwapsIn, LogsOf
  <2> QED
    BY <1>1, <1>3, <2>2, <2>3, <2>4 DEF Accounted, EmptyAggregate
<1>5. SwapsInv'
  BY <1>1, <1>2, <1>3, <1>4 DEF SwapsInv, EmptyAggregate
<1> QED
  BY <1>1, <1>2, <1>5 DEF PriceInv, PriceCall, ScanInv, DoneInv

\* What the second half of a gap has
LEMMA AtTheSwaps ==
    ASSUME PriceInv, call = "price", pc = "swaps"
    PROVE  /\ logs \in Seq(Log) /\ IsInjective(logs)
           /\ part = [seen |-> part.seen, again |-> {}]
           /\ part.seen \cap lost = {} /\ ToSet(logs) \cap (part.seen \cup lost) = {}
           /\ \A g \in todo : IsNext(g) =>
                /\ Accounted(g)
                /\ \A log \in ToSet(logs) :
                      IsRelevant(log) <=> log \in SwapsIn(query.job, g.lo .. g.hi)
<1>1. SwapsInv
  BY AtWork DEF PriceCall
<1>2. ASSUME NEW g \in todo, IsNext(g), NEW log \in ToSet(logs)
      PROVE  IsRelevant(log) <=> log \in SwapsIn(query.job, g.lo .. g.hi)
  <2>1. log \in LogsOf(g.lo .. g.hi)
    BY <1>1, <1>2 DEF SwapsInv, Accounted
  <2> QED
    BY <2>1 DEF LogsOf, SwapsIn, IsRelevant
<1> QED
  BY <1>1, <1>2 DEF SwapsInv

LEMMA AddSwapKeepsInv ==
    ASSUME PriceInv, call = "price", AddSwap
    PROVE  PriceInv'
<1>1. PICK i \in DOMAIN logs :
        /\ IsNextSwap(i) /\ logs' = LogsAfter(i)
        /\ part' = Merge(part, [seen |-> {logs[i]}, again |-> {}])
  BY DEF AddSwap
<1>2. /\ pc = "swaps" /\ pc' = "swaps"
      /\ UNCHANGED <<cache, call, query, todo, cursor, lost, acc, degraded>>
  BY DEF AddSwap
<1>3. /\ CacheInv' /\ QueryInv' /\ GapsFit(todo, query.lo, query.hi)'
      /\ Holds(acc, query.job, Through, ~degraded)' /\ \A g : IsNext(g)' <=> IsNext(g)
  BY <1>2, SameCall
<1>4. /\ logs \in Seq(Log) /\ IsInjective(logs) /\ part = [seen |-> part.seen, again |-> {}]
      /\ part.seen \cap lost = {} /\ ToSet(logs) \cap (part.seen \cup lost) = {}
  BY <1>2, AtTheSwaps
<1>5. /\ LogsAfter(i) \in Seq(Log) /\ IsInjective(LogsAfter(i))
      /\ ToSet(LogsAfter(i)) \subseteq ToSet(logs) \ {logs[i]}
      /\ logs[i] \in ToSet(logs) /\ IsRelevant(logs[i])
      /\ \A log \in ToSet(logs) : IsRelevant(log) => log = logs[i] \/ log \in ToSet(LogsAfter(i))
  BY <1>1, <1>4, TakingASwap
<1> DEFINE swap == logs[i]
           rest == LogsAfter(i)
<1> HIDE DEF swap, rest
<1>6. part' = [seen |-> part.seen \cup {swap}, again |-> {}]
  <2>1. part.again = {} /\ part.seen \cap {swap} = {}
    BY <1>4, <1>5 DEF swap
  <2> QED
    BY <1>1, <2>1 DEF Merge, swap
<1>7. part'.seen = part.seen \cup {swap}
  BY <1>6
<1>8. ASSUME NEW g \in todo, IsNext(g)
      PROVE  Accounted(g)'
  <2>1. Accounted(g) /\ \A log \in ToSet(logs) :
                            IsRelevant(log) <=> log \in SwapsIn(query.job, g.lo .. g.hi)
    BY <1>2, <1>8, AtTheSwaps
  <2>2. swap \in SwapsIn(query.job, g.lo .. g.hi)
    BY <1>5, <2>1 DEF swap
  <2>3. \A log \in ToSet(logs) \cap SwapsIn(query.job, g.lo .. g.hi) : log = swap \/ log \in ToSet(rest)
    BY <1>5, <2>1 DEF swap, rest
  <2>4. ToSet(rest) \subseteq ToSet(logs)
    BY <1>5 DEF rest
  <2>5. logs' = rest /\ query' = query /\ cursor' = cursor /\ lost' = lost
    BY <1>1, <1>2 DEF rest
  <2>6. /\ cursor = g.hi + 1
        /\ ToSet(logs) \subseteq LogsOf(g.lo .. g.hi)
        /\ part.seen \cup lost \subseteq SwapsIn(query.job, g.lo .. g.hi)
        /\ SwapsIn(query.job, g.lo .. g.hi) \subseteq ToSet(logs) \cup part.seen \cup lost
    BY <2>1 DEF Accounted
  <2>7. /\ ToSet(rest) \subseteq LogsOf(g.lo .. g.hi)
        /\ part'.seen \cup lost \subseteq SwapsIn(query.job, g.lo .. g.hi)
        /\ SwapsIn(query.job, g.lo .. g.hi) \subseteq ToSet(rest) \cup part'.seen \cup lost
    BY <1>7, <2>2, <2>3, <2>4, <2>6
  <2> QED
    BY <2>5, <2>6, <2>7 DEF Accounted
<1>9. part'.seen \cap lost' = {} /\ ToSet(logs') \cap (part'.seen \cup lost') = {}
  BY <1>1, <1>2, <1>4, <1>5, <1>7 DEF swap
<1>10. SwapsInv'
  <2>1. logs' \in Seq(Log) /\ IsInjective(logs') /\ todo # {}
    BY <1>1, <1>2, <1>5, AtWork DEF PriceCall, SwapsInv
  <2>2. part' = [seen |-> part'.seen, again |-> {}]
    BY <1>6
  <2> QED
    BY <1>2, <1>3, <1>8, <1>9, <2>1, <2>2 DEF SwapsInv
<1> QED
  BY <1>2, <1>3, <1>10 DEF PriceInv, PriceCall, ScanInv, DoneInv

LEMMA SkipSwapKeepsInv ==
    ASSUME PriceInv, call = "price", SkipSwap
    PROVE  PriceInv'
<1>1. PICK i \in DOMAIN logs :
        IsNextSwap(i) /\ logs' = LogsAfter(i) /\ lost' = lost \cup {logs[i]}
  BY DEF SkipSwap
<1>2. /\ pc = "swaps" /\ pc' = "swaps"
      /\ UNCHANGED <<cache, call, query, todo, cursor, part, acc, degraded>>
  BY DEF SkipSwap
<1>3. /\ CacheInv' /\ QueryInv' /\ GapsFit(todo, query.lo, query.hi)'
      /\ Holds(acc, query.job, Through, ~degraded)' /\ \A g : IsNext(g)' <=> IsNext(g)
  BY <1>2, SameCall
<1>4. /\ logs \in Seq(Log) /\ IsInjective(logs) /\ part = [seen |-> part.seen, again |-> {}]
      /\ part.seen \cap lost = {} /\ ToSet(logs) \cap (part.seen \cup lost) = {}
  BY <1>2, AtTheSwaps
<1>5. /\ LogsAfter(i) \in Seq(Log) /\ IsInjective(LogsAfter(i))
      /\ ToSet(LogsAfter(i)) \subseteq ToSet(logs) \ {logs[i]}
      /\ logs[i] \in ToSet(logs) /\ IsRelevant(logs[i])
      /\ \A log \in ToSet(logs) : IsRelevant(log) => log = logs[i] \/ log \in ToSet(LogsAfter(i))
  BY <1>1, <1>4, TakingASwap
<1> DEFINE swap == logs[i]
           rest == LogsAfter(i)
<1> HIDE DEF swap, rest
<1>6. lost' = lost \cup {swap} /\ part' = part
  BY <1>1, <1>2 DEF swap
<1>7. ASSUME NEW g \in todo, IsNext(g)
      PROVE  Accounted(g)'
  <2>1. Accounted(g) /\ \A log \in ToSet(logs) :
                            IsRelevant(log) <=> log \in SwapsIn(query.job, g.lo .. g.hi)
    BY <1>2, <1>7, AtTheSwaps
  <2>2. swap \in SwapsIn(query.job, g.lo .. g.hi)
    BY <1>5, <2>1 DEF swap
  <2>3. \A log \in ToSet(logs) \cap SwapsIn(query.job, g.lo .. g.hi) : log = swap \/ log \in ToSet(rest)
    BY <1>5, <2>1 DEF swap, rest
  <2>4. ToSet(rest) \subseteq ToSet(logs)
    BY <1>5 DEF rest
  <2>5. logs' = rest /\ query' = query /\ cursor' = cursor
    BY <1>1, <1>2 DEF rest
  <2>6. /\ cursor = g.hi + 1
        /\ ToSet(logs) \subseteq LogsOf(g.lo .. g.hi)
        /\ part.seen \cup lost \subseteq SwapsIn(query.job, g.lo .. g.hi)
        /\ SwapsIn(query.job, g.lo .. g.hi) \subseteq ToSet(logs) \cup part.seen \cup lost
    BY <2>1 DEF Accounted
  <2>7. /\ ToSet(rest) \subseteq LogsOf(g.lo .. g.hi)
        /\ part.seen \cup lost' \subseteq SwapsIn(query.job, g.lo .. g.hi)
        /\ SwapsIn(query.job, g.lo .. g.hi) \subseteq ToSet(rest) \cup part.seen \cup lost'
    BY <1>6, <2>2, <2>3, <2>4, <2>6
  <2> QED
    BY <1>6, <2>5, <2>6, <2>7 DEF Accounted
<1>8. part'.seen \cap lost' = {} /\ ToSet(logs') \cap (part'.seen \cup lost') = {}
  BY <1>1, <1>4, <1>5, <1>6 DEF swap
<1>9. SwapsInv'
  <2>1. logs' \in Seq(Log) /\ IsInjective(logs') /\ todo # {}
    BY <1>1, <1>2, <1>5, AtWork DEF PriceCall, SwapsInv
  <2> QED
    BY <1>2, <1>3, <1>4, <1>6, <1>7, <1>8, <2>1 DEF SwapsInv
<1> QED
  BY <1>2, <1>3, <1>9 DEF PriceInv, PriceCall, ScanInv, DoneInv

\* What the end of a gap finds: every swap of the gap added or lost.
LEMMA AtTheEndOfAGap ==
    ASSUME PriceInv, call = "price", pc = "swaps", NoSwapLeft, NEW g \in todo, IsNext(g)
    PROVE  /\ part = [seen |-> part.seen, again |-> {}]
           /\ part.seen \subseteq SwapsIn(query.job, g.lo .. g.hi)
           /\ lost \subseteq SwapsIn(query.job, g.lo .. g.hi)
           /\ SwapsIn(query.job, g.lo .. g.hi) = part.seen \cup lost /\ part.seen \cap lost = {}
           /\ lost = {} => part = Prices(query.job, g.lo .. g.hi)
           /\ cursor = g.hi + 1
<1>1. /\ Accounted(g) /\ part = [seen |-> part.seen, again |-> {}] /\ part.seen \cap lost = {}
      /\ \A log \in ToSet(logs) : IsRelevant(log) <=> log \in SwapsIn(query.job, g.lo .. g.hi)
  BY AtTheSwaps
<1>2. \A log \in ToSet(logs) : ~IsRelevant(log)
  BY DEF NoSwapLeft, ToSet
<1>3. SwapsIn(query.job, g.lo .. g.hi) = part.seen \cup lost
  BY <1>1, <1>2 DEF Accounted
<1>4. lost = {} => part = Prices(query.job, g.lo .. g.hi)
  BY <1>1, <1>3 DEF Prices
<1> QED
  BY <1>1, <1>3, <1>4 DEF Accounted

\* The scan goes on with the first of the gaps that remain.
LEMMA NextGapIsThere ==
    ASSUME PriceInv, FinishGap, todo' # {}
    PROVE  \E h \in todo' : (\A k \in todo' : h.at <= k.at) /\ cursor' = h.lo
<1> DEFINE next == CHOOSE h \in todo' : \A k \in todo' : h.at <= k.at
<1>1. call = "price" /\ todo' \subseteq todo
      /\ cursor' = IF todo' = {} THEN 0 ELSE (CHOOSE h \in todo' : \A k \in todo' : h.at <= k.at).lo
  BY DEF FinishGap
<1>2. \A x \in todo' : x.at \in Nat
  BY <1>1, AtWork
<1>3. \E x \in todo' : \A k \in todo' : x.at <= k.at
  <2> DEFINE S == {x.at : x \in todo'}
  <2>1. S \in SUBSET Nat /\ S # {}
    BY <1>2
  <2>2. PICK m \in S : \A x \in S : m <= x
    BY <2>1, SetMin
  <2>3. PICK x \in todo' : x.at = m
    BY <2>2
  <2> QED
    BY <2>2, <2>3
<1>4. next \in todo' /\ \A k \in todo' : next.at <= k.at
  BY <1>3
<1> HIDE DEF next
<1>5. cursor' = next.lo
  BY <1>1 DEF next
<1> QED
  BY <1>4, <1>5

LEMMA FinishGapKeepsInv ==
    ASSUME PriceInv, FinishGap
    PROVE  PriceInv'
<1>1. PICK g \in todo :
        /\ IsNext(g) /\ todo' = todo \ {g}
        /\ cache' = IF lost = {} THEN Insert(cache, query.job, g.lo, g.hi, part) ELSE cache
  BY DEF FinishGap
<1>2. /\ call = "price" /\ pc = "swaps" /\ NoSwapLeft
      /\ cursor' = IF todo' = {} THEN 0 ELSE (CHOOSE h \in todo' : \A k \in todo' : h.at <= k.at).lo
      /\ acc' = Merge(acc, part) /\ part' = EmptyAggregate
      /\ degraded' = (degraded \/ lost # {}) /\ lost' = {}
      /\ pc' = "scan" /\ logs' = <<>> /\ UNCHANGED <<call, query>>
  BY DEF FinishGap
<1>3. /\ CacheInv /\ QueryInv /\ GapsFit(todo, query.lo, query.hi) /\ query.job \in Jobs
      /\ Holds(acc, query.job, Through, ~degraded)
      /\ g.lo \in Blocks /\ g.hi \in Blocks /\ g.lo <= g.hi /\ g.hi < U64Max
      /\ query.lo \in Blocks /\ query.hi \in Blocks
  BY <1>2, AtWork DEF QueryInv
<1>4. /\ part = [seen |-> part.seen, again |-> {}]
      /\ part.seen \subseteq SwapsIn(query.job, g.lo .. g.hi)
      /\ SwapsIn(query.job, g.lo .. g.hi) = part.seen \cup lost
      /\ lost = {} => part = Prices(query.job, g.lo .. g.hi)
  BY <1>1, <1>2, AtTheEndOfAGap
<1>5. CacheInv'
  <2>1. CASE lost = {}
    <3>1. cache' = Insert(cache, query.job, g.lo, g.hi, Prices(query.job, g.lo .. g.hi))
      BY <1>1, <1>4, <2>1
    <3>2. AllExact(cache') /\ Bar(cache') = Insert(Bar(cache), query.job, g.lo, g.hi,
                                                     BlockCells(query.job, g.lo .. g.hi))
      BY <1>3, <3>1, BarInsert DEF CacheInv
    <3>3. IsFiniteSet(cache')
      <4>1. cache' \subseteq cache \cup {[key |-> query.job, lo |-> g.lo, hi |-> g.hi,
                                           value |-> Prices(query.job, g.lo .. g.hi)]}
        BY <3>1, InsertAdds
      <4> QED
        BY <1>3, <4>1, FS_AddElement, FS_Subset DEF CacheInv
    <3>4. Disjoint(cache')
      <4>1. \A e \in cache : e.lo \in Int /\ e.hi \in Int
        BY <1>3 DEF CacheInv, AllExact, IsExact, Blocks
      <4> QED
        BY <1>3, <3>1, <4>1, InsertKeepsApart DEF CacheInv
    <3> QED
      BY <3>2, <3>3, <3>4 DEF CacheInv
  <2>2. CASE lost # {}
    BY <1>1, <1>3, <2>2 DEF CacheInv
  <2> QED
    BY <2>1, <2>2
<1>6. /\ GapsFit(todo \ {g}, query.lo, query.hi)
      /\ (query.lo .. query.hi) \ BlocksOf(todo \ {g}) = Through \cup (g.lo .. g.hi)
      /\ Through \cap (g.lo .. g.hi) = {}
      /\ g.lo .. g.hi \in SUBSET Blocks /\ Through \in SUBSET Blocks
  BY <1>3, GapOff DEF Through
<1>7. GapsFit(todo, query.lo, query.hi)'
  BY <1>1, <1>2, <1>6
<1>8. Through' = Through \cup (g.lo .. g.hi)
  BY <1>1, <1>2, <1>6 DEF Through
<1>9. Holds(acc, query.job, Through, ~degraded)'
  <2>1. SwapsIn(query.job, Through') = SwapsIn(query.job, Through) \cup SwapsIn(query.job, g.lo .. g.hi)
    <3>1. SwapsIn(query.job, Through \cup (g.lo .. g.hi))
            = SwapsIn(query.job, Through) \cup SwapsIn(query.job, g.lo .. g.hi)
      BY DEF SwapsIn
    <3> QED
      BY <1>8, <3>1
  <2>2. SwapsIn(query.job, Through) \cap SwapsIn(query.job, g.lo .. g.hi) = {}
    BY <1>6, SwapsAreApart
  <2>3. acc = [seen |-> acc.seen, again |-> {}] /\ acc.seen \subseteq SwapsIn(query.job, Through)
        /\ (~degraded => acc.seen = SwapsIn(query.job, Through))
    BY <1>3 DEF Holds
  <2>4. acc' = [seen |-> acc.seen \cup part.seen, again |-> {}]
    <3>1. acc.again = {} /\ part.again = {} /\ acc.seen \cap part.seen = {}
      BY <1>4, <2>2, <2>3
    <3> QED
      BY <1>2, <3>1 DEF Merge
  <2>5. acc'.seen = acc.seen \cup part.seen
    BY <2>4
  <2>6. acc'.seen \subseteq SwapsIn(query.job, Through')
    BY <1>4, <2>1, <2>3, <2>5
  <2>7. ASSUME ~degraded'
        PROVE  acc'.seen = SwapsIn(query.job, Through')
    BY <1>2, <1>4, <2>1, <2>3, <2>5, <2>7
  <2>8. acc' = [seen |-> acc'.seen, again |-> {}] /\ query' = query
    BY <1>2, <2>4, <2>5
  <2> QED
    BY <2>6, <2>7, <2>8 DEF Holds
<1>10. ASSUME todo' # {}
       PROVE  \E h \in todo' : (\A k \in todo' : h.at <= k.at) /\ cursor' = h.lo
  BY <1>2, <1>10, NextGapIsThere
<1>11. \A h \in todo' : h.at \in Nat /\ h.lo \in Nat /\ h.hi \in Nat /\ h.lo <= h.hi
  BY <1>7, U64MaxAssumption DEF GapsFit, Blocks
<1>12. QueryInv'
  <2>1. cursor' \in Nat
    BY <1>2, <1>10, <1>11
  <2> QED
    BY <1>2, <1>3, <2>1 DEF QueryInv
<1>13. ScanInv'
  <2>1. ASSUME NEW h \in todo', \A k \in todo' : h.at <= k.at
        PROVE  cursor' = h.lo /\ h.lo .. h.lo - 1 = {} /\ h.lo <= h.hi + 1 /\ h.lo <= h.lo
    <3>1. PICK x \in todo' : (\A k \in todo' : x.at <= k.at) /\ cursor' = x.lo
      BY <1>10
    <3>2. x.at = h.at
      BY <1>11, <2>1, <3>1
    <3>3. x = h
      BY <1>7, <3>2 DEF GapsFit
    <3>4. h.lo .. h.lo - 1 = {} /\ h.lo <= h.hi + 1 /\ h.lo <= h.lo
      BY <1>11, NoLogs
    <3> QED
      BY <3>1, <3>3, <3>4
  <2>2. ASSUME NEW h \in todo', IsNext(h)'
        PROVE  /\ h.lo <= cursor' /\ cursor' <= h.hi + 1
               /\ ToSet(logs') = LogsOf(h.lo .. cursor' - 1)
    <3>1. \A k \in todo' : h.at <= k.at
      BY <2>2 DEF IsNext
    <3> QED
      BY <1>2, <2>1, <3>1, NoLogs
  <2> QED
    BY <1>2, <2>2, NoLogs DEF ScanInv
<1>14. SwapsInv' /\ DoneInv'
  BY <1>2 DEF SwapsInv, DoneInv
<1> QED
  BY <1>2, <1>5, <1>7, <1>9, <1>12, <1>13, <1>14 DEF PriceInv, PriceCall

LEMMA WriteBackKeepsInv ==
    ASSUME PriceInv, WriteBack
    PROVE  PriceInv'
<1>1. /\ call = "price" /\ pc = "scan" /\ todo = {} /\ pc' = "done"
      /\ cache' = IF degraded THEN cache ELSE Insert(cache, query.job, query.lo, query.hi, acc)
      /\ UNCHANGED <<call, query, todo, cursor, logs, part, lost, acc, degraded>>
  BY DEF WriteBack
<1>2. CacheInv /\ QueryInv /\ GapsFit(todo, query.lo, query.hi)
      /\ Holds(acc, query.job, Through, ~degraded) /\ ScanInv
  BY <1>1, AtWork DEF PriceCall
<1>3. Through = query.lo .. query.hi
  BY <1>1 DEF Through, BlocksOf
<1>4. CacheInv'
  <2>1. CASE degraded
    BY <1>1, <1>2, <2>1 DEF CacheInv
  <2>2. CASE ~degraded
    <3>1. acc = Prices(query.job, query.lo .. query.hi)
      BY <1>2, <1>3, <2>2 DEF Holds, Prices
    <3>2. cache' = Insert(cache, query.job, query.lo, query.hi, Prices(query.job, query.lo .. query.hi))
      BY <1>1, <2>2, <3>1
    <3>3. AllExact(cache')
      BY <1>2, <3>2, BarInsert DEF CacheInv, QueryInv
    <3>4. IsFiniteSet(cache')
      <4>1. cache' \subseteq cache \cup {[key |-> query.job, lo |-> query.lo, hi |-> query.hi,
                                           value |-> Prices(query.job, query.lo .. query.hi)]}
        BY <3>2, InsertAdds
      <4> QED
        BY <1>2, <4>1, FS_AddElement, FS_Subset DEF CacheInv
    <3>5. Disjoint(cache')
      <4>1. \A e \in cache : e.lo \in Int /\ e.hi \in Int
        BY <1>2 DEF CacheInv, AllExact, IsExact, Blocks
      <4> QED
        BY <1>2, <3>2, <4>1, InsertKeepsApart DEF CacheInv, QueryInv
    <3> QED
      BY <3>3, <3>4, <3>5 DEF CacheInv
  <2> QED
    BY <2>1, <2>2
<1>5. QueryInv' /\ GapsFit(todo, query.lo, query.hi)' /\ Holds(acc, query.job, Through, ~degraded)'
  <2>1. Through' = Through
    BY <1>1 DEF Through
  <2>2. QueryInv'
    BY <1>1, <1>2 DEF QueryInv
  <2> QED
    BY <1>1, <1>2, <2>1, <2>2
<1>6. DoneInv' /\ ScanInv' /\ SwapsInv'
  BY <1>1, <1>2 DEF DoneInv, ScanInv, SwapsInv
<1> QED
  BY <1>1, <1>4, <1>5, <1>6 DEF PriceInv, PriceCall

LEMMA PriceInvStep == PriceInv /\ [Next]_vars => PriceInv'
<1> SUFFICES ASSUME PriceInv, [Next]_vars PROVE PriceInv'
  OBVIOUS
<1>1. CASE AskPrice
  BY <1>1, PriceMissKeepsInv, PriceHitKeepsInv, PricePartialKeepsInv DEF AskPrice
<1>2. CASE AskRaw
  BY <1>2, RawKeepsInv DEF AskRaw, Ask
<1>3. CASE call = "raw" /\ (ScanChunk \/ EnsureDecimals \/ AddSwap \/ SkipSwap)
  BY <1>3, RawKeepsInv DEF ScanChunk, EnsureDecimals, AddSwap, SkipSwap
<1>4. CASE call = "price" /\ (ScanChunk \/ EnsureDecimals \/ AddSwap \/ SkipSwap)
  BY <1>4, ScanChunkKeepsInv, EnsureDecimalsKeepsInv, AddSwapKeepsInv, SkipSwapKeepsInv
<1>5. CASE call = "none" /\ (ScanChunk \/ EnsureDecimals \/ AddSwap \/ SkipSwap)
  BY <1>5 DEF PriceInv, ScanChunk, EnsureDecimals, AddSwap, SkipSwap
<1>6. CASE FinishGap \/ WriteBack
  BY <1>6, FinishGapKeepsInv, WriteBackKeepsInv
<1>7. CASE FinishRaw
  BY <1>7, RawKeepsInv DEF FinishRaw
<1>8. CASE Return \/ GiveUp
  BY <1>8, ForgetKeepsInv DEF Return, GiveUp
<1>9. CASE UNCHANGED vars
  BY <1>9 DEF vars, PriceInv, CacheInv, AtRest, PriceCall, QueryInv, Holds, Through, BlocksOf, GapsFit,
              ScanInv, SwapsInv, Accounted, DoneInv, IsNext
<1>10. call \in {"none", "price", "raw"}
  BY DEF PriceInv
<1> QED
  BY <1>1, <1>2, <1>3, <1>4, <1>5, <1>6, <1>7, <1>8, <1>9, <1>10 DEF Next, Progress

\* The invariant holds in every state of the calculator.
THEOREM PriceInvariant == Spec => []PriceInv
  BY PriceInvInit, PriceInvStep, PTL DEF Spec

-----------------------------------------------------------------------------
(* What RangeQuery sees of a state *)

\* The one caller of RangeQuery
One(v) == [t \in {"calculator"} |-> v]

LEMMA OneIs ==
    ASSUME NEW v, NEW w
    PROVE  /\ One(v)["calculator"] = v
           /\ [One(v) EXCEPT !["calculator"] = w] = One(w)
           /\ [t \in {"calculator"} |-> v] = One(v)
  BY DEF One

\* A call that is no price call is not seen, and a price call is.
Bars ==
    /\ call # "price" =>
         /\ pcBar = One("idle") /\ queryBar = One(NoQuery) /\ todoBar = One({})
         /\ cursorBar = One(0) /\ partBar = One(EmptyAggregate) /\ accBar = One(EmptyAggregate)
         /\ degradedBar = One(FALSE)
    /\ call = "price" =>
         /\ pcBar = One(IF pc = "done" THEN "done" ELSE "busy")
         /\ queryBar = One(query) /\ todoBar = One(todo) /\ cursorBar = One(cursor)
         /\ partBar = One(ScanCells) /\ accBar = One(AccCells) /\ degradedBar = One(degraded)

LEMMA BarsNow == Bars
  BY DEF Bars, pcBar, queryBar, todoBar, cursorBar, partBar, accBar, degradedBar, ForCaller, One

LEMMA BarsThen == Bars'
  BY BarsNow, PTL

\* All the logs of the blocks and all their swaps: all the blocks
LEMMA CellsOfAll ==
    ASSUME NEW token \in Jobs, NEW blocks \in SUBSET Blocks, NEW found,
           \A log \in found : Involves(log, token) /\ log.block \in blocks,
           SwapsIn(token, blocks) \subseteq found
    PROVE  Cells(token, blocks, found, {}) = BlockCells(token, blocks)
<1>1. \A c \in {token} \X blocks : SwapsOf(token, c[2]) \subseteq SwapsIn(token, blocks)
  BY DEF SwapsOf, SwapsIn
<1>2. FullBlocks(token, blocks, found) = {token} \X blocks
  BY <1>1 DEF FullBlocks
<1> QED
  BY <1>2, CellsAre DEF BlockCells

\* Whatever its decimals did, the scan of a gap has the blocks it has read.
ScanSeen ==
    /\ \A g \in todo : IsNext(g) => ScanCells = BlockCells(query.job, g.lo .. cursor - 1)
    /\ todo = {} => ScanCells = EmptyAggregate

LEMMA ScanSeenNow == PriceInv /\ call = "price" => ScanSeen
<1> SUFFICES ASSUME PriceInv, call = "price" PROVE ScanSeen
  OBVIOUS
<1> DEFINE held == {s \in ToSet(logs) \cup part.seen \cup lost : Involves(s, query.job)}
           twice == {s \in Twice(logs) \cup part.again \cup (ToSet(logs) \cap (part.seen \cup lost)) :
                        Involves(s, query.job)}
           read == UNION {g.lo .. cursor - 1 : g \in {h \in todo : IsNext(h)}}
<1>1. ScanCells = Cells(query.job, read, held, twice)
  BY DEF ScanCells
<1>2. query.job \in Jobs /\ cursor \in Nat /\ pc \in {"scan", "swaps", "done"}
  BY AtWork DEF QueryInv, PriceCall
<1> HIDE DEF held, twice, read
<1>3. twice = {}
  <2>1. IsInjective(logs)
    BY AtWork, NoLogs DEF PriceCall, ScanInv, SwapsInv, DoneInv
  <2>2. Twice(logs) = {}
    BY <2>1 DEF Twice, IsInjective
  <2>3. part.again = {}
    BY AtWork DEF PriceCall, ScanInv, SwapsInv, DoneInv, EmptyAggregate
  <2>4. ToSet(logs) \cap (part.seen \cup lost) = {}
    BY AtWork, NoLogs DEF PriceCall, ScanInv, SwapsInv, DoneInv, EmptyAggregate
  <2> QED
    BY <2>2, <2>3, <2>4 DEF twice
<1>4. ASSUME NEW g \in todo, IsNext(g)
      PROVE  ScanCells = BlockCells(query.job, g.lo .. cursor - 1)
  <2>1. read = g.lo .. cursor - 1
    <3>1. {h \in todo : IsNext(h)} = {g}
      BY <1>4, AtWork
    <3> QED
      BY <3>1 DEF read
  <2>2. g.lo \in Nat /\ g.hi \in Nat /\ g.hi \in Blocks /\ pc # "done"
    BY AtWork DEF PriceCall, DoneInv
  <2>3. /\ ToSet(logs) \cup part.seen \cup lost \subseteq LogsOf(g.lo .. cursor - 1)
        /\ SwapsIn(query.job, g.lo .. cursor - 1) \subseteq ToSet(logs) \cup part.seen \cup lost
        /\ cursor <= g.hi + 1
    <3>1. CASE pc = "scan"
      <4>1. /\ ToSet(logs) = LogsOf(g.lo .. cursor - 1) /\ part.seen = {} /\ lost = {}
            /\ cursor <= g.hi + 1
        BY <1>4, <3>1, AtWork DEF PriceCall, ScanInv, EmptyAggregate
      <4> QED
        BY <4>1 DEF SwapsIn, LogsOf
    <3>2. CASE pc = "swaps"
      <4>1. Accounted(g)
        BY <1>4, <3>2, AtWork DEF PriceCall, SwapsInv
      <4>2. cursor - 1 = g.hi /\ cursor <= g.hi + 1
        BY <2>2, <4>1 DEF Accounted
      <4> QED
        BY <4>1, <4>2 DEF Accounted, SwapsIn, LogsOf
    <3> QED
      BY <1>2, <2>2, <3>1, <3>2
  <2>4. read \in SUBSET Blocks
    BY <1>2, <2>1, <2>2, <2>3, U64MaxAssumption DEF Blocks
  <2>5. \A log \in held : Involves(log, query.job) /\ log.block \in read
    BY <2>1, <2>3 DEF held, LogsOf
  <2>6. SwapsIn(query.job, read) \subseteq held
    BY <2>1, <2>3 DEF held, SwapsIn
  <2>7. Cells(query.job, read, held, {}) = BlockCells(query.job, read)
    BY <1>2, <2>4, <2>5, <2>6, CellsOfAll
  <2> QED
    BY <1>1, <1>3, <2>1, <2>7
<1>5. ASSUME todo = {}
      PROVE  ScanCells = EmptyAggregate
  <2>1. pc = "scan" \/ pc = "done"
    BY <1>2, <1>5, AtWork DEF PriceCall, SwapsInv
  <2>2. logs = <<>> /\ part.seen = {} /\ lost = {}
    BY <1>5, <2>1, AtWork DEF PriceCall, ScanInv, DoneInv, EmptyAggregate
  <2>3. held = {} /\ read = {}
    BY <1>5, <2>2, NoLogs DEF held, read
  <2> QED
    BY <1>1, <1>2, <1>3, <2>3, CellsOfNothing
<1> QED
  BY <1>4, <1>5 DEF ScanSeen

\* The answer so far has the blocks it has all swaps of.
AccSeen ==
    /\ Through \in SUBSET Blocks
    /\ AccCells = Cells(query.job, Through, acc.seen, {})
    /\ ~degraded => acc = Prices(query.job, Through) /\ AccCells = BlockCells(query.job, Through)

LEMMA AccSeenNow == PriceInv /\ call = "price" => AccSeen
<1> SUFFICES ASSUME PriceInv, call = "price" PROVE AccSeen
  OBVIOUS
<1>1. query.job \in Jobs /\ query.lo \in Blocks /\ query.hi \in Blocks
      /\ Holds(acc, query.job, Through, ~degraded)
  BY AtWork DEF QueryInv
<1>2. Through \in SUBSET Blocks
  BY <1>1, RangeInBlocks DEF Through
<1>3. acc.again = {}
  BY <1>1 DEF Holds
<1>4. AccCells = Cells(query.job, Through, acc.seen, {})
  BY <1>3 DEF AccCells, Through
<1>5. ASSUME ~degraded
      PROVE  acc = Prices(query.job, Through) /\ AccCells = BlockCells(query.job, Through)
  <2>1. acc = Prices(query.job, Through) /\ acc.seen = SwapsIn(query.job, Through)
    BY <1>1, <1>5 DEF Holds, Prices
  <2> QED
    BY <1>1, <1>2, <1>4, <2>1, CellsOfPrices
<1> QED
  BY <1>2, <1>4, <1>5 DEF AccSeen

\* The cache has the blocks of its ranges.
AllSeen == cacheBar = Bar(cache) /\ (call = "price" => ScanSeen /\ AccSeen)

LEMMA SeenNow == PriceInv => AllSeen
  BY CacheBarIs, ScanSeenNow, AccSeenNow DEF PriceInv, CacheInv, AllSeen

\* And so in the next state
LEMMA SeenThen == PriceInv' => AllSeen'
  BY SeenNow, PTL

-----------------------------------------------------------------------------
(* Every step is a step of RangeQuery, or none *)

LEMMA SameOperators ==
    /\ \A a, b : Abstract!Merge(a, b) = Merge(a, b)
    /\ \A W : Abstract!MergeEntries(W) = MergeEntries(W)
    /\ \A W : Abstract!SortedPositions(W) = SortedPositions(W)
    /\ \A entries, key, lo, hi :
            Abstract!WithinQuery(entries, key, lo, hi) = WithinQuery(entries, key, lo, hi)
    /\ \A W, lo, hi, pos : Abstract!Gaps(W, lo, hi, pos) = Gaps(W, lo, hi, pos)
    /\ \A entries, key, lo, hi, value :
          Abstract!Insert(entries, key, lo, hi, value) = Insert(entries, key, lo, hi, value)
    /\ Abstract!EmptyAggregate = EmptyAggregate /\ Abstract!NoQuery = NoQuery
<1>1. \A entries, key, lo, hi :
        Abstract!Overlapping(entries, key, lo, hi) = Overlapping(entries, key, lo, hi)
  BY DEF Abstract!Overlapping, Overlapping
<1>2. \A entries, key, lo, hi, value :
          Abstract!Store(entries, key, lo, hi, value) = Store(entries, key, lo, hi, value)
  BY DEF Abstract!Store, Store
<1>3. \A entries, key, lo, hi, value :
          Abstract!Insert(entries, key, lo, hi, value) = Insert(entries, key, lo, hi, value)
  BY <1>1, <1>2 DEF Abstract!Insert, Insert
<1>4. \A S : Abstract!Max(S) = Max(S)
  BY DEF Abstract!Max, Max
<1>5. \A b : Abstract!BlockAfter(b) = BlockAfter(b)
  BY DEF Abstract!BlockAfter, BlockAfter
<1>6. \A W, lo, pos, i : Abstract!Current(W, lo, pos, i) = Current(W, lo, pos, i)
  BY <1>4, <1>5 DEF Abstract!Current, Current
<1>13. \A S : Abstract!Cardinality(S) = Cardinality(S)
  BY DEF Abstract!Cardinality, Cardinality
<1>7. \A W, lo, hi, pos : Abstract!Gaps(W, lo, hi, pos) = Gaps(W, lo, hi, pos)
  BY <1>6, <1>13 DEF Abstract!Gaps, Gaps
<1>8. \A a, b : Abstract!Merge(a, b) = Merge(a, b)
  BY DEF Abstract!Merge, Merge
<1>9. \A W : Abstract!MergeEntries(W) = MergeEntries(W)
  BY DEF Abstract!MergeEntries, MergeEntries
<1>10. \A W : Abstract!SortedPositions(W) = SortedPositions(W)
  BY <1>13 DEF Abstract!SortedPositions, SortedPositions
<1>11. \A entries, key, lo, hi :
         Abstract!WithinQuery(entries, key, lo, hi) = WithinQuery(entries, key, lo, hi)
  BY DEF Abstract!WithinQuery, WithinQuery
<1>12. Abstract!EmptyAggregate = EmptyAggregate /\ Abstract!NoQuery = NoQuery
  BY DEF Abstract!EmptyAggregate, EmptyAggregate, Abstract!NoQuery, NoQuery
<1> QED
  BY <1>3, <1>7, <1>8, <1>9, <1>10, <1>11, <1>12

\* Where a block range begins
LEMMA RangeJoins ==
    ASSUME NEW token \in Jobs, NEW lo \in Nat, NEW from \in Nat, NEW to \in Nat,
           lo <= from, from <= to, to <= U64Max
    PROVE  /\ Merge(BlockCells(token, lo .. from - 1), Abstract!Scanned(token, from, to))
                = BlockCells(token, lo .. to)
           /\ to = (to + 1) - 1
<1>1. {b \in from .. to : b <= U64Max} = from .. to
  BY U64MaxAssumption
<1>2. Abstract!Scanned(token, from, to) = BlockCells(token, from .. to)
  BY <1>1 DEF Abstract!Scanned, BlockCells
<1>3. lo .. to = (lo .. from - 1) \cup (from .. to) /\ (lo .. from - 1) \cap (from .. to) = {}
  OBVIOUS
<1>4. {token} \X (lo .. to) = ({token} \X (lo .. from - 1)) \cup ({token} \X (from .. to))
  BY <1>3
<1>5. ({token} \X (lo .. from - 1)) \cap ({token} \X (from .. to)) = {}
  BY <1>3
<1> QED
  BY <1>2, <1>4, <1>5 DEF Merge, BlockCells

LEMMA ScanChunkIsOne ==
    ASSUME PriceInv, PriceInv', call = "price", ScanChunk
    PROVE  Abstract!ScanChunk("calculator")
<1>1. PICK g \in todo : /\ IsNext(g) /\ cursor <= g.hi
                        /\ cursor' = ChunkEnd(cursor, g.hi) + 1
  BY DEF ScanChunk
<1>2. /\ pc = "scan" /\ cache' = cache /\ call' = call /\ pc' = pc /\ query' = query
      /\ todo' = todo /\ acc' = acc /\ degraded' = degraded
  BY DEF ScanChunk
<1> DEFINE end == ChunkEnd(cursor, g.hi)
<1>3. /\ g.lo <= cursor /\ cursor \in Nat /\ g.lo \in Nat /\ g.hi \in Nat /\ g.hi < U64Max
      /\ query.job \in Jobs
  BY <1>1, <1>2, AtWork DEF PriceCall, ScanInv, QueryInv
<1>4. /\ end = IF cursor + (ChunkSize - 1) < g.hi THEN cursor + (ChunkSize - 1) ELSE g.hi
      /\ end \in Nat /\ cursor <= end /\ end <= g.hi
  BY <1>1, <1>3, ChunkEndIs
<1>5. Abstract!ChunkEnd(cursor, g.hi) = end
  BY <1>4 DEF Abstract!ChunkEnd
<1> HIDE DEF end
<1>6. ScanCells = BlockCells(query.job, g.lo .. cursor - 1)
  BY <1>1, SeenNow DEF AllSeen, ScanSeen
<1>7. ScanCells' = BlockCells(query.job, g.lo .. cursor' - 1)
  BY <1>1, <1>2, SeenThen DEF AllSeen, ScanSeen, IsNext
<1>8. cursor' = end + 1
  BY <1>1 DEF end
<1>9. ScanCells' = Abstract!Merge(ScanCells, Abstract!Scanned(query.job, cursor, end))
  <2>1. end <= U64Max
    BY <1>3, <1>4, U64MaxAssumption
  <2>2. Merge(BlockCells(query.job, g.lo .. cursor - 1), Abstract!Scanned(query.job, cursor, end))
          = BlockCells(query.job, g.lo .. end) /\ end = (end + 1) - 1
    BY <1>3, <1>4, <2>1, RangeJoins
  <2> QED
    BY <1>6, <1>7, <1>8, <2>2, SameOperators
<1>10. AccCells' = AccCells
  BY <1>2 DEF AccCells, Cells, BlocksOf
<1>11. cacheBar' = cacheBar
  BY <1>2 DEF cacheBar
<1>12. /\ pcBar = One("busy") /\ pcBar' = One("busy")
       /\ queryBar = One(query) /\ queryBar' = queryBar
       /\ todoBar = One(todo) /\ todoBar' = todoBar
       /\ cursorBar = One(cursor) /\ cursorBar' = One(end + 1)
       /\ partBar = One(ScanCells) /\ partBar' = One(ScanCells')
       /\ accBar' = accBar /\ degradedBar' = degradedBar
  <2>1. /\ pcBar = One("busy") /\ queryBar = One(query) /\ todoBar = One(todo)
        /\ cursorBar = One(cursor) /\ partBar = One(ScanCells) /\ accBar = One(AccCells)
        /\ degradedBar = One(degraded)
    BY <1>2, BarsNow DEF Bars
  <2>2. /\ pcBar' = One("busy") /\ queryBar' = One(query') /\ todoBar' = One(todo')
        /\ cursorBar' = One(cursor') /\ partBar' = One(ScanCells') /\ accBar' = One(AccCells')
        /\ degradedBar' = One(degraded')
    BY <1>2, BarsThen DEF Bars
  <2> QED
    BY <1>2, <1>8, <1>10, <2>1, <2>2
<1>13. /\ pcBar["calculator"] = "busy" /\ todoBar["calculator"] = todo
       /\ cursorBar["calculator"] = cursor /\ queryBar["calculator"] = query
       /\ partBar["calculator"] = ScanCells
       /\ partBar' = [partBar EXCEPT !["calculator"] = ScanCells']
       /\ cursorBar' = [cursorBar EXCEPT !["calculator"] = end + 1]
  BY <1>12, OneIs
<1>14. Abstract!IsNext(todo, g)
  BY <1>1 DEF Abstract!IsNext, IsNext
<1> QED
  BY <1>1, <1>5, <1>9, <1>11, <1>12, <1>13, <1>14 DEF Abstract!ScanChunk

\* What RangeQuery sees of a call at work, and of the state after it
LEMMA Here ==
    ASSUME PriceInv, call = "price"
    PROVE  /\ pcBar["calculator"] = (IF pc = "done" THEN "done" ELSE "busy")
           /\ queryBar["calculator"] = query /\ todoBar["calculator"] = todo
           /\ cursorBar["calculator"] = cursor /\ partBar["calculator"] = ScanCells
           /\ accBar["calculator"] = AccCells /\ degradedBar["calculator"] = degraded
           /\ cacheBar = Bar(cache) /\ ScanSeen /\ AccSeen
  BY BarsNow, SeenNow, OneIs DEF Bars, AllSeen

\* Steps that RangeQuery does not see
LEMMA NotSeen ==
    ASSUME call # "price", call' # "price", cache' = cache
    PROVE  UNCHANGED Abstract!vars
<1>1. cacheBar' = cacheBar
  BY DEF cacheBar
<1>2. /\ pcBar' = pcBar /\ queryBar' = queryBar /\ todoBar' = todoBar /\ cursorBar' = cursorBar
      /\ partBar' = partBar /\ accBar' = accBar /\ degradedBar' = degradedBar
  <2>1. /\ pcBar = One("idle") /\ queryBar = One(NoQuery) /\ todoBar = One({})
        /\ cursorBar = One(0) /\ partBar = One(EmptyAggregate) /\ accBar = One(EmptyAggregate)
        /\ degradedBar = One(FALSE)
    BY BarsNow DEF Bars
  <2>2. /\ pcBar' = One("idle") /\ queryBar' = One(NoQuery) /\ todoBar' = One({})
        /\ cursorBar' = One(0) /\ partBar' = One(EmptyAggregate) /\ accBar' = One(EmptyAggregate)
        /\ degradedBar' = One(FALSE)
    BY BarsThen DEF Bars
  <2> QED
    BY <2>1, <2>2
<1> QED
  BY <1>1, <1>2 DEF Abstract!vars

\* Reading decimals, adding a swap and losing one: what was scanned stays.
LEMMA SwapsNotSeen ==
    ASSUME PriceInv, PriceInv', call = "price", EnsureDecimals \/ AddSwap \/ SkipSwap
    PROVE  UNCHANGED Abstract!vars
<1>1. /\ UNCHANGED <<cache, call, query, todo, cursor, acc, degraded>>
      /\ pc \in {"scan", "swaps"} /\ pc' \in {"scan", "swaps"}
  BY DEF EnsureDecimals, AddSwap, SkipSwap
<1>2. ScanCells' = ScanCells
  <2>1. CASE todo = {}
    <3>1. todo' = {}
      BY <1>1, <2>1
    <3>2. ScanCells = EmptyAggregate
      BY <2>1, Here DEF ScanSeen
    <3>3. ScanCells' = EmptyAggregate
      BY <1>1, <3>1, SeenThen DEF AllSeen, ScanSeen
    <3> QED
      BY <3>2, <3>3
  <2>2. CASE todo # {}
    <3>1. PICK g \in todo : IsNext(g)
      BY <2>2, AtWork
    <3>2. ScanCells = BlockCells(query.job, g.lo .. cursor - 1)
      BY <3>1, Here DEF ScanSeen
    <3>3. g \in todo' /\ IsNext(g)'
      BY <1>1, <3>1 DEF IsNext
    <3>4. ScanCells' = BlockCells(query'.job, g.lo .. cursor' - 1)
      BY <1>1, <3>3, SeenThen DEF AllSeen, ScanSeen
    <3> QED
      BY <1>1, <3>2, <3>4
  <2> QED
    BY <2>1, <2>2
<1>3. AccCells' = AccCells
  BY <1>1 DEF AccCells, Cells, BlocksOf
<1>4. cacheBar' = cacheBar
  BY <1>1 DEF cacheBar
<1>5. /\ pcBar' = pcBar /\ queryBar' = queryBar /\ todoBar' = todoBar /\ cursorBar' = cursorBar
      /\ partBar' = partBar /\ accBar' = accBar /\ degradedBar' = degradedBar
  <2>1. /\ pcBar = One("busy") /\ queryBar = One(query) /\ todoBar = One(todo)
        /\ cursorBar = One(cursor) /\ partBar = One(ScanCells) /\ accBar = One(AccCells)
        /\ degradedBar = One(degraded)
    BY <1>1, BarsNow DEF Bars
  <2>2. /\ pcBar' = One("busy") /\ queryBar' = One(query') /\ todoBar' = One(todo')
        /\ cursorBar' = One(cursor') /\ partBar' = One(ScanCells') /\ accBar' = One(AccCells')
        /\ degradedBar' = One(degraded')
    BY <1>1, BarsThen DEF Bars
  <2> QED
    BY <1>1, <1>2, <1>3, <2>1, <2>2
<1> QED
  BY <1>4, <1>5 DEF Abstract!vars

LEMMA ForgetIsOne ==
    ASSUME PriceInv, call = "price", Forget
    PROVE  Abstract!Forget("calculator")
<1>1. cacheBar' = cacheBar
  BY DEF Forget, cacheBar
<1>2. /\ pcBar' = One("idle") /\ queryBar' = One(NoQuery) /\ todoBar' = One({})
      /\ cursorBar' = One(0) /\ partBar' = One(EmptyAggregate) /\ accBar' = One(EmptyAggregate)
      /\ degradedBar' = One(FALSE)
  BY BarsThen DEF Bars, Forget
<1>3. /\ pcBar = One(IF pc = "done" THEN "done" ELSE "busy") /\ queryBar = One(query)
      /\ todoBar = One(todo) /\ cursorBar = One(cursor) /\ partBar = One(ScanCells)
      /\ accBar = One(AccCells) /\ degradedBar = One(degraded)
  BY BarsNow DEF Bars
<1>4. /\ pcBar' = [pcBar EXCEPT !["calculator"] = "idle"]
      /\ queryBar' = [queryBar EXCEPT !["calculator"] = Abstract!NoQuery]
      /\ todoBar' = [todoBar EXCEPT !["calculator"] = {}]
      /\ cursorBar' = [cursorBar EXCEPT !["calculator"] = 0]
      /\ partBar' = [partBar EXCEPT !["calculator"] = Abstract!EmptyAggregate]
      /\ accBar' = [accBar EXCEPT !["calculator"] = Abstract!EmptyAggregate]
      /\ degradedBar' = [degradedBar EXCEPT !["calculator"] = FALSE]
  BY <1>2, <1>3, OneIs, SameOperators
<1> QED
  BY <1>1, <1>4 DEF Abstract!Forget

LEMMA ReturnIsOne ==
    ASSUME PriceInv, call = "price", Return
    PROVE  Abstract!Return("calculator")
  BY ForgetIsOne, Here DEF Return, Abstract!Return

LEMMA GiveUpIsOne ==
    ASSUME PriceInv, call = "price", GiveUp
    PROVE  Abstract!ScanFails("calculator")
  BY ForgetIsOne, Here DEF GiveUp, Abstract!ScanFails

LEMMA WriteBackIsOne ==
    ASSUME PriceInv, PriceInv', WriteBack
    PROVE  Abstract!WriteBack("calculator")
<1>1. /\ call = "price" /\ pc = "scan" /\ todo = {} /\ pc' = "done"
      /\ cache' = IF degraded THEN cache ELSE Insert(cache, query.job, query.lo, query.hi, acc)
      /\ UNCHANGED <<call, query, todo, cursor, logs, part, lost, acc, degraded>>
  BY DEF WriteBack
<1>2. Through = query.lo .. query.hi
  BY <1>1 DEF Through, BlocksOf
<1>3. CacheInv /\ QueryInv
  BY <1>1, AtWork
<1>4. cacheBar = Bar(cache) /\ cacheBar' = Bar(cache')
  BY <1>1, SeenNow, SeenThen DEF AllSeen
<1>5. cacheBar' = IF degraded THEN cacheBar
                  ELSE Abstract!Insert(cacheBar, query.job, query.lo, query.hi, AccCells)
  <2>1. CASE degraded
    BY <1>1, <1>4, <2>1
  <2>2. CASE ~degraded
    <3>1. /\ acc = Prices(query.job, query.lo .. query.hi)
          /\ AccCells = BlockCells(query.job, query.lo .. query.hi)
      BY <1>1, <1>2, <2>2, Here DEF AccSeen
    <3>2. Bar(cache') = Insert(Bar(cache), query.job, query.lo, query.hi,
                               BlockCells(query.job, query.lo .. query.hi))
      BY <1>1, <1>3, <2>2, <3>1, BarInsert DEF CacheInv, QueryInv
    <3> QED
      BY <1>4, <2>2, <3>1, <3>2, SameOperators
  <2> QED
    BY <1>3, <2>1, <2>2 DEF QueryInv
<1>6. ScanCells' = ScanCells /\ AccCells' = AccCells
  <2>1. ScanCells = EmptyAggregate /\ ScanCells' = EmptyAggregate
    BY <1>1, Here, SeenThen DEF AllSeen, ScanSeen
  <2>2. AccCells' = AccCells
    BY <1>1 DEF AccCells, Cells, BlocksOf
  <2> QED
    BY <2>1, <2>2
<1>7. /\ queryBar' = queryBar /\ todoBar' = todoBar /\ cursorBar' = cursorBar
      /\ partBar' = partBar /\ accBar' = accBar /\ degradedBar' = degradedBar
      /\ pcBar' = [pcBar EXCEPT !["calculator"] = "done"]
  <2>1. /\ pcBar = One("busy") /\ queryBar = One(query) /\ todoBar = One(todo)
        /\ cursorBar = One(cursor) /\ partBar = One(ScanCells) /\ accBar = One(AccCells)
        /\ degradedBar = One(degraded)
    BY <1>1, BarsNow DEF Bars
  <2>2. /\ pcBar' = One("done") /\ queryBar' = One(query') /\ todoBar' = One(todo')
        /\ cursorBar' = One(cursor') /\ partBar' = One(ScanCells') /\ accBar' = One(AccCells')
        /\ degradedBar' = One(degraded')
    BY <1>1, BarsThen DEF Bars
  <2> QED
    BY <1>1, <1>6, <2>1, <2>2, OneIs
<1>8. /\ pcBar["calculator"] = "busy" /\ todoBar["calculator"] = {}
      /\ queryBar["calculator"] = query /\ accBar["calculator"] = AccCells
      /\ degradedBar["calculator"] = degraded
      /\ Abstract!KeyOfTask("calculator") = query.job
  BY <1>1, Here, AtWork DEF Abstract!KeyOfTask
<1> QED
  BY <1>5, <1>7, <1>8 DEF Abstract!WriteBack

\* Finishing a gap that lost no swap is FinishGap; finishing one that lost some
\* is DegradeGap, and what it keeps are the blocks none of whose swaps was lost.
LEMMA FinishGapIsOne ==
    ASSUME PriceInv, PriceInv', FinishGap
    PROVE  Abstract!FinishGap("calculator") \/ Abstract!DegradeGap("calculator")
<1>1. PICK g \in todo :
        /\ IsNext(g) /\ todo' = todo \ {g}
        /\ cache' = IF lost = {} THEN Insert(cache, query.job, g.lo, g.hi, part) ELSE cache
  BY DEF FinishGap
<1>2. /\ call = "price" /\ pc = "swaps" /\ NoSwapLeft
      /\ cursor' = IF todo' = {} THEN 0 ELSE (CHOOSE h \in todo' : \A k \in todo' : h.at <= k.at).lo
      /\ acc' = Merge(acc, part) /\ part' = EmptyAggregate
      /\ degraded' = (degraded \/ lost # {}) /\ lost' = {}
      /\ pc' = "scan" /\ logs' = <<>> /\ UNCHANGED <<call, query>>
  BY DEF FinishGap
<1>3. /\ CacheInv /\ QueryInv /\ GapsFit(todo, query.lo, query.hi) /\ query.job \in Jobs
      /\ Holds(acc, query.job, Through, ~degraded)
      /\ g.lo \in Blocks /\ g.hi \in Blocks /\ g.lo <= g.hi /\ g.hi < U64Max /\ g.hi \in Nat
      /\ query.lo \in Blocks /\ query.hi \in Blocks
  BY <1>2, AtWork DEF QueryInv
<1>4. /\ part = [seen |-> part.seen, again |-> {}]
      /\ part.seen \subseteq SwapsIn(query.job, g.lo .. g.hi)
      /\ SwapsIn(query.job, g.lo .. g.hi) = part.seen \cup lost /\ part.seen \cap lost = {}
      /\ lost = {} => part = Prices(query.job, g.lo .. g.hi)
      /\ cursor = g.hi + 1
  BY <1>1, <1>2, AtTheEndOfAGap
<1> DEFINE kept == FullBlocks(query.job, g.lo .. g.hi, part.seen)
           found == [seen |-> kept, again |-> {}]
           rest == todo \ {g}
<1> HIDE DEF kept, found, rest
<1>5. ScanCells = BlockCells(query.job, g.lo .. g.hi)
  <2>1. cursor - 1 = g.hi
    BY <1>3, <1>4
  <2> QED
    BY <1>1, <1>2, <2>1, Here DEF ScanSeen
<1>6. /\ Through' = Through \cup (g.lo .. g.hi) /\ Through \cap (g.lo .. g.hi) = {}
      /\ g.lo .. g.hi \in SUBSET Blocks /\ Through \in SUBSET Blocks
  <2>1. /\ (query.lo .. query.hi) \ BlocksOf(todo \ {g}) = Through \cup (g.lo .. g.hi)
        /\ Through \cap (g.lo .. g.hi) = {}
        /\ g.lo .. g.hi \in SUBSET Blocks /\ Through \in SUBSET Blocks
    <3> DEFINE lo == query.lo
               hi == query.hi
    <3>1. lo \in Blocks /\ hi \in Blocks /\ GapsFit(todo, lo, hi)
      BY <1>3
    <3>2. Through = (lo .. hi) \ BlocksOf(todo)
      BY DEF Through
    <3> HIDE DEF lo, hi
    <3>3. /\ GapsFit(todo \ {g}, lo, hi)
          /\ (lo .. hi) \ BlocksOf(todo \ {g}) = ((lo .. hi) \ BlocksOf(todo)) \cup (g.lo .. g.hi)
          /\ ((lo .. hi) \ BlocksOf(todo)) \cap (g.lo .. g.hi) = {}
          /\ g.lo .. g.hi \in SUBSET Blocks /\ (lo .. hi) \ BlocksOf(todo) \in SUBSET Blocks
      BY <3>1, GapOff
    <3> QED
      BY <3>2, <3>3 DEF lo, hi
  <2>2. Through' = Through \cup (g.lo .. g.hi)
    BY <1>1, <1>2, <2>1 DEF Through
  <2> QED
    BY <2>1, <2>2
<1>7. Cells(query.job, g.lo .. g.hi, part.seen, {}) = found
  <2>1. \A log \in part.seen : Involves(log, query.job) /\ log.block \in g.lo .. g.hi
    BY <1>4 DEF SwapsIn
  <2> QED
    BY <1>3, <1>6, <2>1, CellsAre DEF kept, found
<1>8. AccCells' = Merge(AccCells, found)
  <2>1. acc.seen \subseteq SwapsIn(query.job, Through) /\ acc.again = {}
    BY <1>3 DEF Holds
  <2>2. Cells(query.job, Through \cup (g.lo .. g.hi), acc.seen \cup part.seen, {})
          = Merge(Cells(query.job, Through, acc.seen, {}),
                  Cells(query.job, g.lo .. g.hi, part.seen, {}))
    <3>1. acc.seen \in SUBSET SwapsIn(query.job, Through)
      BY <2>1
    <3>2. part.seen \in SUBSET SwapsIn(query.job, g.lo .. g.hi)
      BY <1>4
    <3> DEFINE token == query.job
    <3>3. token \in Jobs
      BY <1>3
    <3> HIDE DEF token
    <3>4. ASSUME NEW A \in SUBSET Blocks, NEW B \in SUBSET Blocks, A \cap B = {},
                 NEW a \in SUBSET SwapsIn(token, A), NEW b \in SUBSET SwapsIn(token, B)
          PROVE  Cells(token, A \cup B, a \cup b, {}) =
                    Merge(Cells(token, A, a, {}), Cells(token, B, b, {}))
      BY <3>3, <3>4, CellsMerge
    <3> QED
      BY <1>6, <3>1, <3>2, <3>4 DEF token
  <2>3. acc'.seen = acc.seen \cup part.seen
    BY <1>2 DEF Merge
  <2>4. AccCells' = Cells(query.job, Through', acc'.seen, {})
    <3>1. AccCells' = Cells(query'.job, Through', acc'.seen, {})
      BY <1>2, SeenThen DEF AllSeen, AccSeen, Cells
    <3> QED
      BY <1>2, <3>1
  <2>5. AccCells = Cells(query.job, Through, acc.seen, {})
    BY <1>2, Here DEF AccSeen
  <2> QED
    BY <1>6, <1>7, <2>2, <2>3, <2>4, <2>5
<1>9. lost = {} => found = ScanCells
  <2> SUFFICES ASSUME lost = {} PROVE kept = {query.job} \X (g.lo .. g.hi)
    BY <1>5 DEF BlockCells, found
  <2>1. \A c \in {query.job} \X (g.lo .. g.hi) : SwapsOf(query.job, c[2]) \subseteq part.seen
    BY <1>4 DEF SwapsOf, SwapsIn
  <2> QED
    BY <2>1 DEF FullBlocks, kept
<1>10. lost # {} => kept \in (SUBSET ScanCells.seen) \ {ScanCells.seen}
  <2> SUFFICES ASSUME NEW log \in lost PROVE kept \in (SUBSET ScanCells.seen) \ {ScanCells.seen}
    OBVIOUS
  <2>1. ScanCells.seen = {query.job} \X (g.lo .. g.hi)
    BY <1>5 DEF BlockCells
  <2>2. kept \subseteq {query.job} \X (g.lo .. g.hi)
    BY DEF FullBlocks, kept
  <2>3. log \in SwapsIn(query.job, g.lo .. g.hi) /\ log \notin part.seen
    BY <1>4
  <2>4. log \in SwapsOf(query.job, log.block) /\ log.block \in g.lo .. g.hi
    BY <2>3 DEF SwapsOf, SwapsIn
  <2>5. <<query.job, log.block>> \in {query.job} \X (g.lo .. g.hi)
    BY <2>4
  <2>6. <<query.job, log.block>> \notin kept
    BY <2>3, <2>4 DEF FullBlocks, kept
  <2> QED
    BY <2>1, <2>2, <2>5, <2>6
<1>11. [ScanCells EXCEPT !.seen = kept] = found
  <2>1. ScanCells = [seen |-> {query.job} \X (g.lo .. g.hi), again |-> {}]
    BY <1>5 DEF BlockCells
  <2> QED
    BY <2>1 DEF found
<1>12. ScanCells' = EmptyAggregate
  <2>1. CASE todo' = {}
    BY <1>2, <2>1, SeenThen DEF AllSeen, ScanSeen
  <2>2. CASE todo' # {}
    <3>1. PICK h \in todo' : (\A k \in todo' : h.at <= k.at) /\ cursor' = h.lo
      BY <1>2, <2>2, NextGapIsThere
    <3>2. IsNext(h)'
      BY <3>1 DEF IsNext
    <3>3. ScanCells' = BlockCells(query'.job, h.lo .. cursor' - 1)
      BY <1>2, <3>2, SeenThen DEF AllSeen, ScanSeen
    <3>4. h \in todo /\ h.lo \in Int
      BY <1>1, <1>2, AtWork
    <3>5. h.lo .. h.lo - 1 = {}
      BY <3>4
    <3> QED
      BY <3>1, <3>3, <3>5 DEF BlockCells, EmptyAggregate
  <2> QED
    BY <2>1, <2>2
<1>13. cacheBar = Bar(cache) /\ cacheBar' = Bar(cache')
  BY <1>2, SeenNow, SeenThen DEF AllSeen
<1>14. IF lost = {} THEN cacheBar' = Abstract!Insert(cacheBar, query.job, g.lo, g.hi, ScanCells)
       ELSE cacheBar' = cacheBar
  <2>1. CASE lost = {}
    <3>1. Bar(cache') = Insert(Bar(cache), query.job, g.lo, g.hi, BlockCells(query.job, g.lo .. g.hi))
      BY <1>1, <1>3, <1>4, <2>1, BarInsert DEF CacheInv
    <3> QED
      BY <1>5, <1>13, <2>1, <3>1, SameOperators
  <2>2. CASE lost # {}
    BY <1>1, <1>13, <2>2
  <2> QED
    BY <2>1, <2>2
<1>15. /\ pcBar["calculator"] = "busy" /\ todoBar["calculator"] = todo
       /\ cursorBar["calculator"] = g.hi + 1 /\ partBar["calculator"] = ScanCells
       /\ queryBar["calculator"] = query /\ Abstract!KeyOfTask("calculator") = query.job
       /\ degradedBar["calculator"] = degraded
  BY <1>2, <1>3, <1>4, Here DEF Abstract!KeyOfTask
<1>16. /\ todoBar' = [todoBar EXCEPT !["calculator"] = rest]
       /\ cursorBar' = [cursorBar EXCEPT !["calculator"] = cursor']
       /\ accBar' = [accBar EXCEPT !["calculator"] = Abstract!Merge(accBar["calculator"], found)]
       /\ partBar' = [partBar EXCEPT !["calculator"] = Abstract!EmptyAggregate]
       /\ degradedBar' = [degradedBar EXCEPT !["calculator"] = degraded']
       /\ pcBar' = pcBar /\ queryBar' = queryBar
  <2>1. /\ pcBar = One("busy") /\ queryBar = One(query) /\ todoBar = One(todo)
        /\ cursorBar = One(cursor) /\ partBar = One(ScanCells) /\ accBar = One(AccCells)
        /\ degradedBar = One(degraded)
    BY <1>2, BarsNow DEF Bars
  <2>2. /\ pcBar' = One("busy") /\ queryBar' = One(query') /\ todoBar' = One(todo')
        /\ cursorBar' = One(cursor') /\ partBar' = One(ScanCells') /\ accBar' = One(AccCells')
        /\ degradedBar' = One(degraded')
    BY <1>2, BarsThen DEF Bars
  <2>3. todo' = rest
    BY <1>1 DEF rest
  <2>4. accBar["calculator"] = AccCells
    BY <1>2, Here
  <2>5. todoBar' = [todoBar EXCEPT !["calculator"] = rest]
    BY <2>1, <2>2, <2>3, OneIs
  <2>6. cursorBar' = [cursorBar EXCEPT !["calculator"] = cursor']
    BY <2>1, <2>2, OneIs
  <2>7. accBar' = [accBar EXCEPT !["calculator"] = Abstract!Merge(accBar["calculator"], found)]
    <3>1. Abstract!Merge(AccCells, found) = AccCells'
      BY <1>8, SameOperators
    <3>2. accBar' = [accBar EXCEPT !["calculator"] = AccCells']
      BY <2>1, <2>2, OneIs
    <3> QED
      BY <2>4, <3>1, <3>2
  <2>8. partBar' = [partBar EXCEPT !["calculator"] = Abstract!EmptyAggregate]
    <3>1. Abstract!EmptyAggregate = ScanCells'
      BY <1>12, SameOperators
    <3>2. partBar' = [partBar EXCEPT !["calculator"] = ScanCells']
      BY <2>1, <2>2, OneIs
    <3> QED
      BY <3>1, <3>2
  <2>9. degradedBar' = [degradedBar EXCEPT !["calculator"] = degraded']
    BY <2>1, <2>2, OneIs
  <2>10. pcBar' = pcBar /\ queryBar' = queryBar
    BY <1>2, <2>1, <2>2
  <2> QED
    BY <2>5, <2>6, <2>7, <2>8, <2>9, <2>10
<1>17. \/ rest = {} /\ cursor' = 0
       \/ \E h \in rest : Abstract!IsNext(rest, h) /\ cursor' = h.lo
  <2>1. todo' = rest
    BY <1>1 DEF rest
  <2>2. CASE rest = {}
    BY <1>2, <2>1, <2>2
  <2>3. CASE rest # {}
    <3>1. PICK h \in todo' : (\A k \in todo' : h.at <= k.at) /\ cursor' = h.lo
      BY <1>2, <2>1, <2>3, NextGapIsThere
    <3> QED
      BY <2>1, <3>1 DEF Abstract!IsNext
  <2> QED
    BY <2>2, <2>3
<1>18. Abstract!NextGap("calculator", g, found)
  <2>1. todoBar["calculator"] \ {g} = rest
    BY <1>15 DEF rest
  <2>2. \/ rest = {} /\ cursorBar' = [cursorBar EXCEPT !["calculator"] = 0]
        \/ \E h \in rest : /\ Abstract!IsNext(rest, h)
                           /\ cursorBar' = [cursorBar EXCEPT !["calculator"] = h.lo]
    BY <1>16, <1>17
  <2> QED
    BY <1>16, <2>1, <2>2 DEF Abstract!NextGap
<1>19. Abstract!IsNext(todo, g) /\ g.hi + 1 > g.hi
  BY <1>1, <1>3 DEF Abstract!IsNext, IsNext
<1>20. CASE lost = {}
  <2>1. degradedBar' = degradedBar
    <3>1. degraded' = degraded
      BY <1>2, <1>20, AtWork DEF QueryInv
    <3> QED
      BY <1>2, <3>1, BarsNow, BarsThen DEF Bars
  <2>2. Abstract!NextGap("calculator", g, partBar["calculator"])
    BY <1>9, <1>15, <1>18, <1>20
  <2>3. cacheBar' = Abstract!Insert(cacheBar, Abstract!KeyOfTask("calculator"), g.lo, g.hi,
                                    partBar["calculator"])
    BY <1>14, <1>15, <1>20
  <2> QED
    BY <1>15, <1>19, <2>1, <2>2, <2>3 DEF Abstract!FinishGap
<1>21. CASE lost # {}
  <2>1. degradedBar' = [degradedBar EXCEPT !["calculator"] = TRUE]
    BY <1>2, <1>16, <1>21
  <2>2. Abstract!NextGap("calculator", g, [partBar["calculator"] EXCEPT !.seen = kept])
    BY <1>11, <1>15, <1>18
  <2>3. kept \in (SUBSET partBar["calculator"].seen) \ {partBar["calculator"].seen}
    BY <1>10, <1>15, <1>21
  <2>4. cacheBar' = cacheBar
    BY <1>14, <1>21
  <2> QED
    BY <1>15, <1>19, <2>1, <2>2, <2>3, <2>4 DEF Abstract!DegradeGap
<1> QED
  BY <1>20, <1>21

\* What RangeQuery sees of a call that has just asked
LEMMA JustAsked ==
    ASSUME PriceInv, PriceInv', NEW token \in Jobs, NEW r \in Ranges,
           Ask(token, r[1], r[2], "price"),
           \/ todo' = {}
           \/ \E h \in todo' : (\A k \in todo' : h.at <= k.at) /\ cursor' = h.lo /\ h.lo \in Int
    PROVE  /\ Abstract!Ask("calculator", token, r[1], r[2])
           /\ cacheBar = Bar(cache) /\ CacheInv /\ AtRest
           /\ r[1] \in Blocks /\ r[2] \in Blocks
           /\ todoBar = One({}) /\ cursorBar = One(0) /\ accBar = One(EmptyAggregate)
           /\ pcBar = One("idle")
           /\ todoBar' = One(todo') /\ cursorBar' = One(cursor')
           /\ pcBar' = One(IF pc' = "done" THEN "done" ELSE "busy")
           /\ accBar' = One(BlockCells(token, (r[1] .. r[2]) \ BlocksOf(todo')))
<1>1. /\ CacheInv /\ AtRest /\ call = "none" /\ pc = "idle"
      /\ r[1] \in Blocks /\ r[2] \in Blocks /\ r[1] <= r[2] /\ r[2] < U64Max
      /\ query' = [job |-> token, lo |-> r[1], hi |-> r[2], settled |-> TRUE]
      /\ call' = "price" /\ cache' = cache /\ degraded' = FALSE
  BY AtTheStart
<1>2. /\ pcBar = One("idle") /\ queryBar = One(NoQuery) /\ todoBar = One({})
      /\ cursorBar = One(0) /\ partBar = One(EmptyAggregate) /\ accBar = One(EmptyAggregate)
      /\ degradedBar = One(FALSE)
  BY <1>1, BarsNow DEF Bars
<1>3. /\ pcBar' = One(IF pc' = "done" THEN "done" ELSE "busy")
      /\ queryBar' = One(query') /\ todoBar' = One(todo') /\ cursorBar' = One(cursor')
      /\ partBar' = One(ScanCells') /\ accBar' = One(AccCells') /\ degradedBar' = One(degraded')
  BY <1>1, BarsThen DEF Bars
<1>4. cacheBar' = cacheBar /\ cacheBar = Bar(cache)
  BY <1>1, SeenNow DEF cacheBar, AllSeen
<1>5. ScanCells' = EmptyAggregate
  <2>1. CASE todo' = {}
    BY <1>1, <2>1, SeenThen DEF AllSeen, ScanSeen
  <2>2. CASE todo' # {}
    <3>1. PICK h \in todo' : (\A k \in todo' : h.at <= k.at) /\ cursor' = h.lo /\ h.lo \in Int
      BY <2>2
    <3>2. IsNext(h)'
      BY <3>1 DEF IsNext
    <3>3. ScanCells' = BlockCells(query'.job, h.lo .. cursor' - 1)
      BY <1>1, <3>2, SeenThen DEF AllSeen, ScanSeen
    <3>4. h.lo .. cursor' - 1 = {}
      BY <3>1
    <3> QED
      BY <3>3, <3>4 DEF BlockCells, EmptyAggregate
  <2> QED
    BY <2>1, <2>2
<1>6. AccCells' = BlockCells(token, (r[1] .. r[2]) \ BlocksOf(todo'))
  <2>1. AccCells' = BlockCells(query'.job, Through')
    BY <1>1, SeenThen DEF AllSeen, AccSeen
  <2>2. Through' = (r[1] .. r[2]) \ BlocksOf(todo') /\ query'.job = token
    BY <1>1 DEF Through
  <2> QED
    BY <2>1, <2>2
<1>7. Abstract!Ask("calculator", token, r[1], r[2])
  <2>1. r[2] <= U64Max
    BY <1>1, U64MaxAssumption DEF Blocks
  <2>2. queryBar' = [queryBar EXCEPT !["calculator"] =
                        [job |-> token, lo |-> r[1], hi |-> r[2], settled |-> r[2] <= U64Max]]
    BY <1>1, <1>2, <1>3, <2>1, OneIs
  <2>3. pcBar["calculator"] = "idle" /\ partBar' = partBar /\ degradedBar' = degradedBar
    BY <1>1, <1>2, <1>3, <1>5, OneIs
  <2> QED
    BY <1>4, <2>1, <2>2, <2>3 DEF Abstract!Ask
<1> QED
  BY <1>1, <1>2, <1>3, <1>4, <1>6, <1>7

\* The cache key of a price call is its token.
LEMMA KeyIsToken == \A token \in Jobs : [j \in Jobs |-> j][token] = token
  OBVIOUS

LEMMA PriceMissIsOne ==
    ASSUME PriceInv, PriceInv', NEW token \in Jobs, NEW r \in Ranges, PriceMiss(token, r[1], r[2])
    PROVE  Abstract!LookupMiss("calculator", token, r[1], r[2])
<1> DEFINE gap == [at |-> 1, lo |-> r[1], hi |-> r[2]]
<1>1. /\ Ask(token, r[1], r[2], "price") /\ WithinQuery(cache, token, r[1], r[2]) = {}
      /\ todo' = {gap} /\ cursor' = r[1] /\ pc' = "scan"
  BY DEF PriceMiss
<1>2. r[1] \in Int /\ r[1] \in Blocks /\ r[2] \in Blocks
  BY PriceQueryAssumption, U64MaxAssumption DEF Blocks
<1>3. /\ Abstract!Ask("calculator", token, r[1], r[2])
      /\ cacheBar = Bar(cache) /\ CacheInv
      /\ todoBar = One({}) /\ cursorBar = One(0) /\ accBar = One(EmptyAggregate) /\ pcBar = One("idle")
      /\ todoBar' = One(todo') /\ cursorBar' = One(cursor')
      /\ pcBar' = One(IF pc' = "done" THEN "done" ELSE "busy")
      /\ accBar' = One(BlockCells(token, (r[1] .. r[2]) \ BlocksOf(todo')))
  <2>1. \E h \in todo' : (\A k \in todo' : h.at <= k.at) /\ cursor' = h.lo /\ h.lo \in Int
    BY <1>1, <1>2
  <2> QED
    BY <1>1, <2>1, JustAsked
<1>4. accBar' = accBar
  <2>1. (r[1] .. r[2]) \ BlocksOf(todo') = {}
    BY <1>1 DEF BlocksOf
  <2> QED
    BY <1>3, <2>1 DEF BlockCells, EmptyAggregate
<1>5. Abstract!WithinQuery(cacheBar, token, r[1], r[2]) = {}
  <2>1. WithinQuery(Bar(cache), token, r[1], r[2]) = Bar({})
    BY <1>1, <1>3, BarWithin DEF CacheInv
  <2> QED
    BY <1>3, <2>1, SameOperators DEF Bar
<1>6. /\ todoBar' = [todoBar EXCEPT !["calculator"] = {gap}]
      /\ cursorBar' = [cursorBar EXCEPT !["calculator"] = r[1]]
      /\ pcBar' = [pcBar EXCEPT !["calculator"] = "busy"]
  BY <1>1, <1>3, OneIs
<1> QED
  BY <1>3, <1>4, <1>5, <1>6, KeyIsToken DEF Abstract!LookupMiss

LEMMA PriceHitIsOne ==
    ASSUME PriceInv, PriceInv', NEW token \in Jobs, NEW r \in Ranges, PriceHit(token, r[1], r[2])
    PROVE  Abstract!LookupHit("calculator", token, r[1], r[2])
<1> DEFINE lo == r[1]
           hi == r[2]
           W == WithinQuery(cache, token, lo, hi)
           V == WithinQuery(Bar(cache), token, lo, hi)
<1>1. PICK pos \in SortedPositions(W) : Gaps(W, lo, hi, pos) = {}
  BY DEF PriceHit
<1>2. Ask(token, lo, hi, "price") /\ W # {} /\ pc' = "done" /\ todo' = todo /\ cursor' = cursor
  BY DEF PriceHit
<1>3. AtRest
  BY <1>2, AtTheStart
<1>4. todo' = {} /\ cursor' = 0
  BY <1>2, <1>3 DEF AtRest
<1>5. /\ Abstract!Ask("calculator", token, lo, hi)
      /\ cacheBar = Bar(cache) /\ CacheInv /\ lo \in Blocks /\ hi \in Blocks
      /\ todoBar = One({}) /\ cursorBar = One(0) /\ accBar = One(EmptyAggregate) /\ pcBar = One("idle")
      /\ todoBar' = One(todo') /\ cursorBar' = One(cursor')
      /\ pcBar' = One(IF pc' = "done" THEN "done" ELSE "busy")
      /\ accBar' = One(BlockCells(token, (lo .. hi) \ BlocksOf(todo')))
  BY <1>2, <1>4, JustAsked
<1> HIDE DEF lo, hi
<1>6. /\ (lo .. hi) \ BlocksOf({}) = CoveredBy(W)
      /\ MergeEntries(V) = BlockCells(token, CoveredBy(W))
      /\ \E q \in SortedPositions(V) : Gaps(V, lo, hi, q) = {}
  <2>1. IsFiniteSet(cache) /\ AllExact(cache) /\ Disjoint(cache) /\ lo \in Blocks /\ hi \in Blocks
    BY <1>5 DEF CacheInv
  <2>2. /\ GapsFit(Gaps(W, lo, hi, pos), lo, hi)
        /\ (lo .. hi) \ BlocksOf(Gaps(W, lo, hi, pos)) = CoveredBy(W)
        /\ MergeEntries(V) = BlockCells(token, CoveredBy(W))
        /\ \E q \in SortedPositions(V) : Gaps(V, lo, hi, q) = Gaps(W, lo, hi, pos)
    BY <2>1, GapsLeaveCovered
  <2> HIDE DEF W, V
  <2> QED
    BY <1>1, <2>2
<1>7. V # {}
  <2>1. V = Bar(W)
    BY <1>5, BarWithin DEF CacheInv
  <2> QED
    BY <1>2, <2>1 DEF Bar
<1> HIDE DEF W, V
<1>8. V = Abstract!WithinQuery(cacheBar, token, lo, hi)
  BY <1>5, SameOperators DEF V
<1>9. /\ accBar' = [accBar EXCEPT !["calculator"] = Abstract!MergeEntries(V)]
      /\ pcBar' = [pcBar EXCEPT !["calculator"] = "done"]
      /\ todoBar' = todoBar /\ cursorBar' = cursorBar
  BY <1>2, <1>4, <1>5, <1>6, OneIs, SameOperators
<1>10. \E q \in Abstract!SortedPositions(V) : Abstract!Gaps(V, lo, hi, q) = {}
  BY <1>6, SameOperators
<1>11. Abstract!LookupHit("calculator", token, lo, hi)
  BY <1>5, <1>7, <1>8, <1>9, <1>10, KeyIsToken DEF Abstract!LookupHit
<1> QED
  BY <1>11 DEF lo, hi

LEMMA PricePartialIsOne ==
    ASSUME PriceInv, PriceInv', NEW token \in Jobs, NEW r \in Ranges, PricePartial(token, r[1], r[2])
    PROVE  Abstract!LookupPartial("calculator", token, r[1], r[2])
<1> DEFINE lo == r[1]
           hi == r[2]
           W == WithinQuery(cache, token, lo, hi)
           V == WithinQuery(Bar(cache), token, lo, hi)
<1>1. PICK pos \in SortedPositions(W) :
        /\ todo' = Gaps(W, lo, hi, pos)
        /\ \E g \in todo' : (\A h \in todo' : g.at <= h.at) /\ cursor' = g.lo
  BY DEF PricePartial
<1>2. Ask(token, lo, hi, "price") /\ W # {} /\ pc' = "scan"
  BY DEF PricePartial
<1>3. CacheInv /\ lo \in Blocks /\ hi \in Blocks
  BY <1>2, AtTheStart
<1>4. /\ GapsFit(todo', lo, hi) /\ (lo .. hi) \ BlocksOf(todo') = CoveredBy(W)
      /\ MergeEntries(V) = BlockCells(token, CoveredBy(W))
      /\ \E q \in SortedPositions(V) : Gaps(V, lo, hi, q) = todo'
  <2> HIDE DEF lo, hi
  <2>1. IsFiniteSet(cache) /\ AllExact(cache) /\ Disjoint(cache)
    BY <1>3 DEF CacheInv
  <2> QED
    BY <1>1, <1>3, <2>1, GapsLeaveCovered
<1>5. PICK g \in todo' : (\A h \in todo' : g.at <= h.at) /\ cursor' = g.lo
  BY <1>1
<1>6. g.lo \in Int
  BY <1>4, U64MaxAssumption DEF GapsFit, Blocks
<1>7. /\ Abstract!Ask("calculator", token, lo, hi)
      /\ cacheBar = Bar(cache)
      /\ todoBar = One({}) /\ cursorBar = One(0) /\ accBar = One(EmptyAggregate) /\ pcBar = One("idle")
      /\ todoBar' = One(todo') /\ cursorBar' = One(cursor')
      /\ pcBar' = One(IF pc' = "done" THEN "done" ELSE "busy")
      /\ accBar' = One(BlockCells(token, (lo .. hi) \ BlocksOf(todo')))
  BY <1>2, <1>5, <1>6, JustAsked
<1> HIDE DEF lo, hi
<1>8. V # {}
  <2>1. V = Bar(W)
    BY <1>3, BarWithin DEF CacheInv
  <2> QED
    BY <1>2, <2>1 DEF Bar
<1> HIDE DEF W, V
<1>9. V = Abstract!WithinQuery(cacheBar, token, lo, hi)
  BY <1>7, SameOperators DEF V
<1>10. /\ accBar' = [accBar EXCEPT !["calculator"] = Abstract!MergeEntries(V)]
       /\ pcBar' = [pcBar EXCEPT !["calculator"] = "busy"]
       /\ todoBar' = [todoBar EXCEPT !["calculator"] = todo']
       /\ cursorBar' = [cursorBar EXCEPT !["calculator"] = g.lo]
  BY <1>2, <1>4, <1>5, <1>7, OneIs, SameOperators
<1>11. PICK q \in Abstract!SortedPositions(V) : Abstract!Gaps(V, lo, hi, q) = todo'
  BY <1>4, SameOperators
<1>12. Abstract!IsNext(todo', g)
  BY <1>5 DEF Abstract!IsNext
<1>13. Abstract!LookupPartial("calculator", token, lo, hi)
  BY <1>7, <1>8, <1>9, <1>10, <1>11, <1>12, KeyIsToken DEF Abstract!LookupPartial
<1> QED
  BY <1>13 DEF lo, hi

\* RangeQuery's Next takes a step of its one caller.
LEMMA OneStep ==
    ASSUME Abstract!Step("calculator")
    PROVE  Abstract!Next
  BY DEF Abstract!Next

LEMMA PriceStepIsOne ==
    PriceInv /\ PriceInv' /\ [Next]_vars => [Abstract!Next]_(Abstract!vars)
<1> SUFFICES ASSUME PriceInv, PriceInv', [Next]_vars
             PROVE  Abstract!Next \/ UNCHANGED Abstract!vars
  OBVIOUS
<1>1. CASE AskPrice
  <2>1. PICK token \in Jobs, r \in Ranges :
            \/ PriceMiss(token, r[1], r[2]) \/ PriceHit(token, r[1], r[2])
            \/ PricePartial(token, r[1], r[2])
    BY <1>1 DEF AskPrice
  <2>2. \/ Abstract!LookupMiss("calculator", token, r[1], r[2])
        \/ Abstract!LookupHit("calculator", token, r[1], r[2])
        \/ Abstract!LookupPartial("calculator", token, r[1], r[2])
    BY <2>1, PriceMissIsOne, PriceHitIsOne, PricePartialIsOne
  <2>3. Abstract!Lookup("calculator")
    BY <2>2 DEF Abstract!Lookup
  <2> QED
    BY <2>3, OneStep DEF Abstract!Step
<1>2. CASE AskRaw
  BY <1>2, NotSeen DEF AskRaw, Ask, PriceInv
<1>3. CASE call = "raw" /\ (Progress \/ GiveUp)
  <2>1. call' # "price" /\ cache' = cache
    BY <1>3 DEF Progress, ScanChunk, EnsureDecimals, AddSwap, SkipSwap, FinishGap, WriteBack, FinishRaw,
                Return, GiveUp, Forget
  <2> QED
    BY <1>3, <2>1, NotSeen
<1>4. CASE call = "none" /\ (Progress \/ GiveUp)
  BY <1>4 DEF PriceInv, Progress, ScanChunk, EnsureDecimals, AddSwap, SkipSwap, FinishGap, WriteBack,
              FinishRaw, Return, GiveUp
<1>5. CASE call = "price" /\ ScanChunk
  BY <1>5, ScanChunkIsOne, OneStep DEF Abstract!Step
<1>6. CASE call = "price" /\ (EnsureDecimals \/ AddSwap \/ SkipSwap)
  BY <1>6, SwapsNotSeen
<1>7. CASE FinishGap
  BY <1>7, FinishGapIsOne, OneStep DEF Abstract!Step
<1>8. CASE WriteBack
  BY <1>8, WriteBackIsOne, OneStep DEF Abstract!Step
<1>9. CASE call = "price" /\ FinishRaw
  BY <1>9 DEF FinishRaw
<1>10. CASE call = "price" /\ Return
  BY <1>10, ReturnIsOne, OneStep DEF Abstract!Step
<1>11. CASE call = "price" /\ GiveUp
  BY <1>11, GiveUpIsOne, OneStep DEF Abstract!Step
<1>12. CASE UNCHANGED vars
  <2>1. /\ cacheBar' = cacheBar /\ ScanCells' = ScanCells /\ AccCells' = AccCells
        /\ call' = call /\ pc' = pc /\ query' = query /\ todo' = todo /\ cursor' = cursor
        /\ degraded' = degraded
    BY <1>12 DEF vars, cacheBar, ScanCells, AccCells, IsNext, Cells, BlocksOf
  <2>2. /\ pcBar' = pcBar /\ queryBar' = queryBar /\ todoBar' = todoBar /\ cursorBar' = cursorBar
        /\ partBar' = partBar /\ accBar' = accBar /\ degradedBar' = degradedBar
    BY <2>1 DEF pcBar, queryBar, todoBar, cursorBar, partBar, accBar, degradedBar, ForCaller
  <2> QED
    BY <2>1, <2>2 DEF Abstract!vars
<1>13. call \in {"none", "price", "raw"}
  BY DEF PriceInv
<1> QED
  BY <1>1, <1>2, <1>3, <1>4, <1>5, <1>6, <1>7, <1>8, <1>9, <1>10, <1>11, <1>12, <1>13 DEF Next, Progress

LEMMA PriceInitIsOne == Init => Abstract!Init
<1> SUFFICES ASSUME Init PROVE Abstract!Init
  OBVIOUS
<1>1. /\ pcBar = One("idle") /\ queryBar = One(NoQuery) /\ todoBar = One({})
      /\ cursorBar = One(0) /\ partBar = One(EmptyAggregate) /\ accBar = One(EmptyAggregate)
      /\ degradedBar = One(FALSE)
  BY BarsNow DEF Bars, Init
<1>2. cacheBar = {}
  BY DEF cacheBar, Init
<1> QED
  BY <1>1, <1>2, SameOperators DEF Abstract!Init, One

\* The price calculator implements RangeQuery: whatever decimals it cannot read,
\* a gap that lost a swap is a gap RangeQuery degrades, a gap that lost none is
\* one it caches, and no call sees more or less in the cache than RangeQuery
\* would; raw calls are not seen at all.
THEOREM PriceIsRangeQuery == Spec => IsRangeQuery
<1>1. Init => Abstract!Init
  BY PriceInitIsOne
<1>2. PriceInv /\ PriceInv' /\ [Next]_vars => [Abstract!Next]_(Abstract!vars)
  BY PriceStepIsOne
<1> QED
  BY <1>1, <1>2, PriceInvariant, PTL DEF Spec, IsRangeQuery, Abstract!Spec

\* Every cached range holds every swap of its token in its blocks, none twice and
\* nothing else, whatever calls failed, lost swaps or were dropped before.
THEOREM CachedPricesAreExact ==
    Spec => [](\A e \in cache : e.value = Prices(e.key, e.lo .. e.hi))
<1>1. PriceInv => \A e \in cache : e.value = Prices(e.key, e.lo .. e.hi)
  BY DEF PriceInv, CacheInv, AllExact, IsExact
<1> QED
  BY <1>1, PriceInvariant, PTL

\* A price call that did not lose a swap answers with every swap of its window,
\* from the cache or from its scans, each once.
THEOREM PriceAnswerIsExact ==
    Spec => [](call = "price" /\ pc = "done" /\ ~degraded
                 => acc = Prices(query.job, query.lo .. query.hi))
<1>1. PriceInv => (call = "price" /\ pc = "done" /\ ~degraded
                     => acc = Prices(query.job, query.lo .. query.hi))
  <2> SUFFICES ASSUME PriceInv, call = "price", pc = "done", ~degraded
               PROVE  acc = Prices(query.job, query.lo .. query.hi)
    OBVIOUS
  <2>1. acc = Prices(query.job, Through)
    BY Here DEF AccSeen
  <2>2. todo = {}
    BY AtWork DEF PriceCall, DoneInv
  <2>3. Through = query.lo .. query.hi
    BY <2>2 DEF Through, BlocksOf
  <2> QED
    BY <2>1, <2>3
<1> QED
  BY <1>1, PriceInvariant, PTL

-----------------------------------------------------------------------------
(* The decimals that have been read stay *)

\* The tokens of a result have their decimals in decimals_cache.
TokensKnown(result) == \A c \in result.seen : {c.in, c.out} \subseteq known

KnownInv == TokensKnown(part) /\ TokensKnown(acc) /\ \A e \in cache : TokensKnown(e.value)

\* What a swap needs are its own tokens.
LEMMA NeedsAre ==
    ASSUME NEW swap, IsRelevant(swap)
    PROVE  /\ DOMAIN Needs(swap) = 1 .. 2
           /\ ToSet(Needs(swap)) = {swap.in, swap.out}
           /\ \A n \in 1 .. 2 : Needs(swap)[n] \in {swap.in, swap.out}
<1>1. PICK a, b : Needs(swap) = <<a, b>> /\ {a, b} = {swap.in, swap.out}
  <2>1. CASE call = "price"
    BY <2>1 DEF Needs, IsRelevant, Involves
  <2>2. CASE call # "price"
    BY <2>2 DEF Needs
  <2> QED
    BY <2>1, <2>2
<1>2. DOMAIN <<a, b>> = 1 .. 2 /\ <<a, b>>[1] = a /\ <<a, b>>[2] = b
  OBVIOUS
<1>3. ToSet(<<a, b>>) = {a, b}
  BY <1>2 DEF ToSet
<1>4. \A n \in 1 .. 2 : <<a, b>>[n] \in {a, b}
  BY <1>2
<1> QED
  BY <1>1, <1>2, <1>3, <1>4

LEMMA KnownInvStep == KnownInv /\ [Next]_vars => KnownInv'
<1> SUFFICES ASSUME KnownInv, [Next]_vars PROVE KnownInv'
  OBVIOUS
<1>1. CASE known' = known /\ cache' = cache /\ part' = part /\ acc' = acc
  BY <1>1 DEF KnownInv, TokensKnown
<1>2. CASE known' = known /\ cache' = cache /\ part' = part
             /\ \E W \in SUBSET cache : acc' = MergeEntries(W)
  <2>1. PICK W \in SUBSET cache : acc' = MergeEntries(W)
    BY <1>2
  <2>2. \A c \in acc'.seen : \E e \in cache : c \in e.value.seen
    BY <2>1 DEF MergeEntries
  <2> QED
    BY <1>2, <2>2 DEF KnownInv, TokensKnown
<1>3. CASE EnsureDecimals \/ SkipSwap
  <2>1. known \subseteq known' /\ cache' = cache /\ part' = part /\ acc' = acc
    BY <1>3 DEF EnsureDecimals, SkipSwap, CannotRead
  <2> QED
    BY <2>1 DEF KnownInv, TokensKnown
<1>4. CASE AddSwap
  <2>1. PICK i \in DOMAIN logs :
          /\ IsNextSwap(i) /\ known' = known \cup ToSet(Needs(logs[i]))
          /\ part' = Merge(part, [seen |-> {logs[i]}, again |-> {}])
    BY <1>4 DEF AddSwap
  <2>2. cache' = cache /\ acc' = acc
    BY <1>4 DEF AddSwap
  <2>3. ToSet(Needs(logs[i])) = {logs[i].in, logs[i].out}
    BY <2>1, NeedsAre DEF IsNextSwap
  <2>4. part'.seen = part.seen \cup {logs[i]}
    BY <2>1 DEF Merge
  <2>5. known \subseteq known' /\ {logs[i].in, logs[i].out} \subseteq known'
    BY <2>1, <2>3
  <2>6. TokensKnown(part)'
    BY <2>4, <2>5 DEF KnownInv, TokensKnown
  <2>7. TokensKnown(acc)'
    BY <2>2, <2>5 DEF KnownInv, TokensKnown
  <2>8. \A e \in cache' : \A c \in e.value.seen : {c.in, c.out} \subseteq known'
    BY <2>2, <2>5 DEF KnownInv, TokensKnown
  <2> QED
    BY <2>6, <2>7, <2>8 DEF KnownInv, TokensKnown
<1>5. CASE FinishGap
  <2>1. known' = known /\ acc' = Merge(acc, part) /\ part' = EmptyAggregate
    BY <1>5 DEF FinishGap
  <2>2. \A e \in cache' : e \in cache \/ e.value = part
    <3>1. PICK g \in todo :
            cache' = IF lost = {} THEN Insert(cache, query.job, g.lo, g.hi, part) ELSE cache
      BY <1>5 DEF FinishGap
    <3>2. \A e \in Insert(cache, query.job, g.lo, g.hi, part) : e \in cache \/ e.value = part
      BY InsertAdds
    <3> QED
      BY <3>1, <3>2
  <2>3. acc'.seen = acc.seen \cup part.seen /\ part'.seen = {}
    BY <2>1 DEF Merge, EmptyAggregate
  <2> QED
    BY <2>1, <2>2, <2>3 DEF KnownInv, TokensKnown
<1>6. CASE WriteBack
  <2>1. known' = known /\ acc' = acc /\ part' = part
    BY <1>6 DEF WriteBack
  <2>2. \A e \in cache' : e \in cache \/ e.value = acc
    <3>1. cache' = IF degraded THEN cache ELSE Insert(cache, query.job, query.lo, query.hi, acc)
      BY <1>6 DEF WriteBack
    <3>2. \A e \in Insert(cache, query.job, query.lo, query.hi, acc) : e \in cache \/ e.value = acc
      BY InsertAdds
    <3> QED
      BY <3>1, <3>2
  <2> QED
    BY <2>1, <2>2 DEF KnownInv, TokensKnown
<1>7. CASE Forget
  BY <1>7 DEF Forget, KnownInv, TokensKnown, EmptyAggregate
<1>8. CASE AskPrice
  <2>1. PICK token \in Jobs, r \in Ranges :
            \/ PriceMiss(token, r[1], r[2]) \/ PriceHit(token, r[1], r[2])
            \/ PricePartial(token, r[1], r[2])
    BY <1>8 DEF AskPrice
  <2>2. known' = known /\ cache' = cache /\ part' = part
    BY <2>1 DEF PriceMiss, PriceHit, PricePartial, Ask
  <2>3. acc' = acc \/ acc' = MergeEntries(WithinQuery(cache, token, r[1], r[2]))
    BY <2>1 DEF PriceMiss, PriceHit, PricePartial
  <2>4. WithinQuery(cache, token, r[1], r[2]) \in SUBSET cache
    BY DEF WithinQuery
  <2> QED
    BY <1>1, <1>2, <2>2, <2>3, <2>4
<1>9. CASE AskRaw \/ ScanChunk \/ FinishRaw \/ UNCHANGED vars
  <2>1. known' = known /\ cache' = cache /\ part' = part /\ acc' = acc
    BY <1>9 DEF AskRaw, Ask, ScanChunk, FinishRaw, vars
  <2> QED
    BY <1>1, <2>1
<1> QED
  BY <1>3, <1>4, <1>5, <1>6, <1>7, <1>8, <1>9 DEF Next, Progress, Return, GiveUp

\* A swap is only skipped when one of its own two tokens has never been read, so no
\* swap of the same two tokens has been added to anything the calculator still
\* holds: get_or_fetch keeps what it reads, and no call empties decimals_cache.
THEOREM DecimalsStayRead == Spec => NeverLostOnceCounted
<1>1. Init => KnownInv
  BY DEF Init, KnownInv, TokensKnown, EmptyAggregate
<1>2. KnownInv /\ [Next]_vars =>
        [\A s \in lost' \ lost, r \in {part, acc} \cup {e.value : e \in cache} :
            \A c \in r.seen : {c.in, c.out} # {s.in, s.out}]_vars
  <2> SUFFICES ASSUME KnownInv, [Next]_vars, NEW s \in lost' \ lost,
                      NEW r \in {part, acc} \cup {e.value : e \in cache}, NEW c \in r.seen,
                      {c.in, c.out} = {s.in, s.out}
               PROVE  FALSE
    OBVIOUS
  <2>1. SkipSwap
    BY DEF Next, Progress, AskPrice, AskRaw, PriceMiss, PriceHit, PricePartial, Ask, ScanChunk,
           EnsureDecimals, AddSwap, FinishGap, WriteBack, FinishRaw, Return, GiveUp, Forget, vars
  <2>2. PICK i \in DOMAIN logs : IsNextSwap(i) /\ CannotRead(logs[i]) /\ lost' = lost \cup {logs[i]}
    BY <2>1 DEF SkipSwap
  <2>3. s = logs[i]
    BY <2>2
  <2>4. \A n \in DOMAIN Needs(s) : Needs(s)[n] \in {s.in, s.out}
    BY <2>2, <2>3, NeedsAre DEF IsNextSwap
  <2>5. PICK n \in DOMAIN Needs(s) : Needs(s)[n] \notin known
    BY <2>2, <2>3 DEF CannotRead
  <2>6. {c.in, c.out} \subseteq known
    BY DEF KnownInv, TokensKnown
  <2> QED
    BY <2>4, <2>5, <2>6
<1> QED
  BY <1>1, <1>2, KnownInvStep, PTL DEF Spec, NeverLostOnceCounted
==============================================================================
