---------------------------- MODULE Scans_proofs -----------------------------
(* Proofs about the readers that scan a range of blocks in chunks: the event  *)
(* scans and live feeds of src/events, and the combined retrieval, for every  *)
(* chain, every set of logs, every configuration, all calls and all feeds.    *)
EXTENDS LiveFeed, CombinedRetrieval, FiniteSetTheorems, SequenceTheorems, TLAPS

-----------------------------------------------------------------------------
(* Event scans and live feeds: lists of blocks *)

Ascending(list) == \A i, j \in DOMAIN list : i < j => list[i] < list[j]

\* The numbers of S, each once and in order
Ordered(list, S) == list \in Seq(Nat) /\ Ascending(list) /\ ToSet(list) = S

\* The numbers of a finite set in order: all of them, each once, ascending.
LEMMA InOrderEnumerates ==
    ASSUME NEW S \in SUBSET Nat, IsFiniteSet(S)
    PROVE  /\ Cardinality(S) \in Nat /\ InOrder(S) \in [1 .. Cardinality(S) -> S]
           /\ \A i, j \in 1 .. Cardinality(S) : i < j => InOrder(S)[i] < InOrder(S)[j]
           /\ \A x \in S : \E i \in 1 .. Cardinality(S) : InOrder(S)[i] = x
<1> DEFINE upto(x) == {y \in S : y <= x}
           rank == [x \in S |-> Cardinality(upto(x))]
           n == Cardinality(S)
<1>1. n \in Nat
  BY FS_CardinalityType
<1>2. ASSUME NEW x \in S
      PROVE  IsFiniteSet(upto(x)) /\ rank[x] \in 1 .. n
  <2>1. upto(x) \subseteq S /\ x \in upto(x)
    OBVIOUS
  <2>2. IsFiniteSet(upto(x)) /\ Cardinality(upto(x)) <= n
    BY <2>1, FS_Subset
  <2>3. Cardinality(upto(x)) \in Nat /\ Cardinality(upto(x)) # 0
    BY <2>1, <2>2, FS_CardinalityType, FS_EmptySet
  <2> QED
    BY <1>1, <2>2, <2>3
<1>3. ASSUME NEW x \in S, NEW z \in S, x < z
      PROVE  rank[x] < rank[z]
  <2>1. upto(x) \subseteq upto(z) /\ z \in upto(z) /\ z \notin upto(x)
    <3>1. x \in Nat /\ z \in Nat /\ \A y \in S : y \in Nat
      OBVIOUS
    <3>2. \A y \in S : y <= x => y <= z
      BY <1>3, <3>1
    <3>3. z <= z /\ ~(z <= x)
      BY <1>3, <3>1
    <3> QED
      BY <3>2, <3>3
  <2>2. IsFiniteSet(upto(z))
    BY <1>2
  <2>3. Cardinality(upto(x)) <= Cardinality(upto(z)) /\ Cardinality(upto(x)) # Cardinality(upto(z))
    BY <2>1, <2>2, FS_Subset
  <2> QED
    BY <1>2, <2>3
<1> HIDE DEF n
<1>4. rank \in [S -> 1 .. n] /\ \A x, z \in S : rank[x] = rank[z] => x = z
  <2>1. \A x, z \in S : rank[x] \in Int /\ (x < z \/ z < x \/ x = z)
    BY <1>2
  <2>2. rank \in [S -> 1 .. n]
    BY <1>2
  <2> HIDE DEF rank
  <2> QED
    BY <1>3, <2>1, <2>2
<1>5. \A i \in 1 .. n : \E x \in S : rank[x] = i
  <2>1. rank \in Injection(S, 1 .. n)
    BY <1>4 DEF Injection, IsInjective
  <2>2. IsFiniteSet(1 .. n) /\ Cardinality(1 .. n) = n
    BY <1>1, FS_Interval
  <2> HIDE DEF rank
  <2>3. rank \in Surjection(S, 1 .. n)
    BY <2>1, <2>2, FS_Injection DEF n
  <2> QED
    BY <2>3 DEF Surjection
<1>6. \A i \in 1 .. n : InOrder(S)[i] \in S /\ rank[InOrder(S)[i]] = i
  <2> SUFFICES ASSUME NEW i \in 1 .. n
               PROVE  InOrder(S)[i] \in S /\ rank[InOrder(S)[i]] = i
    OBVIOUS
  <2>1. InOrder(S)[i] = CHOOSE x \in S : Cardinality(upto(x)) = i
    BY DEF InOrder, n
  <2>2. \E x \in S : Cardinality(upto(x)) = i
    BY <1>5
  <2> QED
    BY <2>1, <2>2
<1>7. InOrder(S) \in [1 .. n -> S]
  BY <1>6 DEF InOrder, n
<1>8. \A i, j \in 1 .. n : i < j => InOrder(S)[i] < InOrder(S)[j]
  <2> SUFFICES ASSUME NEW i \in 1 .. n, NEW j \in 1 .. n, i < j
               PROVE  InOrder(S)[i] < InOrder(S)[j]
    OBVIOUS
  <2> DEFINE x == InOrder(S)[i]
             z == InOrder(S)[j]
  <2>1. x \in S /\ z \in S /\ rank[x] = i /\ rank[z] = j
    BY <1>6
  <2>2. x \in Nat /\ z \in Nat
    BY <2>1
  <2> HIDE DEF x, z, rank
  <2>3. x # z /\ ~(z < x)
    BY <1>1, <1>3, <2>1
  <2> QED
    BY <2>2, <2>3 DEF x, z
<1>9. \A x \in S : \E i \in 1 .. n : InOrder(S)[i] = x
  <2> HIDE DEF rank
  <2> QED
    BY <1>4, <1>6
<1> QED
  BY <1>1, <1>7, <1>8, <1>9 DEF n

LEMMA InOrderIsOrdered ==
    ASSUME NEW S \in SUBSET Nat, IsFiniteSet(S)
    PROVE  Ordered(InOrder(S), S)
<1>1. /\ Cardinality(S) \in Nat /\ InOrder(S) \in [1 .. Cardinality(S) -> S]
      /\ \A i, j \in 1 .. Cardinality(S) : i < j => InOrder(S)[i] < InOrder(S)[j]
      /\ \A x \in S : \E i \in 1 .. Cardinality(S) : InOrder(S)[i] = x
  BY InOrderEnumerates
<1>2. DOMAIN InOrder(S) = 1 .. Cardinality(S) /\ InOrder(S) \in Seq(Nat)
  <2>1. InOrder(S) \in [1 .. Cardinality(S) -> Nat]
    BY <1>1
  <2> QED
    BY <1>1, <2>1
<1>3. ToSet(InOrder(S)) = S
  BY <1>1, <1>2 DEF ToSet
<1> QED
  BY <1>1, <1>2, <1>3 DEF Ordered, Ascending

\* What comes later lies behind: both lists in a row are ordered.
LEMMA ConcatIsOrdered ==
    ASSUME NEW S, NEW T, NEW a, NEW b, Ordered(a, S), Ordered(b, T),
           \A x \in S, y \in T : x < y
    PROVE  Ordered(a \o b, S \cup T)
<1>1. /\ a \in Seq(Nat) /\ b \in Seq(Nat) /\ Len(a) \in Nat /\ Len(b) \in Nat
      /\ DOMAIN a = 1 .. Len(a) /\ DOMAIN b = 1 .. Len(b)
      /\ S = {a[i] : i \in 1 .. Len(a)} /\ T = {b[i] : i \in 1 .. Len(b)}
      /\ \A i, j \in 1 .. Len(a) : i < j => a[i] < a[j]
      /\ \A i, j \in 1 .. Len(b) : i < j => b[i] < b[j]
  BY DEF Ordered, Ascending, ToSet
<1> DEFINE c == a \o b
<1>2. /\ c \in Seq(Nat) /\ Len(c) = Len(a) + Len(b)
      /\ \A i \in 1 .. Len(a) + Len(b) : c[i] = IF i <= Len(a) THEN a[i] ELSE b[i - Len(a)]
  BY <1>1, ConcatProperties
<1>3. DOMAIN c = 1 .. Len(a) + Len(b)
  BY <1>2
<1> HIDE DEF c
<1>4. \A i \in 1 .. Len(a) + Len(b) :
        \/ i \in 1 .. Len(a) /\ c[i] = a[i] /\ c[i] \in S
        \/ i - Len(a) \in 1 .. Len(b) /\ c[i] = b[i - Len(a)] /\ c[i] \in T
  <2> SUFFICES ASSUME NEW i \in 1 .. Len(a) + Len(b)
               PROVE  \/ i \in 1 .. Len(a) /\ c[i] = a[i] /\ c[i] \in S
                      \/ i - Len(a) \in 1 .. Len(b) /\ c[i] = b[i - Len(a)] /\ c[i] \in T
    OBVIOUS
  <2>1. CASE i <= Len(a)
    <3>1. i \in 1 .. Len(a) /\ c[i] = a[i]
      BY <1>1, <1>2, <2>1
    <3> QED
      BY <1>1, <3>1
  <2>2. CASE i > Len(a)
    <3>1. i - Len(a) \in 1 .. Len(b) /\ ~(i <= Len(a))
      BY <1>1, <2>2
    <3>2. c[i] = b[i - Len(a)]
      BY <1>2, <3>1
    <3> QED
      BY <1>1, <3>1, <3>2
  <2> QED
    BY <1>1, <2>1, <2>2
<1>5. Ascending(c)
  <2> SUFFICES ASSUME NEW i \in 1 .. Len(a) + Len(b), NEW j \in 1 .. Len(a) + Len(b), i < j
               PROVE  c[i] < c[j]
    BY <1>3 DEF Ascending
  <2>1. CASE j \in 1 .. Len(a) /\ c[j] = a[j]
    <3>1. i \in 1 .. Len(a) /\ c[i] = a[i]
      BY <1>1, <1>2, <2>1
    <3> QED
      BY <1>1, <2>1, <3>1
  <2>2. CASE j - Len(a) \in 1 .. Len(b) /\ c[j] = b[j - Len(a)] /\ c[j] \in T
    <3>1. CASE i \in 1 .. Len(a) /\ c[i] = a[i] /\ c[i] \in S
      BY <2>2, <3>1
    <3>2. CASE i - Len(a) \in 1 .. Len(b) /\ c[i] = b[i - Len(a)]
      <4>1. i - Len(a) < j - Len(a)
        BY <1>1
      <4> QED
        BY <1>1, <2>2, <3>2, <4>1
    <3> QED
      BY <1>4, <3>1, <3>2
  <2> QED
    BY <1>4, <2>1, <2>2
<1>6. ToSet(c) = S \cup T
  <2>1. \A i \in 1 .. Len(a) + Len(b) : c[i] \in S \cup T
    BY <1>4
  <2>2. \A i \in 1 .. Len(a) : i \in 1 .. Len(a) + Len(b) /\ c[i] = a[i]
    BY <1>1, <1>2
  <2>3. ASSUME NEW i \in 1 .. Len(b)
        PROVE  i + Len(a) \in 1 .. Len(a) + Len(b) /\ c[i + Len(a)] = b[i]
    <3>1. i + Len(a) \in 1 .. Len(a) + Len(b) /\ ~(i + Len(a) <= Len(a)) /\ (i + Len(a)) - Len(a) = i
      BY <1>1
    <3> QED
      BY <1>2, <3>1
  <2>4. ToSet(c) = {c[i] : i \in 1 .. Len(a) + Len(b)}
    BY <1>3 DEF ToSet
  <2>5. ASSUME NEW x \in S PROVE x \in ToSet(c)
    BY <1>1, <2>2, <2>4
  <2>6. ASSUME NEW x \in T PROVE x \in ToSet(c)
    BY <1>1, <2>3, <2>4
  <2> QED
    BY <2>1, <2>4, <2>5, <2>6
<1> QED
  BY <1>2, <1>5, <1>6 DEF Ordered, c

\* Taking the head over leaves the whole as it was (Stream::next).
LEMMA TakeKeepsTheWhole ==
    ASSUME NEW S, NEW a \in Seq(S), NEW b \in Seq(S), b # <<>>
    PROVE  /\ Head(b) \in S /\ Tail(b) \in Seq(S) /\ Append(a, Head(b)) \in Seq(S)
           /\ Append(a, Head(b)) \o Tail(b) = a \o b
<1>1. /\ Len(a) \in Nat /\ Len(b) \in Nat /\ Len(b) > 0
      /\ Head(b) = b[1] /\ b[1] \in S /\ Tail(b) \in Seq(S) /\ Len(Tail(b)) = Len(b) - 1
      /\ \A i \in 1 .. Len(b) - 1 : Tail(b)[i] = b[i + 1]
  OBVIOUS
<1> DEFINE h == Append(a, Head(b))
           t == Tail(b)
<1>2. /\ h \in Seq(S) /\ Len(h) = Len(a) + 1 /\ h[Len(a) + 1] = b[1]
      /\ \A i \in 1 .. Len(a) : h[i] = a[i]
  BY <1>1
<1>3. t \in Seq(S) /\ Len(t) = Len(b) - 1 /\ \A i \in 1 .. Len(b) - 1 : t[i] = b[i + 1]
  BY <1>1
<1> HIDE DEF h, t
<1>4. /\ h \o t \in Seq(S) /\ Len(h \o t) = Len(h) + Len(t)
      /\ \A i \in 1 .. Len(h) + Len(t) : (h \o t)[i] = IF i <= Len(h) THEN h[i] ELSE t[i - Len(h)]
  BY <1>2, <1>3, ConcatProperties
<1>5. /\ a \o b \in Seq(S) /\ Len(a \o b) = Len(a) + Len(b)
      /\ \A i \in 1 .. Len(a) + Len(b) : (a \o b)[i] = IF i <= Len(a) THEN a[i] ELSE b[i - Len(a)]
  BY ConcatProperties
<1> DEFINE u == h \o t
           v == a \o b
<1>6. Len(u) = Len(a) + Len(b)
  BY <1>1, <1>2, <1>3, <1>4
<1> HIDE DEF u, v
<1>7. ASSUME NEW i \in 1 .. Len(a) + Len(b) PROVE u[i] = v[i]
  <2>1. CASE i <= Len(a)
    BY <1>1, <1>2, <1>3, <1>4, <1>5, <2>1 DEF u, v
  <2>2. CASE i = Len(a) + 1
    <3>1. u[i] = h[Len(a) + 1] /\ v[i] = b[i - Len(a)] /\ i - Len(a) = 1
      BY <1>1, <1>2, <1>3, <1>4, <1>5, <2>2 DEF u, v
    <3> QED
      BY <1>2, <3>1
  <2>3. CASE i > Len(a) + 1
    <3>1. i - Len(h) \in 1 .. Len(b) - 1 /\ (i - Len(h)) + 1 = i - Len(a)
      BY <1>1, <1>2, <2>3
    <3>2. u[i] = t[i - Len(h)] /\ v[i] = b[i - Len(a)]
      BY <1>1, <1>2, <1>3, <1>4, <1>5, <2>3 DEF u, v
    <3> QED
      BY <1>3, <3>1, <3>2
  <2> QED
    BY <1>1, <2>1, <2>2, <2>3
<1>8. u \in Seq(S) /\ v \in Seq(S)
  BY <1>4, <1>5 DEF u, v
<1>9. u = v
  BY <1>1, <1>5, <1>6, <1>7, <1>8, SeqEqual DEF v
<1> QED
  BY <1>1, <1>2, <1>9 DEF u, v, h, t

\* What get_logs answers is the matching blocks of its range, in order.
LEMMA LogsInIsOrdered ==
    ASSUME NEW filter, NEW from \in Nat, NEW to \in Int
    PROVE  Ordered(LogsIn(filter, from, to), {b \in from .. to : b <= head /\ Matches(filter, b)})
<1> DEFINE S == {b \in from .. to : b <= head /\ Matches(filter, b)}
<1>1. S \subseteq from .. to /\ IsFiniteSet(from .. to)
  BY FS_Interval
<1>2. IsFiniteSet(S) /\ S \in SUBSET Nat
  BY <1>1, FS_Subset
<1> QED
  BY <1>2, InOrderIsOrdered DEF LogsIn

LEMMA ConcatConcat ==
    ASSUME NEW a \in Seq(Blocks), NEW b \in Seq(Blocks), NEW c \in Seq(Blocks)
    PROVE  (a \o b) \o c = a \o (b \o c)
  BY ConcatAssociative

LEMMA EmptyIsOrdered == Ordered(<<>>, {})
  BY DEF Ordered, Ascending, ToSet

LEMMA SingleIsOrdered == ASSUME NEW x \in Nat PROVE Ordered(<<x>>, {x})
<1>1. <<x>> \in Seq(Nat) /\ DOMAIN <<x>> = {1} /\ <<x>>[1] = x
  OBVIOUS
<1> QED
  BY <1>1 DEF Ordered, Ascending, ToSet

LEMMA OrderedInSeq ==
    ASSUME NEW list, NEW T, Ordered(list, T), NEW S, T \subseteq S
    PROVE  list \in Seq(S)
<1>1. list \in Seq(Nat) /\ Len(list) \in Nat /\ DOMAIN list = 1 .. Len(list)
      /\ list \in [1 .. Len(list) -> Nat]
  BY DEF Ordered
<1>2. \A i \in 1 .. Len(list) : list[i] \in S
  BY <1>1 DEF Ordered, ToSet
<1>3. list \in [1 .. Len(list) -> S]
  BY <1>1, <1>2
<1> QED
  BY <1>1, <1>3

-----------------------------------------------------------------------------
(* The invariant of a scan *)

\* What a call that is neither rejected nor panics is known to be
WellBegun ==
    /\ call.asked \in Blocks
    /\ ChunkSizeOf(call) \in Nat \ {0}
    /\ Lo \in Blocks /\ Hi \in Blocks

\* The asked blocks up to `upto` are found or lie in a chunk that was skipped
ScannedUpTo(upto) ==
    \A b \in Asked : b <= call.asked /\ b <= upto => b \in ToSet(found) \/ InSkipped(b)

ScanInv ==
    /\ pc = "idle" => found = <<>> /\ skipped = {}
    /\ pc \in {"scanning", "scanned", "answered"} =>
          /\ WellBegun /\ call.asked <= head
          /\ Ordered(found, ToSet(found)) /\ ToSet(found) \subseteq Asked
          /\ TakesChunkSize(call) => skipped = {}
    /\ pc = "scanning" =>
          /\ Lo <= cursor /\ cursor <= Hi
          /\ \A b \in ToSet(found) : b < cursor
          /\ ScannedUpTo(cursor - 1)
    /\ pc \in {"scanned", "answered"} => ScannedUpTo(Hi)

LEMMA BlocksAreNaturals == U64Max \in Nat /\ Blocks \subseteq Nat /\ Blocks = 0 .. U64Max
  BY U64MaxAssumption DEF Blocks

\* What the configuration holds for a chain is a chunk size.
LEMMA OverrideIsNumber == ASSUME NEW chain PROVE Override(chain, "max_block_range") \in Nat
<1> DEFINE own == Config.chain_overrides[chain]["max_block_range"]
           overridden == chain \in DOMAIN Config.chain_overrides /\ own # Unset
<1>1. Override(chain, "max_block_range") =
        IF overridden THEN own ELSE Config["max_block_range"]
  BY DEF Override
<1>2. overridden => own \in Nat
  BY EventScanAssumption
<1>3. Config["max_block_range"] \in Nat
  BY EventScanAssumption
<1> HIDE DEF own, overridden
<1> QED
  BY <1>1, <1>2, <1>3

\* A call keeps its arguments and gains the head it was made at.
LEMMA CallIsKept ==
    ASSUME NEW c \in Calls, NEW h
    PROVE  LET k == MadeAt(c, h)
           IN  /\ k.api = c.api /\ k.chain = c.chain /\ k.chunk_size = c.chunk_size
               /\ k.filter = c.filter /\ k.start = c.start /\ k.end = c.end /\ k.asked = h
<1>1. DOMAIN c = {"api", "chain", "chunk_size", "filter", "start", "end"}
  BY EventScanAssumption
<1> QED
  BY <1>1 DEF MadeAt

\* finite_block_range and the types of the other arguments keep both ends in range.
LEMMA CallIsInRange ==
    ASSUME NEW c \in Calls, ~IsInvalid(c)
    PROVE  StartOf(c.start) \in Blocks /\ EndOf(c.end) \in Blocks /\ ChunkSizeOf(c) \in Nat
<1>1. /\ c.chunk_size \in Nat /\ c.start \in Bounds /\ c.end \in Bounds
      /\ ~TakesRange(c) => c.start.kind # "excluded" /\ c.end.kind # "excluded"
  BY EventScanAssumption
<1>2. ChunkSizeOf(c) \in Nat
  BY <1>1, OverrideIsNumber DEF ChunkSizeOf
<1>3. CASE TakesRange(c)
  BY <1>2, <1>3 DEF IsInvalid, IsFiniteRange
<1>4. CASE ~TakesRange(c)
  BY <1>1, <1>2, <1>4 DEF StartOf, EndOf, Bounds
<1> QED
  BY <1>3, <1>4

LEMMA ScanInitial == Init => ScanTypeOK /\ ScanInv
<1> SUFFICES ASSUME Init PROVE ScanTypeOK /\ ScanInv
  OBVIOUS
<1>1. head \in Blocks /\ 0 \in Blocks
  BY BlocksAreNaturals, EventScanAssumption DEF Init, ScanInit
<1> QED
  BY <1>1 DEF Init, ScanInit, ScanTypeOK, ScanInv

\* A chunk begins at the cursor and ends no later than the range.
LEMMA ChunkIsWithin ==
    ASSUME ScanTypeOK, ScanInv, pc = "scanning"
    PROVE  ToBlock \in Blocks /\ cursor <= ToBlock /\ ToBlock <= Hi
<1>1. cursor \in Nat /\ Hi \in Blocks /\ Hi \in Nat /\ cursor <= Hi /\ ChunkSizeOf(call) \in Nat \ {0}
  BY BlocksAreNaturals DEF ScanTypeOK, ScanInv, WellBegun
<1>2. ToBlock \in Nat /\ cursor <= ToBlock /\ ToBlock <= Hi
  BY <1>1 DEF ToBlock
<1> QED
  BY <1>1, <1>2, BlocksAreNaturals

\* Passing a chunk, read or skipped, keeps the invariant (checked_add, logs.rs:203).
LEMMA PassingAChunk ==
    ASSUME ScanTypeOK, ScanInv, pc = "scanning", Advance(ToBlock), UNCHANGED <<head, call>>,
           Ordered(found', ToSet(found)'), ToSet(found)' \subseteq Asked,
           \A b \in ToSet(found)' : b <= ToBlock,
           \A b \in Asked : b <= call.asked /\ b <= ToBlock => b \in ToSet(found)' \/ InSkipped(b)',
           skipped' \subseteq Blocks \X Blocks,
           TakesChunkSize(call) => skipped' = {}
    PROVE  ScanTypeOK' /\ ScanInv'
<1>1. /\ ToBlock \in Blocks /\ cursor <= ToBlock /\ ToBlock <= Hi
      /\ Lo \in Blocks /\ Hi \in Blocks /\ cursor \in Blocks /\ Lo <= cursor
  BY ChunkIsWithin DEF ScanInv, WellBegun, ScanTypeOK
<1>2. /\ ToBlock \in Nat /\ Lo \in Nat /\ Hi \in Nat /\ cursor \in Nat /\ Hi <= U64Max
      /\ Lo .. Hi \subseteq Blocks
  BY <1>1, BlocksAreNaturals
<1>3. Lo' = Lo /\ Hi' = Hi /\ Asked' = Asked /\ ChunkSizeOf(call)' = ChunkSizeOf(call)
  BY DEF Lo, Hi, Asked
<1>4. Asked \subseteq Lo .. Hi /\ Asked \subseteq Nat
  BY <1>2 DEF Asked
<1>5. found' \in Seq(Blocks)
  BY <1>2, <1>4, OrderedInSeq
<1>6. /\ WellBegun' /\ (call.asked <= head)'
      /\ Ordered(found, ToSet(found))' /\ (ToSet(found) \subseteq Asked)'
      /\ (TakesChunkSize(call) => skipped = {})'
  BY <1>1, <1>3 DEF ScanInv, WellBegun
<1>7. CASE ToBlock = U64Max \/ ToBlock + 1 > Hi
  <2>1. ToBlock = Hi /\ pc' = "scanned" /\ cursor' = cursor
    BY <1>2, <1>1, <1>7 DEF Advance
  <2>2. ScannedUpTo(Hi)'
    BY <1>3, <2>1 DEF ScannedUpTo
  <2>3. ScanTypeOK'
    BY <1>1, <1>5, <2>1 DEF ScanTypeOK
  <2> QED
    BY <1>6, <2>1, <2>2, <2>3 DEF ScanInv
<1>8. CASE ~(ToBlock = U64Max \/ ToBlock + 1 > Hi)
  <2>1. pc' = "scanning" /\ cursor' = ToBlock + 1 /\ cursor' <= Hi /\ cursor' \in Nat /\ Lo <= cursor'
    BY <1>1, <1>2, <1>8 DEF Advance
  <2>2. cursor' \in Blocks
    BY <1>2, <2>1, BlocksAreNaturals
  <2>3. ScannedUpTo(cursor - 1)'
    <3>1. cursor' - 1 = ToBlock
      BY <1>2, <2>1
    <3> QED
      BY <1>3, <3>1 DEF ScannedUpTo
  <2>4. ASSUME NEW b \in ToSet(found)' PROVE b < cursor'
    <3>1. b \in Nat /\ b <= ToBlock
      BY <1>4
    <3> QED
      BY <1>2, <2>1, <3>1
  <2>5. ScanTypeOK'
    BY <1>5, <2>1, <2>2 DEF ScanTypeOK
  <2> QED
    BY <1>3, <1>6, <2>1, <2>3, <2>4, <2>5 DEF ScanInv
<1> QED
  BY <1>7, <1>8

LEMMA ScanStepKeeps ==
    ASSUME ScanTypeOK, ScanInv, ScanStep
    PROVE  ScanTypeOK' /\ ScanInv' /\ head' = head
<1>1. ASSUME NEW c \in Calls, Reject(c) \/ Panic(c) PROVE ScanTypeOK' /\ ScanInv' /\ head' = head
  <2>1. call'.asked = head
    BY <1>1, CallIsKept DEF Reject, Panic, Start
  <2> QED
    BY <1>1, <2>1 DEF Reject, Panic, Start, ScanTypeOK, ScanInv
<1>2. ASSUME NEW c \in Calls, Begin(c) PROVE ScanTypeOK' /\ ScanInv' /\ head' = head
  <2>1. /\ pc = "idle" /\ call' = MadeAt(c, head) /\ UNCHANGED <<head, found, skipped, answer>>
        /\ ~IsInvalid(c) /\ ChunkSizeOf(c) > 0 /\ cursor' = StartOf(c.start)
        /\ pc' = IF StartOf(c.start) <= EndOf(c.end) THEN "scanning" ELSE "scanned"
    BY <1>2 DEF Begin, Start
  <2>2. found' = <<>> /\ skipped' = {}
    BY <2>1 DEF ScanInv
  <2>3. /\ call'.api = c.api /\ call'.chain = c.chain /\ call'.chunk_size = c.chunk_size
        /\ call'.start = c.start /\ call'.end = c.end /\ call'.asked = head
    BY <2>1, CallIsKept
  <2>4. Lo' = StartOf(c.start) /\ Hi' = EndOf(c.end) /\ ChunkSizeOf(call)' = ChunkSizeOf(c)
    BY <2>3 DEF Lo, Hi, StartOf, EndOf, ChunkSizeOf, TakesChunkSize
  <2>5. Lo' \in Blocks /\ Hi' \in Blocks /\ Lo' \in Nat /\ Hi' \in Nat
    BY <2>1, <2>4, CallIsInRange, BlocksAreNaturals
  <2>6. WellBegun' /\ (call.asked <= head)'
    <3>1. head \in Blocks /\ head \in Nat
      BY BlocksAreNaturals DEF ScanTypeOK
    <3>2. ChunkSizeOf(call)' \in Nat \ {0}
      BY <2>1, <2>4, CallIsInRange
    <3> QED
      BY <2>1, <2>3, <2>5, <3>1, <3>2 DEF WellBegun
  <2>7. ToSet(found)' = {} /\ Ordered(found, ToSet(found))'
    <3>1. ToSet(<<>>) = {}
      BY DEF ToSet
    <3> QED
      BY <2>2, <3>1, EmptyIsOrdered
  <2>8. ScanTypeOK'
    BY <2>1, <2>2, <2>3, <2>4, <2>5 DEF ScanTypeOK
  <2>9. CASE StartOf(c.start) <= EndOf(c.end)
    <3>1. \A b \in Asked' : b >= Lo' /\ b \in Nat
      BY <2>5 DEF Asked
    <3>2. ScannedUpTo(cursor - 1)'
      BY <2>1, <2>4, <2>5, <3>1 DEF ScannedUpTo
    <3>3. pc' = "scanning" /\ cursor' = Lo' /\ Lo' <= cursor' /\ cursor' <= Hi'
      BY <2>1, <2>4, <2>5, <2>9
    <3> QED
      BY <2>1, <2>2, <2>6, <2>7, <2>8, <3>2, <3>3 DEF ScanInv
  <2>10. CASE ~(StartOf(c.start) <= EndOf(c.end))
    <3>1. Asked' = {}
      BY <2>4, <2>5, <2>10 DEF Asked
    <3>2. ScannedUpTo(Hi)'
      BY <3>1 DEF ScannedUpTo
    <3> QED
      BY <2>1, <2>2, <2>6, <2>7, <2>8, <2>10, <3>2 DEF ScanInv
  <2> QED
    BY <2>1, <2>9, <2>10
<1>3. ASSUME ReadChunk PROVE ScanTypeOK' /\ ScanInv' /\ head' = head
  <2> DEFINE new == LogsIn(call.filter, cursor, ToBlock)
             fresh == {b \in cursor .. ToBlock : b <= head /\ Matches(call.filter, b)}
  <2>1. /\ pc = "scanning" /\ found' = found \o new /\ Advance(ToBlock)
        /\ UNCHANGED <<head, call, skipped, answer>>
    BY <1>3 DEF ReadChunk
  <2>2. /\ ToBlock \in Blocks /\ cursor <= ToBlock /\ ToBlock <= Hi
        /\ cursor \in Nat /\ ToBlock \in Nat /\ Lo \in Nat /\ Hi \in Nat /\ Lo <= cursor
        /\ head \in Nat /\ call.asked \in Nat /\ call.asked <= head
    BY <2>1, ChunkIsWithin, BlocksAreNaturals DEF ScanInv, WellBegun, ScanTypeOK
  <2>3. Ordered(new, fresh)
    BY <2>2, LogsInIsOrdered
  <2>4. fresh \subseteq Asked /\ \A b \in fresh : b >= cursor /\ b <= ToBlock /\ b \in Nat
    BY <2>2 DEF Asked
  <2>5. /\ Ordered(found, ToSet(found)) /\ ToSet(found) \subseteq Asked
        /\ \A b \in ToSet(found) : b < cursor /\ b \in Nat
        /\ Asked \subseteq Nat /\ ScannedUpTo(cursor - 1)
    BY <2>1, <2>2 DEF ScanInv, Asked
  <2> HIDE DEF new, fresh
  <2>6. \A x \in ToSet(found), y \in fresh : x < y
    BY <2>2, <2>4, <2>5
  <2>7. Ordered(found', ToSet(found) \cup fresh)
    BY <2>1, <2>3, <2>5, <2>6, ConcatIsOrdered
  <2>8. ToSet(found)' = ToSet(found) \cup fresh
    BY <2>7 DEF Ordered
  <2>9. ASSUME NEW b \in Asked, b <= call.asked, b <= ToBlock
        PROVE  b \in ToSet(found)' \/ InSkipped(b)'
    <3>1. b \in Nat /\ Matches(call.filter, b) /\ b <= head
      BY <2>2, <2>5, <2>9 DEF Asked
    <3>2. CASE b < cursor
      <4>1. b <= cursor - 1
        BY <2>2, <3>1, <3>2
      <4> QED
        BY <2>1, <2>5, <2>8, <2>9, <4>1 DEF ScannedUpTo, InSkipped
    <3>3. CASE b >= cursor
      BY <2>2, <2>8, <2>9, <3>1, <3>3 DEF fresh
    <3> QED
      BY <2>2, <3>1, <3>2, <3>3
  <2>10. ASSUME NEW b \in ToSet(found)' PROVE b <= ToBlock
    <3>1. CASE b \in ToSet(found)
      <4>1. b < cursor /\ b \in Nat
        BY <2>5, <3>1
      <4> QED
        BY <2>2, <4>1
    <3>2. CASE b \in fresh
      BY <2>4, <3>2
    <3> QED
      BY <2>8, <3>1, <3>2
  <2>11. skipped' \subseteq Blocks \X Blocks /\ (TakesChunkSize(call) => skipped' = {})
    BY <2>1 DEF ScanTypeOK, ScanInv
  <2>12. Ordered(found', ToSet(found)') /\ ToSet(found)' \subseteq Asked
    BY <2>4, <2>5, <2>7, <2>8
  <2> QED
    BY <2>1, <2>9, <2>10, <2>11, <2>12, PassingAChunk
<1>4. ASSUME SkipChunk PROVE ScanTypeOK' /\ ScanInv' /\ head' = head
  <2>1. /\ pc = "scanning" /\ ~TakesChunkSize(call) /\ Advance(ToBlock)
        /\ skipped' = skipped \cup {<<cursor, ToBlock>>}
        /\ UNCHANGED <<head, call, found, answer>>
    BY <1>4 DEF SkipChunk, AbortsOnError
  <2>2. /\ ToBlock \in Blocks /\ cursor \in Blocks /\ cursor <= ToBlock /\ cursor \in Nat /\ ToBlock \in Nat
    BY <2>1, ChunkIsWithin, BlocksAreNaturals DEF ScanTypeOK
  <2>3. /\ Ordered(found, ToSet(found)) /\ ToSet(found) \subseteq Asked
        /\ \A b \in ToSet(found) : b < cursor
        /\ Asked \subseteq Nat /\ ScannedUpTo(cursor - 1)
    <3>1. Lo \in Nat
      BY <2>1, BlocksAreNaturals DEF ScanInv, WellBegun
    <3> QED
      BY <2>1, <3>1 DEF ScanInv, Asked
  <2>4. ToSet(found)' = ToSet(found)
    BY <2>1
  <2>5. ASSUME NEW b \in Asked, b <= call.asked, b <= ToBlock
        PROVE  b \in ToSet(found)' \/ InSkipped(b)'
    <3>1. b \in Nat
      BY <2>3
    <3>2. CASE b < cursor
      <4>1. b <= cursor - 1
        BY <2>2, <3>1, <3>2
      <4>2. b \in ToSet(found) \/ InSkipped(b)
        BY <2>3, <2>5, <4>1 DEF ScannedUpTo
      <4> QED
        BY <2>1, <2>4, <4>2 DEF InSkipped
    <3>3. CASE b >= cursor
      <4>1. <<cursor, ToBlock>> \in skipped' /\ <<cursor, ToBlock>>[1] <= b /\ b <= <<cursor, ToBlock>>[2]
        BY <2>1, <2>5, <3>3
      <4> QED
        BY <4>1 DEF InSkipped
    <3> QED
      BY <2>2, <3>1, <3>2, <3>3
  <2>6. \A b \in ToSet(found)' : b <= ToBlock
    <3>1. \A b \in ToSet(found) : b \in Nat /\ b < cursor
      BY <2>3
    <3> QED
      BY <2>2, <2>4, <3>1
  <2>7. skipped' \subseteq Blocks \X Blocks
    BY <2>1, <2>2 DEF ScanTypeOK
  <2>8. Ordered(found', ToSet(found)') /\ ToSet(found)' \subseteq Asked
    BY <2>1, <2>3, <2>4
  <2> QED
    BY <2>1, <2>5, <2>6, <2>7, <2>8, PassingAChunk
<1>5. ASSUME AbortScan PROVE ScanTypeOK' /\ ScanInv' /\ head' = head
  BY <1>5 DEF AbortScan, ScanTypeOK, ScanInv
<1>6. ASSUME Deliver \/ CallHandler PROVE ScanTypeOK' /\ ScanInv' /\ head' = head
  <2>1. /\ pc = "scanned" /\ pc' \in {"answered", "failed"}
        /\ UNCHANGED <<head, call, cursor, found, skipped>>
    BY <1>6 DEF Deliver, CallHandler
  <2>2. ScanTypeOK'
    BY <2>1 DEF ScanTypeOK
  <2>3. /\ WellBegun' <=> WellBegun
        /\ Asked' = Asked /\ ToSet(found)' = ToSet(found)
        /\ ScannedUpTo(Hi)' <=> ScannedUpTo(Hi)
    BY <2>1 DEF WellBegun, Lo, Hi, Asked, ScannedUpTo, InSkipped
  <2> QED
    BY <2>1, <2>2, <2>3 DEF ScanInv
<1>7. ASSUME Return PROVE ScanTypeOK' /\ ScanInv' /\ head' = head
  <2>1. cursor' \in Blocks /\ call' = NoCall
    BY <1>7, BlocksAreNaturals DEF Return
  <2> QED
    BY <1>7, <2>1 DEF Return, ScanTypeOK, ScanInv
<1> QED
  BY <1>1, <1>2, <1>3, <1>4, <1>5, <1>6, <1>7 DEF ScanStep

\* The chain may grow: what a call asked for when it was made does not.
LEMMA ScanOutlivesBlocks ==
    ASSUME ScanTypeOK, ScanInv, UNCHANGED scanVars, head' \in Blocks, head' >= head
    PROVE  ScanTypeOK' /\ ScanInv'
<1>1. ScanTypeOK'
  BY DEF ScanTypeOK, scanVars
<1>2. /\ WellBegun' <=> WellBegun
      /\ Asked' = Asked /\ ToSet(found)' = ToSet(found) /\ Lo' = Lo /\ Hi' = Hi
      /\ ScannedUpTo(Hi)' <=> ScannedUpTo(Hi)
      /\ ScannedUpTo(cursor - 1)' <=> ScannedUpTo(cursor - 1)
  BY DEF WellBegun, Lo, Hi, Asked, ScannedUpTo, InSkipped, scanVars
<1>3. WellBegun /\ call.asked <= head => call.asked <= head'
  <2>1. WellBegun => call.asked \in Nat
    BY BlocksAreNaturals DEF WellBegun
  <2>2. head \in Nat /\ head' \in Nat
    BY BlocksAreNaturals DEF ScanTypeOK
  <2> QED
    BY <2>1, <2>2
<1> QED
  BY <1>1, <1>2, <1>3 DEF ScanInv, scanVars

-----------------------------------------------------------------------------
(* The invariant of a feed *)

\* The history a catch-up has read
Past == {b \in Blocks : feed.from_block <= b /\ b <= reads.history /\ Matches(feed.filter, b)}

\* What an open feed has handed out or holds
Reached == {b \in Covers : ~InHandover(b)}

FeedInv ==
    /\ stage = "off" => stream = <<>> /\ got = <<>>
    /\ stage # "off" => feed \in Feeds
    /\ stage = "fetched" =>
          /\ feed.api = "subscribe_logs_with_catchup" /\ got = <<>>
          /\ reads.live = reads.history /\ reads.history <= head
          /\ Ordered(stream, Past)
    /\ stage = "open" =>
          /\ reads.history <= reads.live /\ reads.live <= head
          /\ Ordered(Delivered, Reached)

LEMMA FeedInitial == Init => FeedTypeOK /\ FeedInv
<1> SUFFICES ASSUME Init PROVE FeedTypeOK /\ FeedInv
  OBVIOUS
<1>1. NoReads \in [history : Blocks, live : Blocks]
  BY BlocksAreNaturals DEF NoReads
<1> QED
  BY <1>1 DEF Init, FeedTypeOK, FeedInv

\* Before anything new arrives, an open feed has handed out what it holds.
LEMMA FeedStepKeeps ==
    ASSUME FeedTypeOK, FeedInv, head \in Blocks, FeedStep
    PROVE  FeedTypeOK' /\ FeedInv' /\ UNCHANGED <<head, scanVars>>
<1> USE BlocksAreNaturals
<1>1. ASSUME NEW f \in Feeds, Subscribe(f) PROVE FeedTypeOK' /\ FeedInv' /\ UNCHANGED <<head, scanVars>>
  <2>1. /\ stage = "off" /\ f.api \in {"subscribe_blocks", "subscribe_logs"}
        /\ feed' = f /\ stage' = "open" /\ reads' = [history |-> head, live |-> head]
        /\ UNCHANGED <<head, scanVars, stream, got>> /\ stream = <<>> /\ got = <<>>
    BY <1>1 DEF Subscribe, FeedInv
  <2>2. reads'.history = head /\ reads'.live = head
    BY <2>1
  <2>3. Reached' = {}
    BY <2>1, <2>2 DEF Reached, Covers
  <2>4. Delivered' = <<>>
    BY <2>1, ConcatEmptySeq, EmptySeq DEF Delivered
  <2>5. FeedTypeOK'
    BY <2>1 DEF FeedTypeOK
  <2> QED
    BY <2>1, <2>2, <2>3, <2>4, <2>5, EmptyIsOrdered DEF FeedInv
<1>2. ASSUME NEW f \in Feeds, FetchHistory(f) PROVE FeedTypeOK' /\ FeedInv' /\ UNCHANGED <<head, scanVars>>
  <2>1. /\ stage = "off" /\ f.api = "subscribe_logs_with_catchup"
        /\ feed' = f /\ stage' = "fetched" /\ reads' = [history |-> head, live |-> head]
        /\ stream' = LogsIn(f.filter, f.from_block, head)
        /\ UNCHANGED <<head, scanVars, got>> /\ got = <<>>
    BY <1>2 DEF FetchHistory, FeedInv
  <2>2. reads'.history = head /\ reads'.live = head
    BY <2>1
  <2>3. f.from_block \in Nat /\ head \in Nat /\ f.from_block .. head \subseteq Blocks
    BY LiveFeedAssumption
  <2> DEFINE S == {b \in f.from_block .. head : b <= head /\ Matches(f.filter, b)}
  <2>4. Ordered(stream', S)
    BY <2>1, <2>3, LogsInIsOrdered
  <2>5. Past' = S
    BY <2>1, <2>2, <2>3 DEF Past, Matches
  <2>6. stream' \in Seq(Blocks)
    <3>1. S \subseteq Blocks
      BY <2>3
    <3> HIDE DEF S
    <3> QED
      BY <2>4, <3>1, OrderedInSeq
  <2> HIDE DEF S
  <2>7. FeedTypeOK'
    BY <2>1, <2>6 DEF FeedTypeOK
  <2> QED
    BY <2>1, <2>2, <2>3, <2>4, <2>5, <2>7 DEF FeedInv
<1>3. ASSUME GoLive PROVE FeedTypeOK' /\ FeedInv' /\ UNCHANGED <<head, scanVars>>
  <2>1. /\ stage = "fetched" /\ stage' = "open" /\ reads' = [reads EXCEPT !.live = head]
        /\ UNCHANGED <<head, scanVars, feed, stream, got>>
        /\ feed.api = "subscribe_logs_with_catchup" /\ got = <<>> /\ feed \in Feeds
        /\ reads.history <= head /\ Ordered(stream, Past)
    BY <1>3 DEF GoLive, FeedInv
  <2>2. reads' \in [history : Blocks, live : Blocks] /\ reads'.history = reads.history /\ reads'.live = head
    BY <2>1 DEF FeedTypeOK
  <2>3. Delivered' = stream
    BY <2>1, ConcatEmptySeq DEF Delivered, FeedTypeOK
  <2>4. Reached' = Past
    <3>1. \A b : (Emits(feed, b) # <<>>)' <=> Matches(feed.filter, b)
      BY <2>1 DEF Emits, Matches
    <3>2. feed.from_block \in Nat /\ reads.history \in Nat /\ head \in Nat
      BY <2>1, LiveFeedAssumption DEF FeedTypeOK
    <3>3. \A b \in Blocks : b \in Covers' <=>
             b <= head /\ Matches(feed.filter, b) /\ b >= feed.from_block
      BY <2>1, <2>2, <3>1, <3>2 DEF Covers
    <3>4. \A b \in Blocks : InHandover(b)' <=> reads.history < b /\ b <= head
      BY <2>1, <2>2 DEF InHandover
    <3>5. Reached' \subseteq Blocks /\ \A b \in Blocks : b \in Reached' <=> b \in Covers' /\ ~InHandover(b)'
      BY DEF Reached, Covers
    <3>6. ASSUME NEW b \in Blocks PROVE b \in Reached' <=> b \in Past
      BY <2>1, <3>2, <3>3, <3>4, <3>5 DEF Past
    <3>7. Past \subseteq Blocks
      BY DEF Past
    <3> QED
      BY <3>5, <3>6, <3>7
  <2>5. FeedTypeOK'
    BY <2>1, <2>2 DEF FeedTypeOK
  <2> QED
    BY <2>1, <2>2, <2>3, <2>4, <2>5 DEF FeedInv
<1>4. ASSUME SubscribeFails PROVE FeedTypeOK' /\ FeedInv' /\ UNCHANGED <<head, scanVars>>
  <2>1. NoReads \in [history : Blocks, live : Blocks]
    BY DEF NoReads
  <2> QED
    BY <1>4, <2>1 DEF SubscribeFails, FeedTypeOK, FeedInv
<1>5. ASSUME Take PROVE FeedTypeOK' /\ FeedInv' /\ UNCHANGED <<head, scanVars>>
  <2>1. /\ stage \in {"open", "closed"} /\ stream # <<>>
        /\ got' = Append(got, Head(stream)) /\ stream' = Tail(stream)
        /\ UNCHANGED <<head, scanVars, feed, stage, reads>>
        /\ got \in Seq(Blocks) /\ stream \in Seq(Blocks)
    BY <1>5 DEF Take, FeedTypeOK
  <2>2. got' \in Seq(Blocks) /\ stream' \in Seq(Blocks) /\ Delivered' = Delivered
    <3>1. /\ Tail(stream) \in Seq(Blocks) /\ Append(got, Head(stream)) \in Seq(Blocks)
          /\ Append(got, Head(stream)) \o Tail(stream) = got \o stream
      BY <2>1, TakeKeepsTheWhole
    <3> QED
      BY <2>1, <3>1 DEF Delivered
  <2>3. FeedTypeOK'
    BY <2>1, <2>2 DEF FeedTypeOK
  <2>4. Reached' = Reached
    BY <2>1 DEF Reached, Covers, InHandover, Emits, Matches
  <2> QED
    BY <2>1, <2>2, <2>3, <2>4 DEF FeedInv
<1>6. ASSUME Disconnect PROVE FeedTypeOK' /\ FeedInv' /\ UNCHANGED <<head, scanVars>>
  BY <1>6 DEF Disconnect, FeedTypeOK, FeedInv
<1>7. ASSUME Unsubscribe PROVE FeedTypeOK' /\ FeedInv' /\ UNCHANGED <<head, scanVars>>
  <2>1. NoReads \in [history : Blocks, live : Blocks]
    BY DEF NoReads
  <2> QED
    BY <1>7, <2>1 DEF Unsubscribe, FeedTypeOK, FeedInv
<1> QED
  BY <1>1, <1>2, <1>3, <1>4, <1>5, <1>6, <1>7 DEF FeedStep

\* A new block goes behind everything an open feed holds.
LEMMA NewBlockKeeps ==
    ASSUME FeedTypeOK, FeedInv, head \in Blocks, NewBlock
    PROVE  FeedTypeOK' /\ FeedInv' /\ head' \in Blocks /\ head' >= head /\ UNCHANGED scanVars
<1> USE BlocksAreNaturals
<1>1. /\ head' = head + 1 /\ head' \in Blocks /\ head \in Nat
      /\ stream' = IF stage = "open" THEN stream \o Emits(feed, head + 1) ELSE stream
      /\ UNCHANGED <<scanVars, feed, stage, got, reads>>
  BY DEF NewBlock
<1>2. /\ got \in Seq(Blocks) /\ stream \in Seq(Blocks)
      /\ reads \in [history : Blocks, live : Blocks]
      /\ reads.history \in Nat /\ reads.live \in Nat
  BY DEF FeedTypeOK
<1>3. CASE stage # "open"
  <2>1. stream' = stream
    BY <1>1, <1>3
  <2>2. FeedTypeOK'
    BY <1>1, <2>1 DEF FeedTypeOK
  <2>3. Past' = Past
    BY <1>1 DEF Past, Matches
  <2>4. reads.history <= head => reads.history <= head'
    BY <1>1, <1>2
  <2> QED
    BY <1>1, <1>3, <2>1, <2>2, <2>3, <2>4 DEF FeedInv
<1>4. CASE stage = "open"
  <2> DEFINE more == Emits(feed, head + 1)
             new == IF more # <<>> THEN {head + 1} ELSE {}
  <2>1. /\ feed \in Feeds /\ reads.history <= reads.live /\ reads.live <= head
        /\ Ordered(Delivered, Reached)
    BY <1>4 DEF FeedInv
  <2>2. more \in Seq(Blocks) /\ Ordered(more, new)
    <3>1. CASE feed.api = "subscribe_blocks" \/ Matches(feed.filter, head + 1)
      <4>1. more = <<head + 1>> /\ <<head + 1>> # <<>>
        BY <3>1 DEF Emits
      <4>2. head + 1 \in Blocks /\ head + 1 \in Nat
        BY <1>1
      <4>3. <<head + 1>> \in Seq(Blocks) /\ new = {head + 1}
        BY <4>1, <4>2
      <4> HIDE DEF more, new
      <4> QED
        BY <4>1, <4>2, <4>3, SingleIsOrdered
    <3>2. CASE ~(feed.api = "subscribe_blocks" \/ Matches(feed.filter, head + 1))
      <4>1. more = <<>>
        BY <3>2 DEF Emits
      <4>2. <<>> \in Seq(Blocks) /\ new = {}
        BY <4>1
      <4> HIDE DEF more, new
      <4> QED
        BY <4>1, <4>2, EmptyIsOrdered
    <3> QED
      BY <3>1, <3>2
  <2>3. \A b \in Reached : b \in Nat /\ b <= head
    BY DEF Reached, Covers
  <2>4. new \subseteq {head + 1}
    OBVIOUS
  <2>5. Delivered' = Delivered \o more
    <3>1. Delivered' = got \o (stream \o more)
      BY <1>1, <1>4 DEF Delivered
    <3> HIDE DEF more, new
    <3>2. (got \o stream) \o more = got \o (stream \o more)
      <4>1. got \in Seq(Blocks) /\ stream \in Seq(Blocks) /\ more \in Seq(Blocks)
        BY <1>2, <2>2
      <4> QED
        BY <4>1, ConcatConcat
    <3> QED
      BY <3>1, <3>2 DEF Delivered
  <2>6. Reached' = Reached \cup new
    <3>1. \A b : Emits(feed, b)' = Emits(feed, b)
      BY <1>1 DEF Emits, Matches
    <3>2. \A b \in Blocks : b \in Covers' <=>
             /\ b <= head + 1 /\ Emits(feed, b) # <<>>
             /\ b > reads.live \/ (feed.api = "subscribe_logs_with_catchup" /\ b >= feed.from_block)
      BY <1>1, <3>1 DEF Covers
    <3>3. \A b \in Blocks : b \in Covers <=>
             /\ b <= head /\ Emits(feed, b) # <<>>
             /\ b > reads.live \/ (feed.api = "subscribe_logs_with_catchup" /\ b >= feed.from_block)
      BY DEF Covers
    <3>4. \A b : InHandover(b)' <=> InHandover(b)
      BY <1>1 DEF InHandover
    <3>5. /\ Reached' \subseteq Blocks /\ Reached \subseteq Blocks
          /\ \A b \in Blocks : b \in Reached' <=> b \in Covers' /\ ~InHandover(b)
          /\ \A b \in Blocks : b \in Reached <=> b \in Covers /\ ~InHandover(b)
      BY <3>4 DEF Reached, Covers
    <3>6. ASSUME NEW b \in Blocks PROVE b \in Reached' <=> b \in Reached \cup new
      <4>1. CASE b = head + 1
        <5>1. b > reads.live /\ ~InHandover(b) /\ ~(b <= head) /\ b <= head + 1
          BY <1>1, <1>2, <2>1, <4>1 DEF InHandover
        <5>2. b \in Reached' <=> Emits(feed, b) # <<>>
          BY <3>2, <3>5, <5>1
        <5>3. b \notin Reached
          BY <3>3, <3>5, <5>1
        <5> QED
          BY <4>1, <5>2, <5>3
      <4>2. CASE b # head + 1
        <5>1. b <= head + 1 <=> b <= head
          BY <1>1, <4>2
        <5>2. b \in Reached' <=> b \in Reached
          BY <3>2, <3>3, <3>5, <5>1
        <5> QED
          BY <2>4, <4>2, <5>2
      <4> QED
        BY <4>1, <4>2
    <3>7. new \subseteq Blocks
      BY <1>1
    <3> QED
      BY <3>5, <3>6, <3>7
  <2>7. stream' \in Seq(Blocks)
    BY <1>1, <1>2, <1>4, <2>2, ConcatProperties
  <2>8. FeedTypeOK'
    BY <1>1, <2>7 DEF FeedTypeOK
  <2> HIDE DEF more, new
  <2>9. \A x \in Reached, y \in new : x < y
    <3>1. \A y \in new : y = head + 1
      BY <2>4
    <3> QED
      BY <1>1, <2>3, <3>1
  <2>10. Ordered(Delivered', Reached')
    BY <2>1, <2>2, <2>5, <2>6, <2>9, ConcatIsOrdered
  <2>11. reads.live <= head'
    BY <1>1, <1>2, <2>1
  <2> QED
    BY <1>1, <1>4, <2>1, <2>8, <2>10, <2>11 DEF FeedInv
<1> QED
  BY <1>1, <1>3, <1>4

-----------------------------------------------------------------------------
(* Theorems *)

Inv == ScanTypeOK /\ FeedTypeOK /\ ScanInv /\ FeedInv

\* The inductive invariant: where a scan is in its range and what it has passed,
\* and what a subscription holds of the history and of the live blocks, hold
\* whatever the scans, the feed and the chain do meanwhile.
THEOREM LiveFeedInvariant == Spec => []Inv
<1>1. Init => Inv
  BY ScanInitial, FeedInitial DEF Inv
<1>2. Inv /\ [Next]_vars => Inv'
  <2> SUFFICES ASSUME Inv, [Next]_vars PROVE Inv'
    OBVIOUS
  <2>1. ScanTypeOK /\ FeedTypeOK /\ ScanInv /\ FeedInv /\ head \in Blocks
    BY DEF Inv, ScanTypeOK
  <2>2. CASE ScanStep /\ UNCHANGED feedVars
    <3>1. ScanTypeOK' /\ ScanInv' /\ head' = head
      BY <2>1, <2>2, ScanStepKeeps
    <3>2. FeedTypeOK'
      BY <2>1, <2>2 DEF FeedTypeOK, feedVars
    <3>3. Past' = Past /\ Reached' = Reached /\ Delivered' = Delivered
      BY <2>2, <3>1 DEF Past, Reached, Covers, InHandover, Delivered, Emits, Matches, feedVars
    <3>4. FeedInv'
      BY <2>1, <2>2, <3>1, <3>3 DEF FeedInv, feedVars
    <3> QED
      BY <3>1, <3>2, <3>4 DEF Inv
  <2>3. CASE FeedStep
    <3>1. FeedTypeOK' /\ FeedInv' /\ UNCHANGED <<head, scanVars>>
      BY <2>1, <2>3, FeedStepKeeps
    <3>2. head' \in Blocks /\ head' >= head
      BY <2>1, <3>1, BlocksAreNaturals
    <3> QED
      BY <2>1, <3>1, <3>2, ScanOutlivesBlocks DEF Inv
  <2>4. CASE NewBlock
    <3>1. FeedTypeOK' /\ FeedInv' /\ head' \in Blocks /\ head' >= head /\ UNCHANGED scanVars
      BY <2>1, <2>4, NewBlockKeeps
    <3> QED
      BY <2>1, <3>1, ScanOutlivesBlocks DEF Inv
  <2>5. CASE UNCHANGED vars
    <3>1. UNCHANGED scanVars /\ UNCHANGED feedVars /\ head' = head
      BY <2>5 DEF vars, scanVars, feedVars
    <3>2. head' \in Blocks /\ head' >= head
      BY <2>1, <3>1, BlocksAreNaturals
    <3>3. FeedTypeOK'
      BY <2>1, <3>1 DEF FeedTypeOK, feedVars
    <3>4. Past' = Past /\ Reached' = Reached /\ Delivered' = Delivered
      BY <3>1 DEF Past, Reached, Covers, InHandover, Delivered, Emits, Matches, feedVars
    <3>5. FeedInv'
      BY <2>1, <3>1, <3>4 DEF FeedInv, feedVars
    <3> QED
      BY <2>1, <3>1, <3>2, <3>3, <3>5, ScanOutlivesBlocks DEF Inv
  <2> QED
    BY <2>2, <2>3, <2>4, <2>5 DEF Next
<1> QED
  BY <1>1, <1>2, PTL DEF Spec

\* The scanner's and the feed's variables have their types: the cursor is a
\* block number even when the range ends at the last one (checked_add).
THEOREM LiveFeedTypes == Spec => [](ScanTypeOK /\ FeedTypeOK)
<1>1. Inv => ScanTypeOK /\ FeedTypeOK
  BY DEF Inv
<1> QED
  BY <1>1, LiveFeedInvariant, PTL

\* However scan_raw cuts the range and whichever chunks fail, a scan's logs are
\* in order and once, and only a failed chunk makes one missing.
THEOREM ScansMissOnlyFailedChunks == Spec => []OnlyFailedChunksAreMissing
<1>1. Inv => OnlyFailedChunksAreMissing
  <2> SUFFICES ASSUME Inv, pc \in {"scanned", "answered"}
               PROVE  /\ \A i, j \in DOMAIN found : i < j => found[i] < found[j]
                      /\ ToSet(found) \subseteq Asked
                      /\ \A b \in Asked : b <= call.asked => b \in ToSet(found) \/ InSkipped(b)
                      /\ TakesChunkSize(call) => skipped = {}
    BY DEF OnlyFailedChunksAreMissing
  <2>1. /\ Ordered(found, ToSet(found)) /\ ToSet(found) \subseteq Asked
        /\ TakesChunkSize(call) => skipped = {}
        /\ WellBegun /\ ScannedUpTo(Hi)
    BY DEF Inv, ScanInv
  <2>2. \A b \in Asked : b <= Hi
    <3>1. Lo \in Nat /\ Hi \in Nat
      BY <2>1, BlocksAreNaturals DEF WellBegun
    <3> QED
      BY <3>1 DEF Asked
  <2>3. \A i, j \in DOMAIN found : i < j => found[i] < found[j]
    BY <2>1 DEF Ordered, Ascending
  <2> QED
    BY <2>1, <2>2, <2>3 DEF ScannedUpTo
<1> QED
  BY <1>1, LiveFeedInvariant, PTL

\* The consumer of an open subscription gets every block in order and once but
\* those of the handover (subscribe_logs_with_catchup's two RPCs), wherever
\* from_block lies and however long the history waits to be taken.
THEOREM FeedsLoseOnlyTheHandover == Spec => []OnlyTheHandoverIsLost
<1>1. Inv => OnlyTheHandoverIsLost
  <2> SUFFICES ASSUME Inv, stage = "open"
               PROVE  /\ \A i, j \in DOMAIN Delivered : i < j => Delivered[i] < Delivered[j]
                      /\ ToSet(Delivered) = {b \in Covers : ~InHandover(b)}
    BY DEF OnlyTheHandoverIsLost
  <2>1. Ordered(Delivered, Reached)
    BY DEF Inv, FeedInv
  <2> QED
    BY <2>1 DEF Ordered, Ascending, Reached
<1> QED
  BY <1>1, LiveFeedInvariant, PTL

-----------------------------------------------------------------------------
(* Amounts and tokens *)

\* The lemmas on sums are those the gas results use; their module is about the
\* range cache, whose keys and jobs do not come into them.
Sums == INSTANCE BlockRangeCache_proofs WITH Keys <- {}, Jobs <- {}

\* A set is finite there when it is here.
LEMMA FiniteThere == \A S : Sums!IsFiniteSet(S) <=> IsFiniteSet(S)
  BY DEF Sums!IsFiniteSet, IsFiniteSet

\* The amount of each log
Values == [b \in Blocks |-> LogOf[b].value]

\* SaturatingAdd keeps a sum cut at the largest amount
Cut(n) == IF n < AmountMax THEN n ELSE AmountMax

AreLogs(S) == S \in SUBSET Blocks /\ \A b \in S : LogOf[b] # NoLog

LEMMA LogsSumUp ==
    ASSUME NEW S, AreLogs(S)
    PROVE  IsFiniteSet(S) /\ (\A b \in S : Values[b] \in Nat) /\ Sums!SumOf(Values, S) \in Nat
<1>1. IsFiniteSet(Blocks)
  <2>1. 0 \in Int /\ U64Max \in Int
    BY U64MaxAssumption
  <2> QED
    BY <2>1, FS_Interval DEF Blocks
<1>2. IsFiniteSet(S)
  BY <1>1, FS_Subset DEF AreLogs
<1>3. ASSUME NEW b \in S PROVE Values[b] \in Nat
  <2>1. b \in Blocks /\ LogOf[b].value \in 0 .. AmountMax
    BY EventScanAssumption DEF AreLogs
  <2> QED
    BY <2>1 DEF Values
<1>4. Sums!SumOf(Values, S) \in Nat
  BY <1>2, <1>3, FiniteThere, Sums!SumOfPart, U64MaxAssumption
<1> QED
  BY <1>2, <1>3, <1>4

\* The total of the property is the sum, cut at the largest amount.
LEMMA TotalIs ==
    ASSUME NEW S, AreLogs(S)
    PROVE  Total(S) = Cut(Sums!SumOf(Values, S))
<1> DEFINE pick(s) == CHOOSE x \in s : TRUE
           IsFold(g) == g = [s \in SUBSET S |-> IF s = {} THEN 0
                                                ELSE LogOf[pick(s)].value + g[s \ {pick(s)}]]
           n == Sums!SumOf(Values, S)
<1>1. MapThenSumSet(LAMBDA b : LogOf[b].value, S) = (CHOOSE g : IsFold(g))[S]
  BY Zenon DEF MapThenSumSet, MapThenFoldSet
<1>2. ASSUME NEW g PROVE IsFold(g) <=> Sums!IsSumOf(g, Values, S)
  <2>1. \A s \in SUBSET S : s # {} => pick(s) \in Blocks
    BY DEF AreLogs
  <2>2. \A s \in SUBSET S : s # {} => Values[pick(s)] = LogOf[pick(s)].value
    BY <2>1 DEF Values
  <2> HIDE DEF pick
  <2>3. [s \in SUBSET S |-> IF s = {} THEN 0 ELSE LogOf[pick(s)].value + g[s \ {pick(s)}]]
          = [s \in SUBSET S |-> IF s = {} THEN 0 ELSE Values[pick(s)] + g[s \ {pick(s)}]]
    BY <2>2
  <2> QED
    BY <2>3 DEF Sums!IsSumOf, pick
<1> HIDE DEF IsFold
<1>3. (CHOOSE g : IsFold(g)) = (CHOOSE g : Sums!IsSumOf(g, Values, S))
  BY <1>2
<1>4. Total(S) = Min({AmountMax, n})
  BY <1>1, <1>3 DEF Total, Sums!SumOf, Sums!SumIn
<1>5. n \in Nat /\ AmountMax \in Nat
  BY LogsSumUp, EventScanAssumption
<1> HIDE DEF n
<1>6. Min({AmountMax, n}) \in {AmountMax, n} /\ \A y \in {AmountMax, n} : Min({AmountMax, n}) <= y
  <2>1. \E x \in {AmountMax, n} : \A y \in {AmountMax, n} : x <= y
    <3>1. CASE n < AmountMax
      BY <1>5, <3>1
    <3>2. CASE ~(n < AmountMax)
      BY <1>5, <3>2
    <3> QED
      BY <3>1, <3>2
  <2> QED
    BY <2>1 DEF Min
<1>7. Min({AmountMax, n}) = Cut(n)
  BY <1>5, <1>6 DEF Cut
<1> QED
  BY <1>4, <1>7 DEF n

\* Fewer logs have no greater total.
LEMMA TotalGrows ==
    ASSUME NEW S, AreLogs(S), NEW s \in SUBSET S
    PROVE  Total(s) <= Total(S)
<1>1. AreLogs(s)
  BY DEF AreLogs
<1>2. /\ Sums!SumOf(Values, s) \in Nat /\ Sums!SumOf(Values, S) \in Nat
      /\ Sums!SumOf(Values, s) <= Sums!SumOf(Values, S)
  BY <1>1, LogsSumUp, FiniteThere, Sums!SumGrows, U64MaxAssumption
<1>3. AmountMax \in Nat
  BY EventScanAssumption
<1>4. Cut(Sums!SumOf(Values, s)) <= Cut(Sums!SumOf(Values, S))
  BY <1>2, <1>3 DEF Cut
<1> QED
  BY <1>1, <1>4, TotalIs

\* The loop of calculate_transfer_amount_between_blocks adds up what decodes of a
\* list of logs, each once.
LEMMA AmountIsTotal ==
    ASSUME NEW list \in Seq(Nat), Ascending(list), AreLogs(ToSet(list))
    PROVE  AmountOf(list) = Total({b \in ToSet(list) : Decodes(b)})
<1> DEFINE len == Len(list)
           D(n) == {b \in ToSet(list) : Decodes(b) /\ \E i \in 1 .. n : list[i] = b}
           f == [n \in 0 .. len |-> Cut(Sums!SumOf(Values, D(n)))]
           rhs(g, n) == IF n = 0 THEN 0
                        ELSE IF Decodes(list[n]) THEN SaturatingAdd(g[n - 1], LogOf[list[n]].value)
                        ELSE g[n - 1]
           IsLoop(g) == g = [n \in 0 .. len |-> rhs(g, n)]
           sum == CHOOSE g : IsLoop(g)
           Bad == {n \in 0 .. len : sum[n] # f[n]}
<1>1. /\ len \in Nat /\ DOMAIN list = 1 .. len /\ AmountMax \in Nat
      /\ ToSet(list) = {list[i] : i \in 1 .. len}
      /\ \A i, j \in 1 .. len : i < j => list[i] < list[j]
      /\ \A i \in 1 .. len : list[i] \in Nat
  BY EventScanAssumption DEF Ascending, ToSet
<1>2. \A n : AreLogs(D(n))
  BY DEF AreLogs
<1> HIDE DEF len
<1>3. ASSUME NEW n \in 0 .. len PROVE f[n] = rhs(f, n)
  <2>1. CASE n = 0
    <3>1. D(0) = {}
      OBVIOUS
    <3>2. Sums!SumOf(Values, {}) = 0
      BY Sums!SumOfNothing, U64MaxAssumption
    <3>3. f[0] = Cut(0)
      <4> HIDE DEF D
      <4>1. 0 \in 0 .. len
        BY <1>1
      <4>2. f[0] = Cut(Sums!SumOf(Values, D(0)))
        BY <4>1
      <4> QED
        BY <3>1, <3>2, <4>2
    <3>4. Cut(0) = 0
      BY <1>1 DEF Cut
    <3> QED
      BY <2>1, <3>3, <3>4
  <2>2. CASE n # 0
    <3> DEFINE b == list[n]
               a == Sums!SumOf(Values, D(n - 1))
               v == LogOf[b].value
    <3>1. n \in 1 .. len /\ n - 1 \in 0 .. len /\ b \in ToSet(list)
      BY <1>1, <2>2
    <3>2. f[n] = Cut(Sums!SumOf(Values, D(n))) /\ f[n - 1] = Cut(a) /\ a \in Nat
      <4>1. a \in Nat
        BY <1>2, LogsSumUp
      <4> HIDE DEF D
      <4> QED
        BY <3>1, <4>1
    <3>3. b \in Blocks /\ v \in 0 .. AmountMax /\ Values[b] = v
      <4>1. b \in Blocks /\ v \in 0 .. AmountMax
        BY <3>1, EventScanAssumption DEF AreLogs
      <4> QED
        BY <4>1 DEF Values
    <3>4. b \notin D(n - 1)
      <4>1. \A i \in 1 .. n - 1 : list[i] < b /\ list[i] \in Nat /\ b \in Nat
        BY <1>1, <3>1
      <4>2. \A i \in 1 .. n - 1 : list[i] # b
        BY <4>1
      <4> QED
        BY <4>2
    <3>5. \A c : (\E i \in 1 .. n : list[i] = c) <=> c = b \/ \E i \in 1 .. n - 1 : list[i] = c
      <4>1. n \in Nat /\ 1 <= n
        BY <1>1, <3>1
      <4>2. \A i : i \in 1 .. n <=> i = n \/ i \in 1 .. n - 1
        BY <4>1
      <4> QED
        BY <4>2, Zenon
    <3>6. CASE Decodes(b)
      <4>1. D(n) = D(n - 1) \cup {b}
        BY <3>1, <3>5, <3>6
      <4>2. b \in D(n) /\ D(n) \ {b} = D(n - 1)
        BY <3>4, <4>1
      <4>3. Sums!SumOf(Values, D(n)) = v + a
        <5>1. IsFiniteSet(D(n)) /\ \A x \in D(n) : Values[x] \in Nat
          BY <1>2, LogsSumUp
        <5> HIDE DEF D, a, v, b
        <5>2. Sums!SumOf(Values, D(n)) = Values[b] + Sums!SumOf(Values, D(n) \ {b})
          BY <4>2, <5>1, FiniteThere, Sums!SumAdds, U64MaxAssumption
        <5> QED
          BY <3>3, <4>2, <5>2 DEF a
      <4>4. Cut(v + a) = SaturatingAdd(Cut(a), v)
        <5> HIDE DEF a, v
        <5> QED
          BY <1>1, <3>2, <3>3 DEF Cut, SaturatingAdd
      <4> HIDE DEF f, D, a, v, b
      <4> QED
        BY <2>2, <3>2, <3>6, <4>3, <4>4 DEF b, v
    <3>7. CASE ~Decodes(b)
      <4>1. D(n) = D(n - 1)
        BY <3>5, <3>7
      <4> HIDE DEF D
      <4>2. f[n] = f[n - 1]
        BY <3>2, <4>1
      <4> HIDE DEF f
      <4> QED
        BY <2>2, <3>7, <4>2
    <3> QED
      BY <3>6, <3>7
  <2> QED
    BY <2>1, <2>2
<1>4. IsLoop(f)
  <2>1. f = [n \in 0 .. len |-> f[n]]
    OBVIOUS
  <2> HIDE DEF f, rhs
  <2> QED
    BY <1>3, <2>1
<1> HIDE DEF IsLoop, f
<1>5. IsLoop(sum)
  BY <1>4
<1> HIDE DEF sum
<1>6. \A n \in 0 .. len : sum[n] = rhs(sum, n)
  BY <1>5 DEF IsLoop
<1>7. Bad = {}
  <2> SUFFICES ASSUME Bad # {} PROVE FALSE
    OBVIOUS
  <2>1. Bad \in SUBSET Nat
    BY <1>1
  <2> HIDE DEF Bad
  <2>2. PICK m \in Bad : \A k \in Bad : m <= k
    BY <2>1, Sums!SetMin, U64MaxAssumption
  <2>3. m \in 0 .. len /\ sum[m] # f[m]
    BY <2>2 DEF Bad
  <2>4. rhs(sum, m) # rhs(f, m)
    BY <1>3, <1>6, <2>3
  <2>5. m # 0 /\ sum[m - 1] # f[m - 1]
    BY <2>4
  <2>6. m - 1 \in 0 .. len /\ m - 1 \in Nat /\ m - 1 < m
    BY <1>1, <2>1, <2>2, <2>3, <2>5
  <2> QED
    BY <2>2, <2>5, <2>6 DEF Bad
<1>8. AmountOf(list) = sum[len]
  BY Zenon DEF AmountOf, sum, IsLoop, len
<1>9. sum[len] = Cut(Sums!SumOf(Values, D(len)))
  <2>1. len \in 0 .. len
    BY <1>1
  <2>2. sum[len] = f[len]
    BY <1>7, <2>1
  <2> HIDE DEF D
  <2> QED
    BY <2>1, <2>2 DEF f
<1>10. D(len) = {b \in ToSet(list) : Decodes(b)}
  BY <1>1
<1> QED
  BY <1>2, <1>8, <1>9, <1>10, TotalIs

\* What a call has found is on the chain, and its answer was made of that
AnswerInv ==
    /\ pc \in {"scanning", "scanned", "answered"} =>
          /\ \A b \in ToSet(found) : b <= head
          /\ call.api = "transferred_tokens" => call.filter.to # Unset
    /\ pc = "answered" => answer = Answer(call, found)

LEMMA AnswerStep ==
    ASSUME Inv, AnswerInv, [Next]_vars
    PROVE  AnswerInv'
<1>1. CASE UNCHANGED scanVars /\ head' \in Blocks /\ head' >= head
  <2>1. ASSUME pc \in {"scanning", "scanned", "answered"}, NEW b \in ToSet(found)
        PROVE  b <= head'
    <3>1. b <= head /\ b \in Nat /\ head \in Nat /\ head' \in Nat
      <4>1. WellBegun /\ ToSet(found) \subseteq Asked
        BY <2>1 DEF Inv, ScanInv
      <4>2. Lo \in Nat /\ Hi \in Nat /\ head \in Nat
        BY <4>1, BlocksAreNaturals DEF WellBegun, Inv, ScanTypeOK
      <4> QED
        BY <1>1, <2>1, <4>1, <4>2, BlocksAreNaturals DEF AnswerInv, Asked
    <3> QED
      BY <1>1, <3>1
  <2>2. Answer(call, found)' = Answer(call, found)
    BY <1>1 DEF scanVars, Answer, AmountOf, TokensOf
  <2> QED
    BY <1>1, <2>1, <2>2 DEF AnswerInv, scanVars
<1>2. CASE ScanStep
  <2>1. ASSUME NEW c \in Calls, Reject(c) \/ Panic(c) PROVE AnswerInv'
    BY <2>1 DEF Reject, Panic, AnswerInv
  <2>2. ASSUME NEW c \in Calls, Begin(c) PROVE AnswerInv'
    <3>1. /\ found' = <<>> /\ pc' \in {"scanning", "scanned"}
          /\ call'.api = c.api /\ call'.filter = c.filter
      BY <2>2, CallIsKept DEF Begin, Start, Inv, ScanInv
    <3>2. ToSet(found)' = {}
      BY <3>1 DEF ToSet
    <3>3. c.api = "transferred_tokens" => c.filter.to # Unset
      BY EventScanAssumption
    <3> QED
      BY <3>1, <3>2, <3>3 DEF AnswerInv
  <2>3. CASE ReadChunk
    <3> DEFINE new == LogsIn(call.filter, cursor, ToBlock)
               fresh == {b \in cursor .. ToBlock : b <= head /\ Matches(call.filter, b)}
    <3>1. /\ pc = "scanning" /\ found' = found \o new /\ pc' \in {"scanning", "scanned"}
          /\ UNCHANGED <<head, call>>
      BY <2>3 DEF ReadChunk, Advance
    <3>2. cursor \in Nat /\ ToBlock \in Int
      BY <3>1, ChunkIsWithin, BlocksAreNaturals DEF Inv, ScanTypeOK
    <3>3. Ordered(new, fresh)
      BY <3>2, LogsInIsOrdered
    <3>4. new \in Seq(Nat) /\ found \in Seq(Nat) /\ ToSet(new) = fresh
      BY <3>1, <3>3 DEF Ordered, Inv, ScanInv
    <3> HIDE DEF new
    <3>5. ToSet(found') = ToSet(found) \cup fresh
      <4>1. /\ Len(found) \in Nat /\ Len(new) \in Nat
            /\ DOMAIN found = 1 .. Len(found) /\ DOMAIN new = 1 .. Len(new)
            /\ Len(found') = Len(found) + Len(new) /\ DOMAIN found' = 1 .. Len(found')
            /\ \A i \in 1 .. Len(found) + Len(new) :
                  found'[i] = IF i <= Len(found) THEN found[i] ELSE new[i - Len(found)]
        BY <3>1, <3>4
      <4>2. \A i \in 1 .. Len(found) : i \in DOMAIN found' /\ found'[i] = found[i]
        BY <4>1
      <4>3. \A i \in 1 .. Len(new) :
               i + Len(found) \in DOMAIN found' /\ found'[i + Len(found)] = new[i]
        <5> SUFFICES ASSUME NEW i \in 1 .. Len(new)
                     PROVE  /\ i + Len(found) \in DOMAIN found'
                            /\ found'[i + Len(found)] = new[i]
          OBVIOUS
        <5>1. /\ i + Len(found) \in 1 .. Len(found) + Len(new)
              /\ ~(i + Len(found) <= Len(found)) /\ (i + Len(found)) - Len(found) = i
          BY <4>1
        <5> QED
          BY <4>1, <5>1
      <4>4. \A i \in DOMAIN found' : found'[i] \in ToSet(found) \cup ToSet(new)
        <5> SUFFICES ASSUME NEW i \in 1 .. Len(found) + Len(new)
                     PROVE  found'[i] \in ToSet(found) \cup ToSet(new)
          BY <4>1
        <5>1. CASE i <= Len(found)
          BY <4>1, <5>1 DEF ToSet
        <5>2. CASE ~(i <= Len(found))
          <6>1. i - Len(found) \in 1 .. Len(new)
            BY <4>1, <5>2
          <6> QED
            BY <4>1, <5>2, <6>1 DEF ToSet
        <5> QED
          BY <5>1, <5>2
      <4>5. \A b \in ToSet(found) : b \in ToSet(found')
        BY <4>1, <4>2 DEF ToSet
      <4>6. \A b \in ToSet(new) : b \in ToSet(found')
        BY <4>1, <4>3 DEF ToSet
      <4>7. \A b \in ToSet(found') : b \in ToSet(found) \cup ToSet(new)
        BY <4>4 DEF ToSet
      <4> QED
        BY <3>4, <4>5, <4>6, <4>7
    <3>6. \A b \in ToSet(found') : b <= head'
      BY <3>1, <3>5 DEF AnswerInv
    <3> QED
      BY <3>1, <3>6 DEF AnswerInv
  <2>4. CASE SkipChunk
    BY <2>4 DEF SkipChunk, Advance, AnswerInv
  <2>5. CASE AbortScan \/ Return
    BY <2>5 DEF AbortScan, Return, AnswerInv
  <2>6. CASE Deliver \/ CallHandler
    <3>1. /\ pc = "scanned" /\ pc' \in {"answered", "failed"}
          /\ UNCHANGED <<head, call, found>> /\ answer' = Answer(call, found)
      BY <2>6 DEF Deliver, CallHandler, HasHandler, Answer
    <3>2. Answer(call, found)' = Answer(call, found)
      BY <3>1 DEF Answer, AmountOf, TokensOf
    <3> QED
      BY <3>1, <3>2 DEF AnswerInv
  <2> QED
    BY <1>2, <2>1, <2>2, <2>3, <2>4, <2>5, <2>6 DEF ScanStep
<1>3. head \in Blocks /\ head \in Nat /\ FeedTypeOK /\ FeedInv
  BY BlocksAreNaturals DEF Inv, ScanTypeOK
<1>4. CASE FeedStep
  <2>1. UNCHANGED <<head, scanVars>>
    BY <1>3, <1>4, FeedStepKeeps DEF Inv
  <2> QED
    BY <1>1, <1>3, <2>1
<1>5. CASE NewBlock
  <2>1. head' \in Blocks /\ head' >= head /\ UNCHANGED scanVars
    BY <1>3, <1>5, NewBlockKeeps
  <2> QED
    BY <1>1, <2>1
<1>6. CASE UNCHANGED vars
  <2>1. UNCHANGED <<head, scanVars>>
    BY <1>6 DEF vars, scanVars
  <2> QED
    BY <1>1, <1>3, <2>1
<1> QED
  BY <1>2, <1>4, <1>5, <1>6 DEF Next

\* The answers of the two calculators follow from what was found.
LEMMA AnswerFollows ==
    ASSUME Inv, AnswerInv
    PROVE  AnswerMatchesChain
<1> DEFINE settled == {b \in Transfers : b <= call.asked}
           tokens(S) == {LogOf[b].token : b \in S}
           sound == {b \in ToSet(found) : Decodes(b)}
<1> SUFFICES ASSUME pc = "answered"
             PROVE  /\ call.api = "transfer_amount" =>
                          /\ answer <= Total(Transfers)
                          /\ skipped = {} => answer >= Total(settled)
                    /\ call.api = "transferred_tokens" =>
                          /\ answer \subseteq tokens(Transfers)
                          /\ skipped = {} => tokens(settled) \subseteq answer
  BY DEF AnswerMatchesChain
<1>1. /\ Ordered(found, ToSet(found)) /\ ToSet(found) \subseteq Asked
      /\ WellBegun /\ ScannedUpTo(Hi) /\ answer = Answer(call, found)
      /\ \A b \in ToSet(found) : b <= head
      /\ call.api = "transferred_tokens" => call.filter.to # Unset
  BY DEF Inv, ScanInv, AnswerInv
<1>2. Asked \subseteq Blocks /\ \A b \in Asked : LogOf[b] # NoLog /\ b <= Hi
  <2>1. Lo \in Nat /\ Hi \in Nat /\ Lo .. Hi \subseteq Blocks
    BY <1>1, BlocksAreNaturals DEF WellBegun
  <2> QED
    BY <2>1 DEF Asked, Matches
<1>3. AreLogs(Transfers) /\ AreLogs(ToSet(found))
  BY <1>1, <1>2 DEF Transfers, AreLogs
<1>4. sound \subseteq Transfers
  BY <1>1 DEF Transfers
<1>5. skipped = {} => settled \subseteq sound
  <2> SUFFICES ASSUME skipped = {}, NEW b \in settled PROVE b \in sound
    OBVIOUS
  <2>1. b \in Asked /\ b <= call.asked /\ Decodes(b) /\ b <= Hi
    BY <1>2 DEF Transfers
  <2>2. ~InSkipped(b)
    BY DEF InSkipped
  <2> QED
    BY <1>1, <2>1, <2>2 DEF ScannedUpTo
<1>6. ASSUME call.api = "transfer_amount"
      PROVE  /\ answer <= Total(Transfers)
             /\ skipped = {} => answer >= Total(settled)
  <2>1. answer = Total(sound)
    <3>1. answer = AmountOf(found)
      BY <1>1, <1>6 DEF Answer
    <3>2. found \in Seq(Nat) /\ Ascending(found)
      BY <1>1 DEF Ordered
    <3> QED
      BY <1>3, <3>1, <3>2, AmountIsTotal
  <2>2. answer <= Total(Transfers)
    BY <1>3, <1>4, <2>1, TotalGrows
  <2>3. ASSUME skipped = {} PROVE answer >= Total(settled)
    <3>1. AreLogs(sound) /\ settled \in SUBSET sound /\ AreLogs(settled)
      BY <1>3, <1>5, <2>3 DEF AreLogs
    <3>2. Total(settled) <= Total(sound)
      BY <3>1, TotalGrows
    <3>3. Total(settled) \in Nat /\ Total(sound) \in Nat
      <4>1. AmountMax \in Nat
        BY EventScanAssumption
      <4> QED
        BY <3>1, <4>1, TotalIs, LogsSumUp DEF Cut
    <3> HIDE DEF settled, sound
    <3> QED
      BY <2>1, <3>2, <3>3
  <2> QED
    BY <2>2, <2>3
<1>7. ASSUME call.api = "transferred_tokens"
      PROVE  /\ answer \subseteq tokens(Transfers)
             /\ skipped = {} => tokens(settled) \subseteq answer
  <2>1. answer = {LogOf[b].token :
                    b \in {c \in ToSet(found) : Decodes(c) /\ LogOf[c].to = call.filter.to}}
    BY <1>1, <1>7 DEF Answer, TokensOf
  <2>2. \A b \in Asked : LogOf[b].to = call.filter.to
    BY <1>1, <1>7 DEF Asked, Matches
  <2>3. answer = tokens(sound)
    BY <1>1, <2>1, <2>2
  <2> QED
    BY <1>4, <1>5, <2>3
<1> QED
  BY <1>6, <1>7

\* A total transfer amount and a set of tokens hold nothing the chain does not,
\* and when no chunk failed everything the chain had when the call was made: for
\* every chain, all amounts and their saturation, and every cut into chunks.
THEOREM AnswersMatchTheChain == Spec => []AnswerMatchesChain
<1>1. Init => AnswerInv
  BY DEF Init, ScanInit, AnswerInv
<1>2. Inv /\ AnswerInv /\ [Next]_vars => AnswerInv'
  BY AnswerStep
<1>3. Inv /\ AnswerInv => AnswerMatchesChain
  BY AnswerFollows
<1> QED
  BY <1>1, <1>2, <1>3, LiveFeedInvariant, PTL DEF Spec

-----------------------------------------------------------------------------
(* The combined retrieval: lists *)

\* A list of all of S and nothing else, each once
Lists(list, S) ==
    /\ list \in Seq(S)
    /\ \A x \in S : \E i \in 1 .. Len(list) : list[i] = x
    /\ \A i, j \in 1 .. Len(list) : list[i] = list[j] => i = j

LEMMA InOrderLists ==
    ASSUME NEW S \in SUBSET Nat, IsFiniteSet(S)
    PROVE  Lists(InOrder(S), S)
<1>1. /\ Cardinality(S) \in Nat /\ InOrder(S) \in [1 .. Cardinality(S) -> S]
      /\ \A i, j \in 1 .. Cardinality(S) : i < j => InOrder(S)[i] < InOrder(S)[j]
      /\ \A x \in S : \E i \in 1 .. Cardinality(S) : InOrder(S)[i] = x
  BY InOrderEnumerates
<1>2. InOrder(S) \in Seq(S) /\ Len(InOrder(S)) = Cardinality(S)
  BY <1>1
<1>3. \A i, j \in 1 .. Cardinality(S) : InOrder(S)[i] = InOrder(S)[j] => i = j
  <2> SUFFICES ASSUME NEW i \in 1 .. Cardinality(S), NEW j \in 1 .. Cardinality(S),
                      InOrder(S)[i] = InOrder(S)[j], i # j
               PROVE  FALSE
    OBVIOUS
  <2>1. InOrder(S)[i] \in S /\ Cardinality(S) \in Nat
    BY <1>1
  <2>2. InOrder(S)[i] \in Nat
    BY <2>1
  <2>3. i < j \/ j < i
    BY <2>1
  <2> QED
    BY <1>1, <2>2, <2>3
<1> QED
  BY <1>1, <1>2, <1>3 DEF Lists

\* What filtering leaves of a list, and that it leaves no more (Iterator::filter).
LEMMA OnlyLists ==
    ASSUME NEW S, NEW list, Lists(list, S), NEW T
    PROVE  Lists(Only(list, T), S \cap T)
<1> DEFINE K == {i \in DOMAIN list : list[i] \in T}
           at == InOrder(K)
<1>1. /\ list \in Seq(S) /\ Len(list) \in Nat /\ DOMAIN list = 1 .. Len(list)
      /\ \A i \in 1 .. Len(list) : list[i] \in S
  BY DEF Lists
<1>2. K \in SUBSET Nat /\ IsFiniteSet(K)
  <2>1. K \subseteq 1 .. Len(list) /\ IsFiniteSet(1 .. Len(list))
    BY <1>1, FS_Interval
  <2> QED
    BY <1>1, <2>1, FS_Subset
<1>3. Lists(at, K)
  BY <1>2, InOrderLists
<1>4. at \in Seq(K) /\ Len(at) \in Nat /\ DOMAIN at = 1 .. Len(at) /\ \A i \in 1 .. Len(at) : at[i] \in K
  <2>1. at \in Seq(K)
    BY <1>3 DEF Lists
  <2> HIDE DEF at, K
  <2> QED
    BY <2>1
<1>5. Only(list, T) = [i \in 1 .. Len(at) |-> list[at[i]]]
  BY <1>4 DEF Only
<1> HIDE DEF at
<1>6. \A i \in 1 .. Len(at) : list[at[i]] \in S \cap T
  BY <1>1, <1>4
<1>7. Only(list, T) \in Seq(S \cap T) /\ Len(Only(list, T)) = Len(at)
  BY <1>4, <1>5, <1>6
<1>8. \A x \in S \cap T : \E i \in 1 .. Len(at) : Only(list, T)[i] = x
  <2> SUFFICES ASSUME NEW x \in S \cap T PROVE \E i \in 1 .. Len(at) : Only(list, T)[i] = x
    OBVIOUS
  <2>1. PICK k \in 1 .. Len(list) : list[k] = x
    BY DEF Lists
  <2>2. k \in K
    BY <1>1, <2>1
  <2>3. PICK i \in 1 .. Len(at) : at[i] = k
    BY <1>3, <2>2 DEF Lists
  <2> QED
    BY <1>5, <2>1, <2>3
<1>9. \A i, j \in 1 .. Len(at) : Only(list, T)[i] = Only(list, T)[j] => i = j
  <2> SUFFICES ASSUME NEW i \in 1 .. Len(at), NEW j \in 1 .. Len(at),
                      Only(list, T)[i] = Only(list, T)[j]
               PROVE  i = j
    OBVIOUS
  <2>1. list[at[i]] = list[at[j]] /\ at[i] \in 1 .. Len(list) /\ at[j] \in 1 .. Len(list)
    BY <1>1, <1>4, <1>5
  <2>2. at[i] = at[j]
    BY <2>1 DEF Lists
  <2> QED
    BY <1>3, <2>2 DEF Lists
<1> QED
  BY <1>7, <1>8, <1>9 DEF Lists

\* Two lists of different things, one behind the other.
LEMMA ConcatLists ==
    ASSUME NEW S, NEW T, S \cap T = {}, NEW a, NEW b, Lists(a, S), Lists(b, T)
    PROVE  Lists(a \o b, S \cup T)
<1>1. /\ a \in Seq(S) /\ b \in Seq(T) /\ Len(a) \in Nat /\ Len(b) \in Nat
      /\ \A i \in 1 .. Len(a) : a[i] \in S
      /\ \A i \in 1 .. Len(b) : b[i] \in T
  BY DEF Lists
<1>2. a \in Seq(S \cup T) /\ b \in Seq(S \cup T)
  BY <1>1
<1>3. /\ a \o b \in Seq(S \cup T) /\ Len(a \o b) = Len(a) + Len(b)
      /\ \A i \in 1 .. Len(a) + Len(b) : (a \o b)[i] = IF i <= Len(a) THEN a[i] ELSE b[i - Len(a)]
  BY <1>1, <1>2, ConcatProperties
<1> DEFINE c == a \o b
<1> HIDE DEF c
<1>4. \A i \in 1 .. Len(a) : i \in 1 .. Len(a) + Len(b) /\ c[i] = a[i]
  BY <1>1, <1>3 DEF c
<1>5. \A i \in 1 .. Len(b) : Len(a) + i \in 1 .. Len(a) + Len(b) /\ c[Len(a) + i] = b[i]
  BY <1>1, <1>3 DEF c
<1>6. \A x \in S \cup T : \E i \in 1 .. Len(a) + Len(b) : c[i] = x
  <2>1. ASSUME NEW x \in S PROVE \E i \in 1 .. Len(a) + Len(b) : c[i] = x
    <3>1. PICK i \in 1 .. Len(a) : a[i] = x
      BY DEF Lists
    <3> QED
      BY <1>4, <3>1
  <2>2. ASSUME NEW x \in T PROVE \E i \in 1 .. Len(a) + Len(b) : c[i] = x
    <3>1. PICK i \in 1 .. Len(b) : b[i] = x
      BY DEF Lists
    <3> QED
      BY <1>5, <3>1
  <2> QED
    BY <2>1, <2>2
<1>7. \A i, j \in 1 .. Len(a) + Len(b) : c[i] = c[j] => i = j
  <2> SUFFICES ASSUME NEW i \in 1 .. Len(a) + Len(b), NEW j \in 1 .. Len(a) + Len(b), c[i] = c[j]
               PROVE  i = j
    OBVIOUS
  <2>1. \A k \in 1 .. Len(a) + Len(b) :
          \/ k \in 1 .. Len(a) /\ c[k] = a[k] /\ c[k] \in S
          \/ k - Len(a) \in 1 .. Len(b) /\ c[k] = b[k - Len(a)] /\ c[k] \in T
    BY <1>1, <1>3 DEF c
  <2>2. CASE i \in 1 .. Len(a) /\ j \in 1 .. Len(a) /\ c[i] = a[i] /\ c[j] = a[j]
    BY <2>2 DEF Lists
  <2>3. CASE /\ i - Len(a) \in 1 .. Len(b) /\ j - Len(a) \in 1 .. Len(b)
             /\ c[i] = b[i - Len(a)] /\ c[j] = b[j - Len(a)]
    <3>1. i - Len(a) = j - Len(a)
      BY <2>3 DEF Lists
    <3> QED
      BY <1>1, <3>1
  <2> QED
    BY <2>1, <2>2, <2>3
<1> QED
  BY <1>3, <1>6, <1>7 DEF Lists, c

LEMMA AppendLists ==
    ASSUME NEW S, NEW list, Lists(list, S), NEW x, x \notin S
    PROVE  Lists(Append(list, x), S \cup {x})
<1>1. /\ list \in Seq(S) /\ Len(list) \in Nat /\ \A i \in 1 .. Len(list) : list[i] \in S
  BY DEF Lists
<1>2. list \in Seq(S \cup {x})
  BY <1>1
<1>3. /\ Append(list, x) \in Seq(S \cup {x}) /\ Len(Append(list, x)) = Len(list) + 1
      /\ \A i \in 1 .. Len(list) : Append(list, x)[i] = list[i]
      /\ Append(list, x)[Len(list) + 1] = x
  BY <1>2
<1> DEFINE c == Append(list, x)
<1> HIDE DEF c
<1>4. \A y \in S \cup {x} : \E i \in 1 .. Len(list) + 1 : c[i] = y
  <2> SUFFICES ASSUME NEW y \in S \cup {x} PROVE \E i \in 1 .. Len(list) + 1 : c[i] = y
    OBVIOUS
  <2>1. CASE y = x
    BY <1>1, <1>3, <2>1 DEF c
  <2>2. CASE y \in S
    <3>1. PICK i \in 1 .. Len(list) : list[i] = y
      BY <2>2 DEF Lists
    <3> QED
      BY <1>1, <1>3, <3>1 DEF c
  <2> QED
    BY <2>1, <2>2
<1>5. \A i, j \in 1 .. Len(list) + 1 : c[i] = c[j] => i = j
  <2>1. \A k \in 1 .. Len(list) + 1 :
          \/ k \in 1 .. Len(list) /\ c[k] = list[k] /\ c[k] # x
          \/ k = Len(list) + 1 /\ c[k] = x
    BY <1>1, <1>3 DEF c
  <2> QED
    BY <2>1 DEF Lists
<1> QED
  BY <1>3, <1>4, <1>5 DEF Lists, c

LEMMA TailLists ==
    ASSUME NEW S, NEW list, Lists(list, S), list # <<>>
    PROVE  Head(list) \in S /\ Lists(Tail(list), S \ {Head(list)})
<1>1. /\ list \in Seq(S) /\ Len(list) \in Nat /\ Len(list) > 0
      /\ \A i \in 1 .. Len(list) : list[i] \in S
  BY DEF Lists
<1>2. /\ Head(list) = list[1] /\ Tail(list) \in Seq(S) /\ Len(Tail(list)) = Len(list) - 1
      /\ \A i \in 1 .. Len(list) - 1 : Tail(list)[i] = list[i + 1]
  BY <1>1
<1> DEFINE c == Tail(list)
           x == Head(list)
<1> HIDE DEF c, x
<1>3. \A i \in 1 .. Len(list) - 1 : c[i] \in S \ {x}
  <2> SUFFICES ASSUME NEW i \in 1 .. Len(list) - 1 PROVE c[i] \in S \ {x}
    OBVIOUS
  <2>1. c[i] = list[i + 1] /\ x = list[1] /\ i + 1 \in 1 .. Len(list) /\ 1 \in 1 .. Len(list) /\ i + 1 # 1
    BY <1>1, <1>2 DEF c, x
  <2>2. list[i + 1] # list[1]
    BY <2>1 DEF Lists
  <2> QED
    BY <1>1, <2>1, <2>2
<1>4. c \in Seq(S \ {x})
  <2>1. Len(c) = Len(list) - 1 /\ c \in Seq(S)
    BY <1>2 DEF c
  <2>2. c \in [1 .. Len(list) - 1 -> S \ {x}] /\ Len(list) - 1 \in Nat
    BY <1>1, <1>3, <2>1
  <2> QED
    BY <2>2
<1>5. \A y \in S \ {x} : \E i \in 1 .. Len(list) - 1 : c[i] = y
  <2> SUFFICES ASSUME NEW y \in S \ {x} PROVE \E i \in 1 .. Len(list) - 1 : c[i] = y
    OBVIOUS
  <2>1. PICK k \in 1 .. Len(list) : list[k] = y
    BY DEF Lists
  <2>2. k - 1 \in 1 .. Len(list) - 1 /\ (k - 1) + 1 = k
    BY <1>1, <1>2, <2>1 DEF x
  <2> QED
    BY <1>2, <2>1, <2>2 DEF c
<1>6. \A i, j \in 1 .. Len(list) - 1 : c[i] = c[j] => i = j
  <2> SUFFICES ASSUME NEW i \in 1 .. Len(list) - 1, NEW j \in 1 .. Len(list) - 1, c[i] = c[j]
               PROVE  i = j
    OBVIOUS
  <2>1. list[i + 1] = list[j + 1] /\ i + 1 \in 1 .. Len(list) /\ j + 1 \in 1 .. Len(list)
    BY <1>1, <1>2 DEF c
  <2>2. i + 1 = j + 1
    BY <2>1 DEF Lists
  <2> QED
    BY <2>2
<1>7. x \in S /\ Len(c) = Len(list) - 1
  BY <1>1, <1>2 DEF c, x
<1> QED
  BY <1>4, <1>5, <1>6, <1>7 DEF Lists, c, x

LEMMA EmptyLists == Lists(<<>>, {})
  BY DEF Lists

-----------------------------------------------------------------------------
(* The invariant *)

Attempt == [pass : {"batch", "serial"}, stage : {"transaction", "receipt"}]

\* The logs a call is asked for, those up to the current_block, and what a call begins with
Wanted == {l \in Readable : BlockOf[l] \in query[1] .. query[2]}
Passed == {l \in Logs : BlockOf[l] \in query[1] .. current_block - 1}
Fresh == result = NoResult /\ queue = <<>> /\ tries = 0

\* The chunks before current_block have been read, each log once
ReadInv ==
    phase = "scanning" => /\ query[1] <= current_block /\ current_block <= query[2]
                          /\ Lists(entries, Passed) /\ Fresh

\* The batch asks for the logs of the range that decode, and for no other
BatchInv ==
    phase = "batch" => /\ Lists(entries, Wanted) /\ Fresh
                       /\ \A l \in Wanted : tx[l] # "none"
                       /\ \A l \in Logs : InFlight(l) => l \in Wanted

\* The fallback has one lookup to retry, and the others are over
SerialInv ==
    phase = "serial" => /\ queue # <<>> /\ tries \in 1 .. MaxAttempts
                        /\ tx[Retried] # "none"
                        /\ \A l \in Logs : InFlight(l) => l = Retried

\* Each log that was asked for is in one of three places
AccountInv ==
    phase \in {"serial", "done"} =>
        \E D, F, Q : /\ Lists(result.data, D) /\ Lists(LogsOf(result.failures), F)
                     /\ Lists(LogsOf(queue), Q)
                     /\ D \cap F = {} /\ D \cap Q = {} /\ F \cap Q = {}
                     /\ D \cup F \cup Q = Wanted

\* A history: the n errors of the batch, then those of at least k serial attempts
History(attempts, k) ==
    \E n \in DOMAIN attempts :
        /\ \A i \in DOMAIN attempts : attempts[i].pass = IF i <= n THEN "batch" ELSE "serial"
        /\ Len(attempts) - n >= k

\* Each failure tells what was tried so far
HistoryInv ==
    /\ \A i \in 1 .. Len(result.failures) : History(result.failures[i].attempts, MaxAttempts)
    /\ phase = "serial" => /\ History(queue[1].attempts, tries - 1)
                           /\ \A i \in 2 .. Len(queue) : History(queue[i].attempts, 0)

RetrievalInv == TypeOK /\ ReadInv /\ BatchInv /\ SerialInv /\ AccountInv /\ CountersAgree /\ HistoryInv

-----------------------------------------------------------------------------
(* Failures *)

LEMMA LogsOfAppend ==
    ASSUME NEW fs \in Seq(Failures), NEW f
    PROVE  LogsOf(Append(fs, f)) = Append(LogsOf(fs), f.log)
  BY DEF LogsOf

LEMMA LogsOfTail ==
    ASSUME NEW fs \in Seq(Failures), fs # <<>>
    PROVE  /\ LogsOf(fs) # <<>> /\ Head(LogsOf(fs)) = Head(fs).log
           /\ LogsOf(Tail(fs)) = Tail(LogsOf(fs))
  BY DEF LogsOf

\* The errors a lookup that is over and has failed records (enrich_one).
LEMMA AttemptsType ==
    ASSUME TypeOK, phase \in {"batch", "serial"}, NEW l \in Logs,
           ~InFlight(l), ~Succeeds(l), tx[l] # "none"
    PROVE  /\ Attempts(l) \in Seq(Attempt) /\ Len(Attempts(l)) \in Nat \ {0}
           /\ \A i \in 1 .. Len(Attempts(l)) : Attempts(l)[i].pass = phase
<1>1. CASE tx[l] = "found"
  BY <1>1 DEF Attempts, Attempt
<1>2. CASE tx[l] # "found"
  <2>1. tx[l] \in {"missing", "failed", "unreadable"}
    BY <1>2 DEF TypeOK, InFlight
  <2>2. Errors[tx[l]] \in Nat \ {0}
    BY <2>1 DEF Errors
  <2>3. Attempts(l) = [i \in 1 .. Errors[tx[l]] |-> [pass |-> phase, stage |-> "transaction"]]
    BY <1>2 DEF Attempts
  <2> DEFINE k == Errors[tx[l]]
             a == Attempts(l)
             e == [pass |-> phase, stage |-> "transaction"]
  <2>4. a \in Seq(Attempt) /\ Len(a) = k
    <3>1. e \in Attempt /\ a = [i \in 1 .. k |-> e] /\ k \in Nat
      BY <2>2, <2>3 DEF Attempt
    <3> HIDE DEF e, a, k
    <3> QED
      BY <3>1
  <2> QED
    BY <2>2, <2>3, <2>4
<1> QED
  BY <1>1, <1>2

\* What the batch leaves: the lookups that failed, in the order of the logs
\* (enrich_batch).
LEMMA BatchLeaves ==
    ASSUME RetrievalInv, BatchEnded
    PROVE  /\ Lists(BatchSuccesses, {l \in Wanted : Succeeds(l)})
           /\ BatchSuccesses \in Seq(Readable)
           /\ BatchFailures \in Seq(Failures)
           /\ Lists(LogsOf(BatchFailures), {l \in Wanted : ~Succeeds(l)})
           /\ \A i \in 1 .. Len(BatchFailures) :
                /\ BatchFailures[i].log \in Logs /\ tx[BatchFailures[i].log] # "none"
                /\ History(BatchFailures[i].attempts, 0)
<1> DEFINE S == {l \in Logs : Succeeds(l)}
           N == {l \in Logs : ~Succeeds(l)}
           failed == Only(entries, N)
<1>1. /\ TypeOK /\ phase = "batch" /\ Lists(entries, Wanted) /\ Wanted \subseteq Readable
      /\ Wanted \subseteq Logs /\ \A l \in Wanted : tx[l] # "none" /\ ~InFlight(l)
  <2>1. TypeOK /\ phase = "batch" /\ Lists(entries, Wanted) /\ \A l \in Wanted : tx[l] # "none"
    BY DEF RetrievalInv, BatchInv, BatchEnded
  <2>2. Wanted \subseteq ToSet(entries)
    BY <2>1 DEF Lists, ToSet
  <2> QED
    BY <2>1, <2>2, CombinedRetrievalAssumption DEF BatchEnded, Wanted
<1>2. Lists(BatchSuccesses, Wanted \cap S) /\ Lists(failed, Wanted \cap N)
  BY <1>1, OnlyLists DEF BatchSuccesses
<1>3. Wanted \cap S = {l \in Wanted : Succeeds(l)} /\ Wanted \cap N = {l \in Wanted : ~Succeeds(l)}
  BY <1>1
<1>4. BatchSuccesses \in Seq(Readable)
  <2>1. BatchSuccesses \in Seq(Wanted \cap S) /\ Wanted \cap S \subseteq Readable
    BY <1>1, <1>2 DEF Lists
  <2> HIDE DEF S
  <2> QED
    BY <2>1
<1>5. /\ failed \in Seq(Readable) /\ Len(failed) \in Nat /\ DOMAIN failed = 1 .. Len(failed)
      /\ \A i \in 1 .. Len(failed) : failed[i] \in Wanted \cap N
  <2>1. failed \in Seq(Wanted \cap N) /\ Wanted \cap N \subseteq Readable
    BY <1>1, <1>2 DEF Lists
  <2> HIDE DEF N, failed
  <2> QED
    BY <2>1
<1>6. BatchFailures = [i \in 1 .. Len(failed) |-> [log |-> failed[i], attempts |-> Attempts(failed[i])]]
  BY <1>5 DEF BatchFailures
<1>7. \A i \in 1 .. Len(failed) :
        /\ failed[i] \in Logs /\ failed[i] \in Readable /\ tx[failed[i]] # "none"
        /\ Attempts(failed[i]) \in Seq(Attempt) /\ Len(Attempts(failed[i])) \in Nat \ {0}
        /\ \A k \in 1 .. Len(Attempts(failed[i])) : Attempts(failed[i])[k].pass = "batch"
  BY <1>1, <1>5, AttemptsType
<1> HIDE DEF failed
<1>8. BatchFailures \in Seq(Failures)
  BY <1>5, <1>6, <1>7 DEF Failures, Attempt
<1>9. Len(BatchFailures) = Len(failed) /\ LogsOf(BatchFailures) = failed
  BY <1>5, <1>6 DEF LogsOf
<1>10. ASSUME NEW i \in 1 .. Len(failed)
       PROVE  History(BatchFailures[i].attempts, 0)
  <2> DEFINE a == BatchFailures[i].attempts
  <2>1. a = Attempts(failed[i])
    BY <1>6
  <2> HIDE DEF a
  <2>2. a \in Seq(Attempt) /\ Len(a) \in Nat \ {0} /\ \A k \in 1 .. Len(a) : a[k].pass = "batch"
    BY <1>7, <2>1
  <2>3. DOMAIN a = 1 .. Len(a) /\ Len(a) \in DOMAIN a /\ Len(a) - Len(a) >= 0
    BY <2>2
  <2> QED
    <3>1. \A k \in 1 .. Len(a) : a[k].pass = IF k <= Len(a) THEN "batch" ELSE "serial"
      BY <2>2
    <3> QED
      BY <2>3, <3>1 DEF a, History
<1> QED
  BY <1>2, <1>3, <1>4, <1>6, <1>7, <1>8, <1>9, <1>10

-----------------------------------------------------------------------------
(* The steps *)

LEMMA NoResultType ==
    NoResult \in [data : Seq(Readable), failures : Seq(Failures), skipped : Nat,
                  attempts : Nat, recovered : Nat]
  BY DEF NoResult

\* A call that has nothing yet has counted nothing.
LEMMA NothingCounted ==
    /\ NoResult.skipped = 0 /\ NoResult.recovered = 0 /\ NoResult.attempts = 0
    /\ Len(NoResult.failures) = 0 /\ Len(NoResult.data) = 0
    /\ 0 \in 0 + MaxAttempts * 0 .. MaxAttempts * (0 + 0)
    /\ Lists(NoResult.data, {}) /\ Lists(LogsOf(NoResult.failures), {}) /\ Lists(LogsOf(<<>>), {})
<1>1. NoResult.data = <<>> /\ LogsOf(NoResult.failures) = <<>> /\ LogsOf(<<>>) = <<>>
  BY DEF NoResult, LogsOf
<1>2. MaxAttempts \in Nat /\ MaxAttempts * 0 = 0
  BY CombinedRetrievalAssumption
<1> QED
  BY <1>1, <1>2, EmptyLists DEF NoResult

LEMMA InvInit == RetrievalInit => RetrievalInv
<1> SUFFICES ASSUME RetrievalInit PROVE RetrievalInv
  OBVIOUS
<1>1. TypeOK
  BY NoResultType, CombinedRetrievalAssumption, U64MaxAssumption DEF RetrievalInit, TypeOK, NoLookups
<1>2. CountersAgree /\ HistoryInv
  BY DEF RetrievalInit, CountersAgree, HistoryInv, NoResult
<1> QED
  BY <1>1, <1>2 DEF RetrievalInit, RetrievalInv, ReadInv, BatchInv, SerialInv, AccountInv

LEMMA AskStep ==
    ASSUME RetrievalInv, Ask
    PROVE  RetrievalInv'
<1>1. PICK r \in Ranges : query' = r /\ current_block' = r[1]
  BY DEF Ask
<1>2. /\ r \in (0 .. U64Max) \X (0 .. U64Max) /\ query'[1] = r[1] /\ query'[2] = r[2]
      /\ r[1] \in Nat /\ r[2] \in Nat /\ U64Max \in Nat
  BY <1>1, CombinedRetrievalAssumption, U64MaxAssumption
<1>3. /\ Fresh' /\ entries' = <<>> /\ tx' = NoLookups /\ receipt' = NoLookups
      /\ phase' = (IF r[1] <= r[2] THEN "scanning" ELSE "done")
  BY <1>1, <1>2 DEF Ask, Fresh
<1>4. TypeOK'
  BY <1>1, <1>2, <1>3, NoResultType, CombinedRetrievalAssumption DEF TypeOK, Fresh, NoLookups
<1>5. ReadInv'
  <2>1. Passed' = {}
    BY <1>1, <1>2, CombinedRetrievalAssumption DEF Passed
  <2> QED
    BY <1>1, <1>2, <1>3, <2>1, EmptyLists DEF ReadInv
<1>6. AccountInv'
  <2>1. CASE phase' = "done"
    <3>1. Wanted' = {}
      BY <1>1, <1>2, <1>3, <2>1, CombinedRetrievalAssumption DEF Wanted
    <3>2. {} \cap {} = {} /\ {} \cup {} \cup {} = Wanted'
      BY <3>1
    <3> QED
      BY <1>3, <3>2, NothingCounted DEF AccountInv, Fresh
  <2> QED
    BY <1>3, <2>1 DEF AccountInv
<1>7. CountersAgree' /\ HistoryInv'
  BY <1>3, NothingCounted DEF CountersAgree, HistoryInv, Fresh
<1> QED
  BY <1>3, <1>4, <1>5, <1>6, <1>7 DEF RetrievalInv, BatchInv, SerialInv

\* What a chunk adds to what was read (scan_raw).
LEMMA ChunkReads ==
    ASSUME RetrievalInv, phase = "scanning"
    PROVE  /\ ChunkEnd \in current_block .. query[2] /\ query[2] \in 0 .. U64Max
           /\ query[1] \in Nat /\ current_block \in Nat
           /\ Lists(entries \o ChunkLogs(current_block, ChunkEnd),
                    {l \in Logs : BlockOf[l] \in query[1] .. ChunkEnd})
<1>1. /\ query[1] \in Nat /\ query[2] \in 0 .. U64Max /\ current_block \in Nat /\ U64Max \in Nat
      /\ query[1] <= current_block /\ current_block <= query[2] /\ Lists(entries, Passed)
      /\ ChunkSize \in Nat \ {0}
  BY CombinedRetrievalAssumption, U64MaxAssumption DEF RetrievalInv, TypeOK, ReadInv
<1>2. ChunkEnd \in current_block .. query[2]
  BY <1>1 DEF ChunkEnd
<1> DEFINE S == {l \in Logs : BlockOf[l] \in current_block .. ChunkEnd}
<1>3. Lists(ChunkLogs(current_block, ChunkEnd), S)
  <2>1. S \subseteq Logs /\ S \in SUBSET Nat
    BY CombinedRetrievalAssumption
  <2>2. IsFiniteSet(S)
    BY <2>1, CombinedRetrievalAssumption, FS_Subset
  <2> QED
    BY <2>1, <2>2, InOrderLists DEF ChunkLogs
<1>4. \A l \in Logs : BlockOf[l] \in Nat
  BY CombinedRetrievalAssumption
<1>5. Passed \cap S = {} /\ Passed \cup S = {l \in Logs : BlockOf[l] \in query[1] .. ChunkEnd}
  BY <1>1, <1>2, <1>4 DEF Passed
<1> HIDE DEF S
<1> QED
  BY <1>1, <1>2, <1>3, <1>5, ConcatLists

LEMMA ScanChunkStep ==
    ASSUME RetrievalInv, ScanChunk
    PROVE  RetrievalInv'
<1>1. /\ phase = "scanning" /\ ChunkEnd < query[2] /\ current_block' = ChunkEnd + 1
      /\ entries' = entries \o ChunkLogs(current_block, ChunkEnd)
      /\ UNCHANGED <<phase, query, tx, receipt, queue, tries, result>>
  BY DEF ScanChunk
<1>2. /\ ChunkEnd \in current_block .. query[2] /\ query[2] \in 0 .. U64Max
      /\ query[1] \in Nat /\ current_block \in Nat /\ query[1] <= current_block /\ U64Max \in Nat
      /\ Lists(entries', {l \in Logs : BlockOf[l] \in query[1] .. ChunkEnd})
      /\ Fresh /\ TypeOK
  BY <1>1, ChunkReads, CombinedRetrievalAssumption, U64MaxAssumption DEF RetrievalInv, ReadInv
<1>3. /\ current_block' \in 0 .. U64Max /\ query[1] <= current_block'
      /\ current_block' <= query[2] /\ current_block' - 1 = ChunkEnd
  BY <1>1, <1>2
<1>4. ReadInv'
  BY <1>1, <1>2, <1>3 DEF ReadInv, Passed, Fresh
<1>5. entries' \in Seq(Logs)
  <2>1. entries' \in Seq({l \in Logs : BlockOf[l] \in query[1] .. ChunkEnd})
    BY <1>2 DEF Lists
  <2> QED
    BY <2>1
<1>6. TypeOK'
  BY <1>1, <1>2, <1>3, <1>5 DEF TypeOK
<1>7. CountersAgree' /\ HistoryInv'
  BY <1>1, <1>2, NothingCounted DEF CountersAgree, HistoryInv, Fresh
<1> QED
  BY <1>1, <1>4, <1>6, <1>7 DEF RetrievalInv, BatchInv, SerialInv, AccountInv

LEMMA ScanLastChunkStep ==
    ASSUME RetrievalInv, ScanLastChunk
    PROVE  RetrievalInv'
<1> DEFINE all == entries \o ChunkLogs(current_block, ChunkEnd)
           S == {l \in Logs : BlockOf[l] \in query[1] .. ChunkEnd}
           logs == Only(all, Readable)
<1>1. /\ phase = "scanning" /\ ChunkEnd >= query[2] /\ current_block' = ChunkEnd
      /\ entries' = logs
      /\ tx' = [l \in Logs |-> IF l \in ToSet(logs) THEN "asked" ELSE "none"] /\ receipt' = tx'
      /\ phase' = IF logs = <<>> THEN "done" ELSE "batch"
      /\ UNCHANGED <<query, queue, tries, result>>
  BY DEF ScanLastChunk, Enrich
<1>2. /\ ChunkEnd \in current_block .. query[2] /\ query[2] \in 0 .. U64Max
      /\ query[1] \in Nat /\ current_block \in Nat /\ U64Max \in Nat
      /\ Lists(all, S) /\ Fresh /\ TypeOK
  BY <1>1, ChunkReads, CombinedRetrievalAssumption, U64MaxAssumption DEF RetrievalInv, ReadInv
<1>3. ChunkEnd = query[2] /\ S \cap Readable = Wanted
  <2>1. ChunkEnd = query[2]
    BY <1>1, <1>2
  <2> QED
    BY <2>1, CombinedRetrievalAssumption DEF Wanted
<1>4. Lists(logs, Wanted)
  BY <1>2, <1>3, OnlyLists
<1> HIDE DEF logs, all, S
<1>5. logs \in Seq(Logs) /\ ToSet(logs) = Wanted /\ Wanted' = Wanted /\ Wanted \subseteq Logs
  <2>1. logs \in Seq(Wanted) /\ Wanted \subseteq Logs
    BY <1>4, CombinedRetrievalAssumption DEF Lists, Wanted
  <2>2. DOMAIN logs = 1 .. Len(logs) /\ logs \in Seq(Logs) /\ \A i \in 1 .. Len(logs) : logs[i] \in Wanted
    BY <2>1
  <2>3. ToSet(logs) = Wanted
    BY <1>4, <2>2 DEF Lists, ToSet
  <2> QED
    BY <1>1, <2>1, <2>2, <2>3 DEF Wanted
<1>6. TypeOK'
  BY <1>1, <1>2, <1>5 DEF TypeOK
<1>7. BatchInv'
  BY <1>1, <1>2, <1>4, <1>5 DEF BatchInv, InFlight, Fresh
<1>8. AccountInv'
  <2>1. CASE phase' = "done"
    <3>1. logs = <<>>
      BY <1>1, <2>1
    <3>2. Wanted = {}
      BY <1>4, <3>1 DEF Lists
    <3>3. {} \cap {} = {} /\ {} \cup {} \cup {} = Wanted'
      BY <1>5, <3>2
    <3> QED
      BY <1>1, <1>2, <3>3, NothingCounted DEF AccountInv, Fresh
  <2> QED
    BY <1>1, <2>1 DEF AccountInv
<1>9. CountersAgree' /\ HistoryInv'
  BY <1>1, <1>2, NothingCounted DEF CountersAgree, HistoryInv, Fresh
<1> QED
  BY <1>1, <1>6, <1>7, <1>8, <1>9 DEF RetrievalInv, ReadInv, SerialInv

\* An answer ends at most one lookup and leaves the rest (enrich_one).
LEMMA ReplyStep ==
    ASSUME RetrievalInv, NEW l \in Logs, TxReply(l) \/ RawReply(l) \/ ReceiptReply(l)
    PROVE  RetrievalInv'
<1>1. TypeOK /\ UNCHANGED <<phase, query, current_block, entries, queue, tries, result>>
  BY DEF RetrievalInv, TxReply, RawReply, ReceiptReply
<1>2. /\ tx' \in [Logs -> {"none", "asked", "raw", "found", "missing", "failed", "unreadable"}]
      /\ receipt' \in [Logs -> {"none", "asked", "found", "missing", "failed"}]
      /\ \A k \in Logs : /\ tx[k] # "none" => tx'[k] # "none"
                         /\ InFlight(k)' => InFlight(k)
  <2>1. CASE TxReply(l)
    <3>1. PICK reply \in {"found", "missing", "failed", "raw"} : tx' = [tx EXCEPT ![l] = reply]
      BY <2>1 DEF TxReply
    <3> QED
      BY <1>1, <2>1, <3>1 DEF TypeOK, TxReply, InFlight
  <2>2. CASE RawReply(l)
    <3>1. PICK reply \in {"found", "missing", "unreadable"} : tx' = [tx EXCEPT ![l] = reply]
      BY <2>2 DEF RawReply
    <3> QED
      BY <1>1, <2>2, <3>1 DEF TypeOK, RawReply, InFlight
  <2>3. CASE ReceiptReply(l)
    <3>1. PICK reply \in {"found", "missing", "failed"} : receipt' = [receipt EXCEPT ![l] = reply]
      BY <2>3 DEF ReceiptReply
    <3> QED
      BY <1>1, <2>3, <3>1 DEF TypeOK, ReceiptReply, InFlight
  <2> QED
    BY <2>1, <2>2, <2>3
<1>3. Wanted' = Wanted /\ Passed' = Passed /\ Wanted \subseteq Logs
  BY <1>1, CombinedRetrievalAssumption DEF Wanted, Passed
<1>4. TypeOK'
  BY <1>1, <1>2 DEF TypeOK
<1>5. ReadInv' /\ CountersAgree' /\ HistoryInv'
  BY <1>1, <1>3 DEF RetrievalInv, ReadInv, CountersAgree, HistoryInv, Fresh
<1>6. AccountInv'
  BY <1>1, <1>3 DEF RetrievalInv, AccountInv
<1>7. BatchInv'
  BY <1>1, <1>2, <1>3 DEF RetrievalInv, BatchInv, Fresh
<1>8. SerialInv'
  <2> SUFFICES ASSUME phase = "serial" PROVE SerialInv'
    BY <1>1 DEF SerialInv
  <2>1. /\ queue # <<>> /\ tries \in 1 .. MaxAttempts /\ tx[Retried] # "none"
        /\ \A k \in Logs : InFlight(k) => k = Retried
    BY DEF RetrievalInv, SerialInv
  <2>2. Retried' = Retried /\ Retried \in Logs
    <3>1. Retried \in Readable
      <4>1. queue \in Seq(Failures) /\ queue # <<>>
        BY <1>1, <2>1 DEF TypeOK
      <4>2. Head(queue) \in Failures
        BY <4>1
      <4> QED
        BY <4>2 DEF Retried, Failures
    <3> QED
      BY <1>1, <3>1, CombinedRetrievalAssumption DEF Retried
  <2> QED
    BY <1>1, <1>2, <2>1, <2>2 DEF SerialInv
<1> QED
  BY <1>4, <1>5, <1>6, <1>7, <1>8 DEF RetrievalInv

LEMMA ScanFailsStep ==
    ASSUME RetrievalInv, ScanFails
    PROVE  RetrievalInv'
<1>1. /\ phase' = "failed" /\ entries' = <<>> /\ TypeOK /\ HistoryInv
      /\ UNCHANGED <<query, current_block, tx, receipt, queue, tries, result>>
  BY DEF ScanFails, RetrievalInv
<1>2. TypeOK'
  BY <1>1 DEF TypeOK
<1>3. HistoryInv'
  BY <1>1 DEF HistoryInv
<1> QED
  BY <1>1, <1>2, <1>3 DEF RetrievalInv, ReadInv, BatchInv, SerialInv, AccountInv, CountersAgree

\* The logs of the range are those that succeed and those that fail.
LEMMA BatchAccounts ==
    ASSUME RetrievalInv, BatchEnded
    PROVE  \E D, F : /\ Lists(BatchSuccesses, D) /\ Lists(LogsOf(BatchFailures), F)
                     /\ D \cap F = {} /\ D \cup F = Wanted
<1>1. /\ Lists(BatchSuccesses, {l \in Wanted : Succeeds(l)})
      /\ Lists(LogsOf(BatchFailures), {l \in Wanted : ~Succeeds(l)})
  BY BatchLeaves
<1>2. /\ {l \in Wanted : Succeeds(l)} \cap {l \in Wanted : ~Succeeds(l)} = {}
      /\ {l \in Wanted : Succeeds(l)} \cup {l \in Wanted : ~Succeeds(l)} = Wanted
  OBVIOUS
<1> QED
  BY <1>1, <1>2

LEMMA BatchReturnsStep ==
    ASSUME RetrievalInv, BatchReturns
    PROVE  RetrievalInv'
<1> DEFINE data == BatchSuccesses
           fs == BatchFailures
<1>1. /\ BatchEnded /\ (fs = <<>> \/ MaxAttempts = 0) /\ phase' = "done"
      /\ result' = [result EXCEPT !.data = data, !.failures = fs, !.skipped = Len(fs)]
      /\ UNCHANGED <<query, current_block, entries, tx, receipt, queue, tries>>
      /\ TypeOK /\ Fresh /\ MaxAttempts \in Nat
  BY CombinedRetrievalAssumption DEF BatchReturns, BatchEnded, RetrievalInv, BatchInv
<1>2. /\ data \in Seq(Readable) /\ fs \in Seq(Failures)
      /\ \A i \in 1 .. Len(fs) : History(fs[i].attempts, 0)
  BY <1>1, BatchLeaves
<1>3. PICK D, F : /\ Lists(data, D) /\ Lists(LogsOf(fs), F) /\ D \cap F = {} /\ D \cup F = Wanted
  BY <1>1, BatchAccounts
<1> HIDE DEF data, fs
<1>4. /\ result'.data = data /\ result'.failures = fs /\ result'.skipped = Len(fs)
      /\ result'.recovered = 0 /\ result'.attempts = 0 /\ Len(data) \in Nat /\ Len(fs) \in Nat
      /\ result' \in [data : Seq(Readable), failures : Seq(Failures), skipped : Nat,
                      attempts : Nat, recovered : Nat]
  <2>1. Len(data) \in Nat /\ Len(fs) \in Nat
    BY <1>2
  <2>2. result' = [data |-> data, failures |-> fs, skipped |-> Len(fs), attempts |-> 0, recovered |-> 0]
    BY <1>1 DEF Fresh, NoResult
  <2> QED
    BY <1>2, <2>1, <2>2
<1>5. TypeOK'
  BY <1>1, <1>4 DEF TypeOK
<1>6. AccountInv'
  <2>1. LogsOf(queue)' = LogsOf(<<>>) /\ Wanted' = Wanted
    BY <1>1 DEF Fresh, Wanted
  <2>2. /\ Lists(result'.data, D) /\ Lists(LogsOf(result'.failures), F) /\ Lists(LogsOf(queue'), {})
        /\ D \cap F = {} /\ D \cap {} = {} /\ F \cap {} = {} /\ D \cup F \cup {} = Wanted'
    BY <1>1, <1>3, <1>4, <2>1, NothingCounted DEF Fresh
  <2> QED
    BY <2>2 DEF AccountInv
<1>7. CountersAgree'
  <2>1. MaxAttempts * Len(fs) = 0
    BY <1>1, <1>4
  <2> QED
    BY <1>1, <1>4, <2>1 DEF CountersAgree
<1>8. HistoryInv'
  <2>1. \A i \in 1 .. Len(fs) : MaxAttempts = 0
    BY <1>1, <1>2
  <2> QED
    BY <1>1, <1>2, <1>4, <2>1 DEF HistoryInv
<1> QED
  BY <1>1, <1>5, <1>6, <1>7, <1>8 DEF RetrievalInv, ReadInv, BatchInv, SerialInv

\* Asking again makes one lookup in flight (retry_failed).
LEMMA RetryAsks ==
    ASSUME TypeOK, NEW l \in Logs, Retry(l)
    PROVE  /\ tx' \in [Logs -> {"none", "asked", "raw", "found", "missing", "failed", "unreadable"}]
           /\ receipt' \in [Logs -> {"none", "asked", "found", "missing", "failed"}]
           /\ tx'[l] # "none"
           /\ \A k \in Logs : InFlight(k)' => k = l \/ InFlight(k)
           /\ \A k \in Logs : tx[k] # "none" => tx'[k] # "none"
  BY DEF TypeOK, Retry, InFlight

LEMMA BatchFallsBackStep ==
    ASSUME RetrievalInv, BatchFallsBack
    PROVE  RetrievalInv'
<1> DEFINE data == BatchSuccesses
           fs == BatchFailures
<1>1. /\ BatchEnded /\ fs # <<>> /\ MaxAttempts > 0 /\ phase' = "serial" /\ tries' = 1
      /\ queue' = fs /\ result' = [result EXCEPT !.data = data]
      /\ Retry(Head(fs).log) /\ UNCHANGED <<query, current_block, entries>>
      /\ TypeOK /\ Fresh /\ MaxAttempts \in Nat /\ phase = "batch"
      /\ \A l \in Logs : InFlight(l) => l \in Wanted
      /\ Lists(entries, Wanted)
  BY CombinedRetrievalAssumption DEF BatchFallsBack, BatchEnded, RetrievalInv, BatchInv
<1>2. /\ data \in Seq(Readable) /\ fs \in Seq(Failures)
      /\ \A i \in 1 .. Len(fs) : fs[i].log \in Logs /\ History(fs[i].attempts, 0)
  BY <1>1, BatchLeaves
<1>3. PICK D, F : /\ Lists(data, D) /\ Lists(LogsOf(fs), F) /\ D \cap F = {} /\ D \cup F = Wanted
  BY <1>1, BatchAccounts
<1>4. \A l \in Logs : ~InFlight(l)
  BY <1>1 DEF Lists, ToSet, BatchEnded
<1> HIDE DEF data, fs
<1>5. /\ Len(fs) \in Nat /\ 1 \in 1 .. Len(fs) /\ Head(fs) = fs[1] /\ fs[1].log \in Logs
  BY <1>1, <1>2
<1>6. /\ tx' \in [Logs -> {"none", "asked", "raw", "found", "missing", "failed", "unreadable"}]
      /\ receipt' \in [Logs -> {"none", "asked", "found", "missing", "failed"}]
      /\ tx'[fs[1].log] # "none" /\ \A k \in Logs : InFlight(k)' => k = fs[1].log
  BY <1>1, <1>4, <1>5, RetryAsks
<1>7. /\ result'.data = data /\ result'.failures = <<>> /\ result'.skipped = 0
      /\ result'.recovered = 0 /\ result'.attempts = 0 /\ Len(data) \in Nat
      /\ result' \in [data : Seq(Readable), failures : Seq(Failures), skipped : Nat,
                      attempts : Nat, recovered : Nat]
  <2>1. Len(data) \in Nat /\ <<>> \in Seq(Failures)
    BY <1>2
  <2>2. result' = [data |-> data, failures |-> <<>>, skipped |-> 0, attempts |-> 0, recovered |-> 0]
    BY <1>1 DEF Fresh, NoResult
  <2> QED
    BY <1>2, <2>1, <2>2
<1>8. TypeOK'
  <2>1. /\ phase' \in {"idle", "scanning", "batch", "serial", "done", "failed"}
        /\ query' \in (0 .. U64Max) \X (0 .. U64Max) /\ current_block' \in 0 .. U64Max
        /\ entries' \in Seq(Logs)
    BY <1>1 DEF TypeOK
  <2>2. queue' \in Seq(Failures) /\ tries' \in 0 .. MaxAttempts
    BY <1>1, <1>2
  <2> QED
    BY <1>6, <1>7, <2>1, <2>2 DEF TypeOK
<1>9. AccountInv'
  <2>1. Wanted' = Wanted
    BY <1>1 DEF Wanted
  <2>2. Lists(LogsOf(<<>>), {})
    BY NothingCounted
  <2>3. /\ Lists(result'.data, D) /\ Lists(LogsOf(result'.failures), {}) /\ Lists(LogsOf(queue'), F)
        /\ D \cap {} = {} /\ D \cap F = {} /\ {} \cap F = {} /\ D \cup {} \cup F = Wanted'
    BY <1>1, <1>3, <1>7, <2>1, <2>2
  <2> QED
    BY <2>3 DEF AccountInv
<1>10. CountersAgree'
  <2>1. MaxAttempts * 0 = 0
    BY <1>1
  <2> QED
    BY <1>7, <2>1 DEF CountersAgree
<1>11. HistoryInv'
  BY <1>1, <1>2, <1>5, <1>7 DEF HistoryInv
<1>12. SerialInv'
  BY <1>1, <1>5, <1>6 DEF SerialInv, Retried
<1> QED
  BY <1>1, <1>8, <1>9, <1>10, <1>11, <1>12 DEF RetrievalInv, ReadInv, BatchInv

-----------------------------------------------------------------------------
(* The fallback *)

\* The lookup that has been retried and is over.
LEMMA Retries ==
    ASSUME RetrievalInv, RetryEnded
    PROVE  /\ TypeOK /\ phase = "serial" /\ queue \in Seq(Failures) /\ queue # <<>>
           /\ Len(queue) \in Nat /\ 1 \in 1 .. Len(queue) /\ Head(queue) = queue[1]
           /\ queue[1] \in Failures /\ Retried = queue[1].log
           /\ Retried \in Readable /\ Retried \in Logs
           /\ MaxAttempts \in Nat /\ tries \in 1 .. MaxAttempts
           /\ tx[Retried] # "none" /\ \A l \in Logs : ~InFlight(l)
<1>1. /\ TypeOK /\ phase = "serial" /\ queue \in Seq(Failures) /\ queue # <<>>
      /\ tries \in 1 .. MaxAttempts /\ tx[Retried] # "none"
      /\ \A l \in Logs : InFlight(l) => l = Retried
      /\ ~InFlight(Retried) /\ MaxAttempts \in Nat
  BY CombinedRetrievalAssumption DEF RetrievalInv, SerialInv, RetryEnded, TypeOK
<1>2. Len(queue) \in Nat /\ 1 \in 1 .. Len(queue) /\ Head(queue) = queue[1] /\ queue[1] \in Failures
  BY <1>1
<1>3. Retried = queue[1].log /\ Retried \in Readable
  BY <1>2 DEF Retried, Failures
<1> QED
  BY <1>1, <1>2, <1>3, CombinedRetrievalAssumption

\* After one failure the next, from its first attempt, or none (retry_failed).
LEMMA NextFailureStep ==
    ASSUME RetrievalInv, RetryEnded, NextFailure,
           result' \in [data : Seq(Readable), failures : Seq(Failures), skipped : Nat,
                        attempts : Nat, recovered : Nat],
           \A i \in 1 .. Len(result'.failures) : History(result'.failures[i].attempts, MaxAttempts)
    PROVE  /\ TypeOK' /\ SerialInv' /\ HistoryInv' /\ phase' \in {"serial", "done"}
           /\ Wanted' = Wanted /\ LogsOf(queue') = Tail(LogsOf(queue))
<1>1. /\ TypeOK /\ phase = "serial" /\ queue \in Seq(Failures) /\ queue # <<>>
      /\ MaxAttempts \in Nat /\ tries \in 1 .. MaxAttempts /\ \A l \in Logs : ~InFlight(l)
  BY Retries
<1>2. /\ queue' = Tail(queue) /\ UNCHANGED <<query, current_block, entries>>
  BY DEF NextFailure
<1>3. /\ Tail(queue) \in Seq(Failures) /\ Len(Tail(queue)) = Len(queue) - 1 /\ Len(queue) \in Nat
      /\ \A i \in 1 .. Len(queue) - 1 : Tail(queue)[i] = queue[i + 1]
  BY <1>1
<1>4. \A i \in 2 .. Len(queue) : History(queue[i].attempts, 0)
  BY <1>1 DEF RetrievalInv, HistoryInv
<1>5. Wanted' = Wanted /\ LogsOf(queue') = Tail(LogsOf(queue))
  BY <1>1, <1>2, LogsOfTail DEF Wanted
<1>6. CASE Tail(queue) = <<>>
  <2>1. phase' = "done" /\ tries' = 0 /\ UNCHANGED <<tx, receipt>>
    BY <1>6 DEF NextFailure
  <2>2. TypeOK'
    BY <1>1, <1>2, <1>3, <2>1 DEF TypeOK
  <2> QED
    BY <1>5, <2>1, <2>2 DEF SerialInv, HistoryInv
<1>7. CASE Tail(queue) # <<>>
  <2> DEFINE f == Tail(queue)[1]
  <2>1. /\ phase' = "serial" /\ tries' = 1 /\ Retry(Head(Tail(queue)).log)
    BY <1>1, <1>7 DEF NextFailure
  <2>2. /\ Head(Tail(queue)) = f /\ f \in Failures /\ 1 \in 1 .. Len(queue) - 1
        /\ f = queue[2] /\ 2 \in 2 .. Len(queue)
    <3>1. Len(Tail(queue)) # 0
      BY <1>3, <1>7
    <3> QED
      BY <1>3, <3>1
  <2>3. f.log \in Logs
    BY <2>2, CombinedRetrievalAssumption DEF Failures
  <2>4. /\ tx' \in [Logs -> {"none", "asked", "raw", "found", "missing", "failed", "unreadable"}]
        /\ receipt' \in [Logs -> {"none", "asked", "found", "missing", "failed"}]
        /\ tx'[f.log] # "none" /\ \A k \in Logs : InFlight(k)' => k = f.log
    BY <1>1, <2>1, <2>2, <2>3, RetryAsks
  <2>5. TypeOK'
    BY <1>1, <1>2, <1>3, <2>1, <2>4 DEF TypeOK
  <2>6. SerialInv'
    BY <1>1, <1>2, <1>7, <2>1, <2>2, <2>4 DEF SerialInv, Retried
  <2>7. HistoryInv'
    <3>1. History(f.attempts, 0)
      BY <1>4, <2>2
    <3>2. \A i \in 2 .. Len(queue) - 1 : History(Tail(queue)[i].attempts, 0)
      <4> SUFFICES ASSUME NEW i \in 2 .. Len(queue) - 1 PROVE History(Tail(queue)[i].attempts, 0)
        OBVIOUS
      <4>1. i \in 1 .. Len(queue) - 1 /\ i + 1 \in 2 .. Len(queue) /\ Tail(queue)[i] = queue[i + 1]
        BY <1>3
      <4> QED
        BY <1>4, <4>1
    <3>3. tries' - 1 = 0
      BY <2>1
    <3> QED
      BY <1>2, <1>3, <2>1, <3>1, <3>2, <3>3 DEF HistoryInv
  <2> QED
    BY <1>5, <2>1, <2>5, <2>6, <2>7
<1> QED
  BY <1>6, <1>7

\* A history grows by the errors of the attempt that is over.
LEMMA HistoryGrows ==
    ASSUME RetrievalInv, RetryEnded, ~Succeeds(Retried)
    PROVE  /\ queue[1].attempts \o Attempts(Retried) \in Seq(Attempt)
           /\ History(queue[1].attempts \o Attempts(Retried), tries)
<1> DEFINE a == queue[1].attempts
           b == Attempts(Retried)
<1>1. /\ TypeOK /\ phase = "serial" /\ queue[1] \in Failures /\ tries \in Nat /\ Retried \in Logs
      /\ tx[Retried] # "none" /\ ~InFlight(Retried) /\ MaxAttempts \in Nat
      /\ History(a, tries - 1)
  BY Retries DEF RetrievalInv, HistoryInv
<1>2. a \in Seq(Attempt)
  BY <1>1 DEF Failures, Attempt
<1>3. b \in Seq(Attempt) /\ Len(b) \in Nat \ {0} /\ \A i \in 1 .. Len(b) : b[i].pass = "serial"
  BY <1>1, AttemptsType
<1> HIDE DEF a, b
<1>4. /\ a \o b \in Seq(Attempt) /\ Len(a \o b) = Len(a) + Len(b) /\ Len(a) \in Nat
      /\ \A i \in 1 .. Len(a) + Len(b) : (a \o b)[i] = IF i <= Len(a) THEN a[i] ELSE b[i - Len(a)]
  BY <1>2, <1>3, ConcatProperties
<1>5. PICK n \in 1 .. Len(a) :
        /\ \A i \in 1 .. Len(a) : a[i].pass = IF i <= n THEN "batch" ELSE "serial"
        /\ Len(a) - n >= tries - 1
  BY <1>1, <1>2 DEF History
<1> DEFINE c == a \o b
<1>6. DOMAIN c = 1 .. Len(a) + Len(b)
  BY <1>4
<1> HIDE DEF c
<1>7. \A i \in 1 .. Len(a) + Len(b) : c[i].pass = IF i <= n THEN "batch" ELSE "serial"
  <2> SUFFICES ASSUME NEW i \in 1 .. Len(a) + Len(b)
               PROVE  c[i].pass = IF i <= n THEN "batch" ELSE "serial"
    OBVIOUS
  <2>1. CASE i <= Len(a)
    BY <1>3, <1>4, <1>5, <2>1 DEF c
  <2>2. CASE i > Len(a)
    <3>1. i - Len(a) \in 1 .. Len(b) /\ c[i] = b[i - Len(a)] /\ ~(i <= n)
      BY <1>3, <1>4, <1>5, <2>2 DEF c
    <3> QED
      BY <1>3, <3>1
  <2> QED
    BY <1>3, <1>4, <2>1, <2>2
<1>8. n \in DOMAIN c /\ Len(c) - n >= tries
  BY <1>1, <1>3, <1>4, <1>5, <1>6 DEF c
<1> QED
  BY <1>4, <1>6, <1>7, <1>8 DEF History, a, b, c

LEMMA RetrySucceedsStep ==
    ASSUME RetrievalInv, RetrySucceeds
    PROVE  RetrievalInv'
<1>1. /\ RetryEnded /\ NextFailure
      /\ result' = [result EXCEPT !.data = Append(@, Retried), !.recovered = @ + 1,
                                  !.attempts = @ + tries]
  BY DEF RetrySucceeds
<1>2. /\ TypeOK /\ phase = "serial" /\ queue \in Seq(Failures) /\ queue # <<>> /\ Head(queue) = queue[1]
      /\ Retried \in Readable /\ MaxAttempts \in Nat /\ tries \in 1 .. MaxAttempts
      /\ Retried = Head(queue).log
  BY <1>1, Retries
<1>3. /\ result.data \in Seq(Readable) /\ result.failures \in Seq(Failures)
      /\ result.skipped \in Nat /\ result.attempts \in Nat /\ result.recovered \in Nat
      /\ result = [data |-> result.data, failures |-> result.failures, skipped |-> result.skipped,
                   attempts |-> result.attempts, recovered |-> result.recovered]
  BY <1>2 DEF TypeOK
<1>4. result' = [data |-> Append(result.data, Retried), failures |-> result.failures,
                 skipped |-> result.skipped, attempts |-> result.attempts + tries,
                 recovered |-> result.recovered + 1]
  BY <1>1, <1>3
<1>5. /\ Append(result.data, Retried) \in Seq(Readable)
      /\ Len(Append(result.data, Retried)) = Len(result.data) + 1
  BY <1>2, <1>3
<1>6. result' \in [data : Seq(Readable), failures : Seq(Failures), skipped : Nat,
                   attempts : Nat, recovered : Nat]
  BY <1>2, <1>3, <1>4, <1>5
<1>7. \A i \in 1 .. Len(result'.failures) : History(result'.failures[i].attempts, MaxAttempts)
  BY <1>4 DEF RetrievalInv, HistoryInv
<1>8. /\ TypeOK' /\ SerialInv' /\ HistoryInv' /\ phase' \in {"serial", "done"}
      /\ Wanted' = Wanted /\ LogsOf(queue') = Tail(LogsOf(queue))
  BY <1>1, <1>6, <1>7, NextFailureStep
<1>9. AccountInv'
  <2>1. PICK D, F, Q : /\ Lists(result.data, D) /\ Lists(LogsOf(result.failures), F)
                       /\ Lists(LogsOf(queue), Q)
                       /\ D \cap F = {} /\ D \cap Q = {} /\ F \cap Q = {}
                       /\ D \cup F \cup Q = Wanted
    BY <1>2 DEF RetrievalInv, AccountInv
  <2>2. LogsOf(queue) # <<>> /\ Head(LogsOf(queue)) = Retried
    BY <1>2, LogsOfTail
  <2>3. Retried \in Q /\ Lists(Tail(LogsOf(queue)), Q \ {Retried})
    BY <2>1, <2>2, TailLists
  <2>4. Lists(Append(result.data, Retried), D \cup {Retried})
    BY <2>1, <2>3, AppendLists
  <2>5. /\ Lists(result'.data, D \cup {Retried}) /\ Lists(LogsOf(result'.failures), F)
        /\ Lists(LogsOf(queue'), Q \ {Retried})
    BY <1>4, <1>8, <2>1, <2>3, <2>4
  <2>6. /\ (D \cup {Retried}) \cap F = {} /\ (D \cup {Retried}) \cap (Q \ {Retried}) = {}
        /\ F \cap (Q \ {Retried}) = {} /\ (D \cup {Retried}) \cup F \cup (Q \ {Retried}) = Wanted'
    BY <1>8, <2>1, <2>3
  <2> QED
    BY <2>5, <2>6 DEF AccountInv
<1>10. CountersAgree'
  <2> DEFINE n == result.recovered + result.skipped
             m == MaxAttempts * result.skipped
             o == MaxAttempts * n
  <2>1. /\ result.skipped = Len(result.failures) /\ result.recovered <= Len(result.data)
        /\ result.attempts \in result.recovered + m .. o
    BY <1>2 DEF RetrievalInv, CountersAgree
  <2>2. MaxAttempts * (result.recovered + 1 + result.skipped) = o + MaxAttempts
    BY <1>2, <1>3
  <2>3. m \in Nat /\ o \in Nat
    BY <1>2, <1>3
  <2> HIDE DEF m, o
  <2>4. result.attempts + tries \in result.recovered + 1 + m .. o + MaxAttempts
    <3>1. /\ result.attempts \in Nat /\ result.recovered \in Nat /\ tries \in Nat
          /\ MaxAttempts \in Nat /\ 1 <= tries /\ tries <= MaxAttempts
      BY <1>2, <1>3
    <3>2. result.recovered + m <= result.attempts /\ result.attempts <= o
      BY <2>1, <2>3, <3>1
    <3> QED
      BY <2>3, <3>1, <3>2
  <2>5. Len(result.data) \in Nat
    BY <1>3
  <2> QED
    BY <1>3, <1>4, <1>5, <2>1, <2>2, <2>4, <2>5 DEF CountersAgree, m
<1> QED
  BY <1>8, <1>9, <1>10 DEF RetrievalInv, ReadInv, BatchInv

LEMMA RetryAgainStep ==
    ASSUME RetrievalInv, RetryAgain
    PROVE  RetrievalInv'
<1> DEFINE more == queue[1].attempts \o Attempts(Retried)
           f == [queue[1] EXCEPT !.attempts = more]
<1>1. /\ RetryEnded /\ ~Succeeds(Retried) /\ tries < MaxAttempts /\ tries' = tries + 1
      /\ queue' = [queue EXCEPT ![1].attempts = more] /\ Retry(Retried)
      /\ UNCHANGED <<phase, query, current_block, entries, result>>
  BY DEF RetryAgain
<1>2. /\ TypeOK /\ phase = "serial" /\ queue \in Seq(Failures) /\ queue # <<>>
      /\ Len(queue) \in Nat /\ 1 \in 1 .. Len(queue) /\ queue[1] \in Failures
      /\ Retried = queue[1].log /\ Retried \in Logs /\ MaxAttempts \in Nat
      /\ tries \in 1 .. MaxAttempts /\ \A l \in Logs : ~InFlight(l)
  BY <1>1, Retries
<1>3. more \in Seq(Attempt) /\ History(more, tries)
  BY <1>1, HistoryGrows
<1>4. queue' = [queue EXCEPT ![1] = f]
  BY <1>1, <1>2
<1> HIDE DEF more
<1>5. f \in Failures /\ f.log = queue[1].log /\ f.attempts = more
  BY <1>2, <1>3 DEF Failures, Attempt
<1> HIDE DEF f
<1>6. /\ queue' \in Seq(Failures) /\ Len(queue') = Len(queue) /\ queue'[1] = f
      /\ \A i \in 2 .. Len(queue) : queue'[i] = queue[i]
      /\ queue' # <<>> /\ Head(queue') = f
  BY <1>2, <1>4, <1>5
<1>7. LogsOf(queue') = LogsOf(queue) /\ Wanted' = Wanted /\ Retried' = Retried
  <2>1. DOMAIN queue' = DOMAIN queue /\ \A i \in DOMAIN queue : queue'[i].log = queue[i].log
    BY <1>2, <1>4, <1>5
  <2> QED
    BY <1>1, <1>2, <1>5, <1>6, <2>1 DEF LogsOf, Wanted, Retried
<1>8. /\ tx' \in [Logs -> {"none", "asked", "raw", "found", "missing", "failed", "unreadable"}]
      /\ receipt' \in [Logs -> {"none", "asked", "found", "missing", "failed"}]
      /\ tx'[Retried] # "none" /\ \A k \in Logs : InFlight(k)' => k = Retried
  BY <1>1, <1>2, RetryAsks
<1>9. TypeOK'
  BY <1>1, <1>2, <1>6, <1>8 DEF TypeOK
<1>10. SerialInv'
  BY <1>1, <1>2, <1>6, <1>7, <1>8 DEF SerialInv
<1>11. AccountInv'
  BY <1>1, <1>2, <1>7 DEF RetrievalInv, AccountInv
<1>12. CountersAgree'
  BY <1>1 DEF RetrievalInv, CountersAgree
<1>13. HistoryInv'
  <2>1. tries' - 1 = tries
    BY <1>1, <1>2
  <2>2. \A i \in 2 .. Len(queue) : History(queue[i].attempts, 0)
    BY <1>2 DEF RetrievalInv, HistoryInv
  <2> QED
    BY <1>1, <1>3, <1>5, <1>6, <2>1, <2>2 DEF RetrievalInv, HistoryInv
<1> QED
  BY <1>1, <1>2, <1>9, <1>10, <1>11, <1>12, <1>13 DEF RetrievalInv, ReadInv, BatchInv

LEMMA RetryFailsStep ==
    ASSUME RetrievalInv, RetryFails
    PROVE  RetrievalInv'
<1> DEFINE more == queue[1].attempts \o Attempts(Retried)
           f == [queue[1] EXCEPT !.attempts = more]
<1>1. /\ RetryEnded /\ ~Succeeds(Retried) /\ tries = MaxAttempts /\ NextFailure
  BY DEF RetryFails
<1>2. /\ TypeOK /\ phase = "serial" /\ queue \in Seq(Failures) /\ queue # <<>> /\ Head(queue) = queue[1]
      /\ queue[1] \in Failures /\ Retried = queue[1].log /\ MaxAttempts \in Nat
      /\ tries \in 1 .. MaxAttempts
  BY <1>1, Retries
<1>3. more \in Seq(Attempt) /\ History(more, tries)
  BY <1>1, HistoryGrows
<1>4. result' = [result EXCEPT !.failures = Append(@, f), !.skipped = @ + 1, !.attempts = @ + tries]
  BY <1>2 DEF RetryFails
<1> HIDE DEF more
<1>5. f \in Failures /\ f.log = Retried /\ f.attempts = more
  BY <1>2, <1>3 DEF Failures, Attempt
<1> HIDE DEF f
<1>6. /\ result.data \in Seq(Readable) /\ result.failures \in Seq(Failures)
      /\ result.skipped \in Nat /\ result.attempts \in Nat /\ result.recovered \in Nat
      /\ result = [data |-> result.data, failures |-> result.failures, skipped |-> result.skipped,
                   attempts |-> result.attempts, recovered |-> result.recovered]
  BY <1>2 DEF TypeOK
<1> DEFINE fs == Append(result.failures, f)
<1>7. result' = [data |-> result.data, failures |-> fs,
                 skipped |-> result.skipped + 1, attempts |-> result.attempts + tries,
                 recovered |-> result.recovered]
  BY <1>4, <1>6
<1>8. /\ fs \in Seq(Failures) /\ Len(fs) = Len(result.failures) + 1 /\ Len(result.failures) \in Nat
      /\ \A i \in 1 .. Len(result.failures) : fs[i] = result.failures[i]
      /\ fs[Len(result.failures) + 1] = f
      /\ LogsOf(fs) = Append(LogsOf(result.failures), Retried)
  BY <1>5, <1>6, LogsOfAppend
<1> HIDE DEF fs
<1>9. result' \in [data : Seq(Readable), failures : Seq(Failures), skipped : Nat,
                   attempts : Nat, recovered : Nat]
  BY <1>2, <1>6, <1>7, <1>8
<1>10. \A i \in 1 .. Len(result'.failures) : History(result'.failures[i].attempts, MaxAttempts)
  <2> SUFFICES ASSUME NEW i \in 1 .. Len(fs) PROVE History(fs[i].attempts, MaxAttempts)
    BY <1>7
  <2>1. CASE i \in 1 .. Len(result.failures)
    BY <1>8, <2>1 DEF RetrievalInv, HistoryInv
  <2>2. CASE i = Len(result.failures) + 1
    BY <1>1, <1>3, <1>5, <1>8, <2>2
  <2> QED
    BY <1>8, <2>1, <2>2
<1>11. /\ TypeOK' /\ SerialInv' /\ HistoryInv' /\ phase' \in {"serial", "done"}
       /\ Wanted' = Wanted /\ LogsOf(queue') = Tail(LogsOf(queue))
  BY <1>1, <1>9, <1>10, NextFailureStep
<1>12. AccountInv'
  <2>1. PICK D, F, Q : /\ Lists(result.data, D) /\ Lists(LogsOf(result.failures), F)
                       /\ Lists(LogsOf(queue), Q)
                       /\ D \cap F = {} /\ D \cap Q = {} /\ F \cap Q = {}
                       /\ D \cup F \cup Q = Wanted
    BY <1>2 DEF RetrievalInv, AccountInv
  <2>2. LogsOf(queue) # <<>> /\ Head(LogsOf(queue)) = Retried
    BY <1>2, LogsOfTail
  <2>3. Retried \in Q /\ Lists(Tail(LogsOf(queue)), Q \ {Retried})
    BY <2>1, <2>2, TailLists
  <2>4. Lists(Append(LogsOf(result.failures), Retried), F \cup {Retried})
    BY <2>1, <2>3, AppendLists
  <2>5. /\ Lists(result'.data, D) /\ Lists(LogsOf(result'.failures), F \cup {Retried})
        /\ Lists(LogsOf(queue'), Q \ {Retried})
    BY <1>7, <1>8, <1>11, <2>1, <2>3, <2>4
  <2>6. /\ D \cap (F \cup {Retried}) = {} /\ D \cap (Q \ {Retried}) = {}
        /\ (F \cup {Retried}) \cap (Q \ {Retried}) = {}
        /\ D \cup (F \cup {Retried}) \cup (Q \ {Retried}) = Wanted'
    BY <1>11, <2>1, <2>3
  <2> QED
    BY <2>5, <2>6 DEF AccountInv
<1>13. CountersAgree'
  <2> DEFINE n == result.recovered + result.skipped
             m == MaxAttempts * result.skipped
             o == MaxAttempts * n
  <2>1. /\ result.skipped = Len(result.failures) /\ result.recovered <= Len(result.data)
        /\ result.attempts \in result.recovered + m .. o
    BY <1>2 DEF RetrievalInv, CountersAgree
  <2>2. /\ MaxAttempts * (result.recovered + (result.skipped + 1)) = o + MaxAttempts
        /\ MaxAttempts * (result.skipped + 1) = m + MaxAttempts
    BY <1>2, <1>6
  <2>3. m \in Nat /\ o \in Nat
    BY <1>2, <1>6
  <2> HIDE DEF m, o
  <2>4. result.attempts + tries \in result.recovered + (m + MaxAttempts) .. o + MaxAttempts
    BY <1>1, <1>2, <1>6, <2>1, <2>3
  <2> QED
    BY <1>6, <1>7, <1>8, <2>1, <2>2, <2>4 DEF CountersAgree
<1> QED
  BY <1>11, <1>12, <1>13 DEF RetrievalInv, ReadInv, BatchInv

-----------------------------------------------------------------------------
(* The theorems *)

\* What a retrieval knows at each of its waits: what was read, what is in flight
\* and where each log is (CombinedCalculator).
THEOREM RetrievalInvariant == RetrievalSpec => []RetrievalInv
<1>1. RetrievalInv /\ [RetrievalNext]_retrievalVars => RetrievalInv'
  <2> SUFFICES ASSUME RetrievalInv, [RetrievalNext]_retrievalVars PROVE RetrievalInv'
    OBVIOUS
  <2>1. CASE UNCHANGED retrievalVars
    <3>1. UNCHANGED <<Wanted, Passed>>
      BY <2>1 DEF retrievalVars, Wanted, Passed
    <3> QED
      BY <2>1, <3>1
         DEF retrievalVars, RetrievalInv, TypeOK, ReadInv, BatchInv, SerialInv, AccountInv, CountersAgree,
             HistoryInv, Fresh, InFlight, Retried
  <2> QED
    BY <2>1, AskStep, ScanFailsStep, ScanChunkStep, ScanLastChunkStep, ReplyStep,
       BatchReturnsStep, BatchFallsBackStep, RetrySucceedsStep, RetryAgainStep, RetryFailsStep
       DEF RetrievalNext, Progress
<1> QED
  BY <1>1, InvInit, PTL DEF RetrievalSpec

\* Types in every state, over any logs and any ranges (CombinedCalculator).
THEOREM RetrievalTypeCorrect == RetrievalSpec => []TypeOK
<1>1. RetrievalInv => TypeOK
  BY DEF RetrievalInv
<1> QED
  BY <1>1, RetrievalInvariant, PTL

\* Every log of the range that can be read is, once, in the totals or among the
\* partial failures or still being retried, wherever chunks begin, whatever fails
\* and whatever is retried (calculate_combined_data_with).
THEOREM LogsAreAccountedOnce == RetrievalSpec => []AccountedOnce
<1>1. RetrievalInv => AccountedOnce
  <2> SUFFICES ASSUME RetrievalInv, phase \in {"serial", "done"}
               PROVE  LET all == result.data \o LogsOf(result.failures) \o LogsOf(queue)
                      IN  IsInjective(all) /\ ToSet(all) = Wanted
    BY DEF AccountedOnce, Wanted
  <2>1. PICK D, F, Q : /\ Lists(result.data, D) /\ Lists(LogsOf(result.failures), F)
                       /\ Lists(LogsOf(queue), Q)
                       /\ D \cap F = {} /\ D \cap Q = {} /\ F \cap Q = {}
                       /\ D \cup F \cup Q = Wanted
    BY DEF RetrievalInv, AccountInv
  <2>2. Lists(result.data \o LogsOf(result.failures), D \cup F)
    BY <2>1, ConcatLists
  <2>3. Lists(result.data \o LogsOf(result.failures) \o LogsOf(queue), (D \cup F) \cup Q)
    BY <2>1, <2>2, ConcatLists
  <2> DEFINE all == result.data \o LogsOf(result.failures) \o LogsOf(queue)
  <2> HIDE DEF all
  <2>4. Lists(all, Wanted)
    BY <2>1, <2>3 DEF all
  <2>5. DOMAIN all = 1 .. Len(all) /\ \A i \in 1 .. Len(all) : all[i] \in Wanted
    BY <2>4 DEF Lists
  <2>6. IsInjective(all)
    BY <2>4, <2>5 DEF Lists, IsInjective
  <2>7. ToSet(all) = Wanted
    BY <2>4, <2>5 DEF Lists, ToSet
  <2> QED
    BY <2>6, <2>7 DEF all
<1> QED
  BY <1>1, RetrievalInvariant, PTL

\* The metadata agree with each other: skipped logs are the partial failures,
\* recovered ones are in the totals, and the attempts are those that made them so
\* (retry_failed).
THEOREM MetadataAgree == RetrievalSpec => []CountersAgree
<1>1. RetrievalInv => CountersAgree
  BY DEF RetrievalInv
<1> QED
  BY <1>1, RetrievalInvariant, PTL

\* A partial failure tells all that was tried: the batch first, then as many
\* serial attempts as are configured (retry_failed).
THEOREM HistoriesAreWhole == RetrievalSpec => []HistoryIsWhole
<1>1. RetrievalInv => HistoryIsWhole
  <2> SUFFICES ASSUME RetrievalInv, NEW f \in ToSet(result.failures)
               PROVE  History(f.attempts, MaxAttempts)
    BY DEF HistoryIsWhole, History
  <2>1. DOMAIN result.failures = 1 .. Len(result.failures)
    BY DEF RetrievalInv, TypeOK
  <2>2. PICK i \in 1 .. Len(result.failures) : f = result.failures[i]
    BY <2>1 DEF ToSet
  <2> QED
    BY <2>2 DEF RetrievalInv, HistoryInv
<1> QED
  BY <1>1, RetrievalInvariant, PTL

\* "Intentionally sequential across failures": the fallback never has lookups of
\* two logs in flight (retry_failed).
THEOREM FallbackIsSequential == RetrievalSpec => []OneAtATime
<1>1. RetrievalInv => OneAtATime
  BY DEF RetrievalInv, SerialInv, OneAtATime
<1> QED
  BY <1>1, RetrievalInvariant, PTL
=============================================================================
