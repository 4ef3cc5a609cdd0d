--------------------------- MODULE DiskCache_proofs ---------------------------
(* Proofs about DiskCache, for every number of callers, files, keys and        *)
(* windows: that the lock keeps the files whole and the entries of others, and *)
(* that a directory of cache files is a BlockWindowCache.                      *)
EXTENDS DiskCache, FiniteSetTheorems, TLAPS

\* A call whose insert has been computed
Prepared == {"truncating", "filling", "renaming"}

\* Who writes a file is alone with it.
WriterIsAlone ==
    \A c, d \in Callers :
        c # d /\ PathOf[c] = PathOf[d] /\ pc[c] \in Writing => pc[d] = "idle"

\* An insert has a window to write.
InsertsHaveAWindow == \A c \in Callers : pc[c] \in Inserting => arg[c].window \in Windows

\* What is about to be renamed is what was to be written.
TempIsFilled == \A c \in Callers : pc[c] = "renaming" => temp[TempOf[PathOf[c]]] = File(data[c])

\* What is to be written is the new entry and what is in the file, or less.
DataIsUpdate ==
    \A c \in Callers : pc[c] \in Prepared =>
        \A k \in Keys : data[c][k].window \in
            {IF k = arg[c].key THEN arg[c].window ELSE file[PathOf[c]].entries[k].window, NoWindow}

\* It is less only where there is no room, unless the file could not be read.
KeepsTheRestOf(c) ==
    \/ Present(file[PathOf[c]].entries) \subseteq Present(data[c])
    \/ Cardinality(Present(data[c])) = MaxEntries

DataKeepsTheRest ==
    \A c \in Callers \ FailingReaders : pc[c] \in Prepared => KeepsTheRestOf(c)

DiskInv == /\ TypeOK /\ WriterIsAlone /\ InsertsHaveAWindow /\ TempIsFilled /\ FileIsWhole
           /\ DataIsUpdate /\ DataKeepsTheRest

\* Cache files that have a temporary file each
TempsAreApart == \A p, q \in Paths : TempOf[p] = TempOf[q] => p = q

-----------------------------------------------------------------------------
(* Eviction *)

\* Entries are created at some time, and of two one is older (evict_oldest).
LEMMA OlderIsTotal ==
    ASSUME NEW contents \in Contents
    PROVE  /\ \A j, k \in Present(contents) : j # k => Older(contents, j, k) \/ Older(contents, k, j)
           /\ \A k \in Present(contents) : ~Older(contents, k, k)
           /\ \A i, j, k \in Present(contents) :
                 Older(contents, i, j) /\ Older(contents, j, k) => Older(contents, i, k)
<1>1. \A k \in Present(contents) : k \in Int /\ contents[k].created \in Nat
  BY DiskCacheAssumption DEF Present, Contents, Entries, NoEntry
<1> QED
  BY <1>1 DEF Older

\* Either all entries stay, or as many as there is room for (evict_oldest).
LEMMA NewestStay ==
    ASSUME NEW contents \in Contents
    PROVE  \/ Present(Evicted(contents)) = Present(contents)
           \/ Cardinality(Present(Evicted(contents))) = MaxEntries
<1> DEFINE S == Present(contents)
           n == Cardinality(S)
           N(k) == Newer(contents, k)
           rank == [k \in S |-> Cardinality(N(k))]
           T == {k \in S : rank[k] < MaxEntries}
<1>1. IsFiniteSet(S) /\ n \in Nat
  <2>1. S \in SUBSET Keys
    BY DEF Present
  <2> QED
    BY <2>1, DiskCacheAssumption, FS_Subset, FS_CardinalityType
<1>2. ASSUME NEW k \in S
      PROVE  IsFiniteSet(N(k)) /\ Cardinality(N(k)) \in 0 .. n - 1
  <2>1. N(k) \in SUBSET (S \ {k})
    BY OlderIsTotal DEF Newer
  <2>2. IsFiniteSet(S \ {k}) /\ Cardinality(S \ {k}) = n - 1
    BY <1>1, FS_RemoveElement
  <2>3. IsFiniteSet(N(k)) /\ Cardinality(N(k)) <= n - 1 /\ Cardinality(N(k)) \in Nat
    BY <2>1, <2>2, FS_Subset, FS_CardinalityType
  <2> QED
    BY <1>1, <2>3
<1>3. ASSUME NEW j \in S, NEW k \in S, Older(contents, k, j)
      PROVE  Cardinality(N(j)) < Cardinality(N(k))
  <2>1. N(j) \cup {j} \in SUBSET N(k) /\ j \notin N(j)
    BY <1>3, OlderIsTotal DEF Newer
  <2>2. IsFiniteSet(N(j)) /\ IsFiniteSet(N(k))
        /\ Cardinality(N(j)) \in Nat /\ Cardinality(N(k)) \in Nat
    BY <1>1, <1>2
  <2>3. Cardinality(N(j) \cup {j}) = Cardinality(N(j)) + 1
    BY <2>1, <2>2, FS_AddElement
  <2>4. Cardinality(N(j) \cup {j}) <= Cardinality(N(k))
    BY <2>1, <2>2, FS_Subset
  <2> QED
    BY <2>2, <2>3, <2>4
<1>4. ASSUME NEW j \in S, NEW k \in S, rank[j] = rank[k]
      PROVE  j = k
  <2>1. Cardinality(N(j)) = Cardinality(N(k)) /\ Cardinality(N(j)) \in Nat
    BY <1>1, <1>2, <1>4
  <2>2. ~Older(contents, j, k) /\ ~Older(contents, k, j)
    BY <1>3, <2>1
  <2> QED
    BY <2>2, OlderIsTotal
<1>5. rank \in Injection(S, 0 .. n - 1)
  BY <1>2, <1>4 DEF Injection, IsInjective
<1>6. rank \in Surjection(S, 0 .. n - 1)
  <2>1. IsFiniteSet(0 .. n - 1) /\ Cardinality(0 .. n - 1) = n
    BY <1>1, FS_Interval
  <2> QED
    BY <1>5, <2>1, FS_Injection
<1>7. Present(Evicted(contents)) = T
  BY DEF Present, Evicted
<1>8. CASE n <= MaxEntries
  <2>1. \A k \in S : rank[k] < MaxEntries
    BY <1>1, <1>2, <1>8, DiskCacheAssumption
  <2> QED
    BY <1>7, <2>1
<1>9. CASE MaxEntries < n
  <2> DEFINE g == [k \in T |-> rank[k]]
  <2>1. g \in Injection(T, 0 .. MaxEntries - 1)
    <3>1. \A k \in T : rank[k] \in 0 .. MaxEntries - 1
      BY <1>1, <1>2, DiskCacheAssumption
    <3>2. \A j, k \in T : rank[j] = rank[k] => j = k
      BY <1>4
    <3> HIDE DEF rank, T
    <3> QED
      BY <3>1, <3>2 DEF Injection, IsInjective
  <2>2. g \in Surjection(T, 0 .. MaxEntries - 1)
    <3>1. ASSUME NEW i \in 0 .. MaxEntries - 1 PROVE \E k \in T : g[k] = i
      <4>1. i \in 0 .. n - 1 /\ i < MaxEntries
        BY <1>1, <1>9, DiskCacheAssumption
      <4>2. PICK k \in S : rank[k] = i
        BY <1>6, <4>1 DEF Surjection
      <4> QED
        BY <4>1, <4>2
    <3> QED
      BY <2>1, <3>1 DEF Injection, Surjection
  <2>3. IsFiniteSet(0 .. MaxEntries - 1) /\ Cardinality(0 .. MaxEntries - 1) = MaxEntries
    BY FS_Interval, DiskCacheAssumption
  <2> HIDE DEF g, T
  <2>4. Cardinality(T) = MaxEntries
    BY <2>1, <2>2, <2>3, FS_Injection
  <2> QED
    BY <1>7, <2>4
<1> QED
  BY <1>1, <1>8, <1>9, DiskCacheAssumption

-----------------------------------------------------------------------------
(* Types *)

LEMMA FileTypes ==
    /\ Garbled \in Files /\ Absent \in Files
    /\ NoEntries \in Contents
    /\ NoArg \in [key : Keys, window : Windows \cup {NoWindow}]
  BY DiskCacheAssumption DEF Garbled, Absent, Files, NoEntries, Contents, Entries, NoArg

\* What an insert writes is a file's contents, with the new entry and entries
\* that were there, or less (insert).
LEMMA WithIsUpdate ==
    ASSUME NEW contents \in Contents, NEW a \in [key : Keys, window : Windows], now \in Nat
    PROVE  /\ With(contents, a) \in Contents
           /\ \A k \in Keys : With(contents, a)[k].window \in
                 {IF k = a.key THEN a.window ELSE contents[k].window, NoWindow}
           /\ \/ Present(contents) \subseteq Present(With(contents, a))
              \/ Cardinality(Present(With(contents, a))) = MaxEntries
<1> DEFINE new == [window |-> a.window, created |-> now]
           added == [contents EXCEPT ![a.key] = new]
<1>1. new \in Entries /\ new # NoEntry /\ new.window = a.window
  BY DiskCacheAssumption DEF Entries, NoEntry
<1>2. added \in Contents /\ \A k \in Keys : added[k] = IF k = a.key THEN new ELSE contents[k]
  BY <1>1 DEF Contents
<1>3. With(contents, a) = Evicted(added)
  BY DEF With
<1>4. Present(contents) \subseteq Present(added)
  BY <1>1, <1>2 DEF Present
<1> HIDE DEF new, added
<1>5. \A k \in Keys : Evicted(added)[k] \in {added[k], NoEntry}
  BY DEF Evicted
<1>6. Evicted(added) \in Contents
  BY <1>2, <1>5 DEF Evicted, Contents, Entries
<1>7. NoEntry.window = NoWindow
  BY DEF NoEntry
<1>8. \A k \in Keys : Evicted(added)[k].window \in
        {IF k = a.key THEN a.window ELSE contents[k].window, NoWindow}
  BY <1>1, <1>2, <1>5, <1>7
<1>9. Present(Evicted(added)) = Present(added) \/ Cardinality(Present(Evicted(added))) = MaxEntries
  BY <1>2, NewestStay
<1> QED
  BY <1>3, <1>4, <1>6, <1>8, <1>9

\* What a get finds is what the file holds, or nothing (get).
LEMMA FoundIsHeld ==
    ASSUME NEW contents \in Contents, NEW k \in Keys
    PROVE  /\ Found(contents, k) \in {contents[k].window, NoWindow}
           /\ contents[k].window \in Windows \cup {NoWindow}
  BY DEF Found, Contents, Entries, NoEntry

Step(c) == Get(c) \/ Insert(c) \/ Clear(c) \/ Stop(c)

\* The fields of a call's step, one by one.
LEMMA ArgTypes ==
    ASSUME TypeOK, NEW c \in Callers
    PROVE  /\ arg[c].key \in Keys /\ PathOf[c] \in Paths /\ TempOf[PathOf[c]] \in Temps
           /\ file[PathOf[c]] \in Files /\ file[PathOf[c]].entries \in Contents
           /\ data[c] \in Contents
  BY DEF TypeOK, Paths, Temps, Files

\* Types of the variables, step by step (DiskCache).
LEMMA TypeStep ==
    ASSUME TypeOK, InsertsHaveAWindow, NEW c \in Callers, Step(c)
    PROVE  TypeOK'
<1> USE DEF TypeOK, Goto, Writing, Inserting
<1>1. /\ arg[c].key \in Keys /\ PathOf[c] \in Paths /\ TempOf[PathOf[c]] \in Temps
      /\ file[PathOf[c]] \in Files /\ file[PathOf[c]].entries \in Contents
      /\ data[c] \in Contents
  BY ArgTypes
<1>2. ASSUME Leave(c)
      PROVE  /\ pc' \in [Callers -> Writing \cup {"idle", "reading"}]
             /\ arg' \in [Callers -> [key : Keys, window : Windows \cup {NoWindow}]]
             /\ data' \in [Callers -> Contents]
  BY <1>2, FileTypes DEF Leave
<1>3. CASE \E k \in Keys : GetLock(c, k)
  BY <1>3 DEF GetLock
<1>4. CASE Read(c)
  <2>1. PICK w \in Windows \cup {NoWindow} : got' = [got EXCEPT ![c][arg[c].key] = w]
    BY <1>1, <1>4, FoundIsHeld DEF Read
  <2>2. got' \in [Callers -> [Keys -> Windows \cup {NoWindow}]]
    BY <1>1, <2>1
  <2> QED
    BY <1>2, <1>4, <2>2 DEF Read
<1>5. CASE \E k \in Keys, w \in Windows : InsertLock(c, k, w)
  BY <1>5 DEF InsertLock
<1>6. CASE Load(c)
  <2>1. arg[c] \in [key : Keys, window : Windows]
    BY <1>6 DEF Load, InsertsHaveAWindow
  <2>2. With(file[PathOf[c]].entries, arg[c]) \in Contents /\ With(NoEntries, arg[c]) \in Contents
    BY <1>1, <2>1, WithIsUpdate, FileTypes
  <2>3. data' \in [Callers -> Contents]
    BY <1>6, <2>2 DEF Load
  <2> QED
    BY <1>6, <2>3 DEF Load
<1>7. CASE Truncate(c)
  BY <1>1, <1>7, FileTypes DEF Truncate
<1>8. CASE Fill(c)
  <2>1. File(data[c]) \in Files
    BY <1>1 DEF File, Files
  <2> QED
    BY <1>1, <1>8, <2>1 DEF Fill
<1>9. CASE Rename(c)
  <2>1. file' \in [Paths -> Files] /\ temp' \in [Temps -> Files]
    BY <1>1, <1>9, FileTypes DEF Rename
  <2> QED
    BY <1>2, <1>9, <2>1 DEF Rename
<1>10. CASE ClearLock(c)
  BY <1>10 DEF ClearLock
<1>11. CASE Remove(c)
  <2>1. file' \in [Paths -> Files]
    BY <1>1, <1>11, FileTypes DEF Remove
  <2> QED
    BY <1>2, <1>11, <2>1 DEF Remove
<1>12. CASE Stop(c)
  BY <1>2, <1>12 DEF Stop
<1> QED
  BY <1>3, <1>4, <1>5, <1>6, <1>7, <1>8, <1>9, <1>10, <1>11, <1>12 DEF Step, Get, Insert, Clear

\* A call changes its own frame only.
LEMMA OthersStay ==
    ASSUME TypeOK, NEW c \in Callers, Step(c), NEW d \in Callers, d # c
    PROVE  pc'[d] = pc[d] /\ arg'[d] = arg[d] /\ data'[d] = data[d]
  BY DEF TypeOK, Step, Get, Insert, Clear, Stop, GetLock, Read, InsertLock, Load, Truncate, Fill,
         Rename, ClearLock, Remove, Leave, Goto

\* A call that takes the lock waits for who would disturb it (get, insert, clear).
LEMMA LockStep ==
    ASSUME TypeOK, WriterIsAlone, NEW c \in Callers, Step(c)
    PROVE  WriterIsAlone'
<1> SUFFICES ASSUME NEW d \in Callers, NEW e \in Callers, d # e, PathOf[d] = PathOf[e],
                    pc'[d] \in Writing
             PROVE  pc'[e] = "idle"
  BY DEF WriterIsAlone
<1>1. CASE d # c /\ e # c
  BY <1>1, OthersStay DEF WriterIsAlone
<1>2. CASE d = c
  <2>1. pc'[e] = pc[e]
    BY <1>2, OthersStay
  <2>2. CASE pc[c] \in Writing
    BY <1>2, <2>1, <2>2 DEF WriterIsAlone
  <2>3. CASE pc[c] \notin Writing
    <3>1. CanExclude(c)
      BY <1>2, <2>3 DEF TypeOK, Step, Get, Insert, Clear, Stop, GetLock, Read, InsertLock, Load,
                        Truncate, Fill, Rename, ClearLock, Remove, Leave, Goto, Writing, Inserting
    <3> QED
      BY <1>2, <2>1, <3>1 DEF CanExclude, Beside
  <2> QED
    BY <2>2, <2>3
<1>3. CASE e = c
  <2>1. pc[d] \in Writing
    BY <1>3, OthersStay
  <2>2. pc[c] = "idle"
    BY <1>3, <2>1 DEF WriterIsAlone
  <2>3. ~CanShare(c) /\ ~CanExclude(c)
    BY <1>3, <2>1 DEF CanShare, CanExclude, Beside, Writing, Inserting
  <2>4. FALSE
    BY <2>2, <2>3 DEF Step, Get, Insert, Clear, Stop, GetLock, Read, InsertLock, Load,
                      Truncate, Fill, Rename, ClearLock, Remove
  <2> QED
    BY <2>4
<1> QED
  BY <1>1, <1>2, <1>3

\* Nobody touches the files of a call that writes (the file lock).
LEMMA FilesStay ==
    ASSUME TypeOK, WriterIsAlone, TempsAreApart, NEW c \in Callers, Step(c),
           NEW d \in Callers, d # c, pc[d] \in Writing
    PROVE  /\ file'[PathOf[d]] = file[PathOf[d]]
           /\ temp'[TempOf[PathOf[d]]] = temp[TempOf[PathOf[d]]]
<1>1. PathOf[c] \in Paths /\ PathOf[d] \in Paths /\ TempOf[PathOf[d]] \in Temps
  BY DEF Paths, Temps
<1>2. CASE PathOf[c] = PathOf[d]
  <2>1. pc[c] = "idle"
    BY <1>2 DEF WriterIsAlone
  <2> QED
    BY <2>1 DEF Step, Get, Insert, Clear, Stop, GetLock, Read, InsertLock, Load, Truncate, Fill,
                Rename, ClearLock, Remove
<1>3. CASE PathOf[c] # PathOf[d]
  <2>1. TempOf[PathOf[c]] # TempOf[PathOf[d]]
    BY <1>1, <1>3 DEF TempsAreApart
  <2> QED
    BY <1>1, <1>3, <2>1
       DEF TypeOK, Step, Get, Insert, Clear, Stop, GetLock, Read, InsertLock, Load, Truncate, Fill,
           Rename, ClearLock, Remove
<1> QED
  BY <1>2, <1>3

-----------------------------------------------------------------------------
(* The invariant *)

\* An insert that has its window keeps it, and its temporary file (insert).
LEMMA InsertStep ==
    ASSUME DiskInv, TempsAreApart, NEW c \in Callers, Step(c)
    PROVE  InsertsHaveAWindow' /\ TempIsFilled'
<1> USE DEF DiskInv, TypeOK, Goto
<1>1. ASSUME NEW d \in Callers, d # c
      PROVE  /\ pc'[d] \in Inserting => arg'[d].window \in Windows
             /\ pc'[d] = "renaming" => temp'[TempOf[PathOf[d]]] = File(data'[d])
  BY <1>1, OthersStay, FilesStay DEF InsertsHaveAWindow, TempIsFilled, Writing, Inserting
<1>2. pc'[c] \in Inserting => arg'[c].window \in Windows
  BY DEF Step, Get, Insert, Clear, Stop, GetLock, Read, InsertLock, Load, Truncate, Fill, Rename,
         ClearLock, Remove, Leave, Inserting, InsertsHaveAWindow
<1>3. pc'[c] = "renaming" => temp'[TempOf[PathOf[c]]] = File(data'[c])
  <2>1. CASE Fill(c)
    BY <2>1, ArgTypes DEF Fill
  <2>2. CASE ~Fill(c)
    BY <2>2 DEF Step, Get, Insert, Clear, Stop, GetLock, Read, InsertLock, Load, Truncate, Rename,
                ClearLock, Remove, Leave
  <2> QED
    BY <2>1, <2>2
<1> QED
  BY <1>1, <1>2, <1>3 DEF InsertsHaveAWindow, TempIsFilled

\* A cache file is replaced by a whole one, or removed (insert, clear).
LEMMA WholeStep ==
    ASSUME DiskInv, NEW c \in Callers, Step(c)
    PROVE  FileIsWhole'
<1>1. CASE Rename(c)
  <2>1. temp[TempOf[PathOf[c]]] = File(data[c])
    BY <1>1 DEF DiskInv, TempIsFilled, Rename
  <2>2. File(data[c]) # Garbled
    BY DEF File, Garbled
  <2> QED
    BY <1>1, <2>1, <2>2 DEF DiskInv, FileIsWhole, TypeOK, Rename
<1>2. CASE Remove(c)
  <2>1. Absent # Garbled
    BY DEF Absent, Garbled
  <2> QED
    BY <1>2, <2>1 DEF DiskInv, FileIsWhole, TypeOK, Remove
<1>3. CASE ~Rename(c) /\ ~Remove(c)
  <2>1. file' = file
    BY <1>3 DEF Step, Get, Insert, Clear, Stop, GetLock, Read, InsertLock, Load, Truncate, Fill,
                ClearLock
  <2> QED
    BY <2>1 DEF DiskInv, FileIsWhole
<1> QED
  BY <1>1, <1>2, <1>3

\* What an insert has loaded is what it will replace (insert, under the lock).
LEMMA DataStep ==
    ASSUME DiskInv, TempsAreApart, NEW c \in Callers, Step(c)
    PROVE  DataIsUpdate' /\ DataKeepsTheRest'
<1>1. ASSUME NEW d \in Callers, pc[d] \in Prepared, pc'[d] \in Prepared,
             UNCHANGED <<arg[d], data[d]>>, file'[PathOf[d]] = file[PathOf[d]]
      PROVE  /\ \A k \in Keys : data'[d][k].window \in
                   {IF k = arg'[d].key THEN arg'[d].window ELSE file'[PathOf[d]].entries[k].window,
                    NoWindow}
             /\ d \notin FailingReaders => KeepsTheRestOf(d)'
  BY <1>1 DEF DiskInv, DataIsUpdate, DataKeepsTheRest, KeepsTheRestOf, Present
<1>2. ASSUME NEW d \in Callers, d # c, pc'[d] \in Prepared
      PROVE  /\ \A k \in Keys : data'[d][k].window \in
                   {IF k = arg'[d].key THEN arg'[d].window ELSE file'[PathOf[d]].entries[k].window,
                    NoWindow}
             /\ d \notin FailingReaders => KeepsTheRestOf(d)'
  <2>1. pc'[d] = pc[d] /\ arg'[d] = arg[d] /\ data'[d] = data[d]
    BY <1>2, OthersStay DEF DiskInv
  <2>2. file'[PathOf[d]] = file[PathOf[d]]
    BY <1>2, <2>1, FilesStay DEF DiskInv, Prepared, Writing, Inserting
  <2> QED
    BY <1>1, <1>2, <2>1, <2>2
<1>3. ASSUME pc'[c] \in Prepared
      PROVE  /\ \A k \in Keys : data'[c][k].window \in
                   {IF k = arg'[c].key THEN arg'[c].window ELSE file'[PathOf[c]].entries[k].window,
                    NoWindow}
             /\ c \notin FailingReaders => KeepsTheRestOf(c)'
  <2>1. CASE Load(c)
    <3>1. /\ file[PathOf[c]].entries \in Contents /\ NoEntries \in Contents /\ now \in Nat
          /\ arg[c] \in [key : Keys, window : Windows]
      BY <2>1, ArgTypes, FileTypes DEF DiskInv, TypeOK, InsertsHaveAWindow, Load, Inserting
    <3>2. arg' = arg /\ file' = file
      BY <2>1 DEF Load
    <3>3. \A k \in Keys : NoEntries[k].window = NoWindow
      BY DEF NoEntries, NoEntry
    <3>4. CASE data'[c] = With(file[PathOf[c]].entries, arg[c])
      <4>1. /\ \A k \in Keys : data'[c][k].window \in
                  {IF k = arg[c].key THEN arg[c].window ELSE file[PathOf[c]].entries[k].window,
                   NoWindow}
            /\ \/ Present(file[PathOf[c]].entries) \subseteq Present(data'[c])
               \/ Cardinality(Present(data'[c])) = MaxEntries
        BY <3>1, <3>4, WithIsUpdate
      <4>2. KeepsTheRestOf(c)'
        BY <3>2, <4>1 DEF KeepsTheRestOf, Present
      <4> QED
        BY <3>2, <4>1, <4>2
    <3>5. CASE data'[c] = With(NoEntries, arg[c]) /\ c \in FailingReaders
      BY <3>1, <3>2, <3>3, <3>5, WithIsUpdate
    <3> QED
      BY <2>1, <3>4, <3>5 DEF Load, DiskInv, TypeOK
  <2>2. CASE Truncate(c) \/ Fill(c)
    <3>1. pc[c] \in Prepared /\ UNCHANGED <<arg, data, file>>
      BY <2>2 DEF Truncate, Fill, Prepared
    <3> QED
      BY <1>1, <1>3, <3>1
  <2>3. CASE ~Load(c) /\ ~Truncate(c) /\ ~Fill(c)
    BY <1>3, <2>3 DEF DiskInv, TypeOK, Step, Get, Insert, Clear, Stop, GetLock, Read, InsertLock,
                      Rename, ClearLock, Remove, Leave, Goto, Prepared
  <2> QED
    BY <2>1, <2>2, <2>3
<1> QED
  BY <1>2, <1>3 DEF DataIsUpdate, DataKeepsTheRest

\* The lock, the files and what is about to be written hold in every state
\* (DiskCache).
THEOREM DiskInvariant ==
    ASSUME TempsAreApart
    PROVE  Spec => []DiskInv
<1>1. Init => DiskInv
  <2> SUFFICES ASSUME Init PROVE DiskInv
    OBVIOUS
  <2>1. TypeOK
    BY FileTypes DEF Init, TypeOK
  <2>2. \A c \in Callers : pc[c] = "idle"
    BY DEF Init
  <2>3. FileIsWhole
    BY DEF Init, FileIsWhole, Absent, Garbled
  <2> QED
    BY <2>1, <2>2, <2>3 DEF DiskInv, WriterIsAlone, InsertsHaveAWindow, TempIsFilled, DataIsUpdate,
                            DataKeepsTheRest, Writing, Inserting, Prepared
<1>2. DiskInv /\ [Next]_vars => DiskInv'
  <2> SUFFICES ASSUME DiskInv, [Next]_vars PROVE DiskInv'
    OBVIOUS
  <2>1. ASSUME NEW c \in Callers, Step(c) PROVE DiskInv'
    <3>1. TypeOK' /\ WriterIsAlone'
      BY <2>1, TypeStep, LockStep DEF DiskInv
    <3> QED
      BY <2>1, <3>1, InsertStep, WholeStep, DataStep DEF DiskInv
  <2>2. CASE Tick \/ StepBack \/ UNCHANGED vars
    <3>1. UNCHANGED <<file, temp, pc, arg, data, got>> /\ now' \in Nat
      BY <2>2 DEF Tick, StepBack, vars, DiskInv, TypeOK
    <3> QED
      BY <3>1 DEF DiskInv, TypeOK, WriterIsAlone, InsertsHaveAWindow, TempIsFilled, FileIsWhole,
                  DataIsUpdate, DataKeepsTheRest, KeepsTheRestOf, Present
  <2> QED
    BY <2>1, <2>2 DEF Next, Step
<1> QED
  BY <1>1, <1>2, PTL DEF Spec

\* However the calls of many processes fall and wherever one stops, no cache file
\* is half written, when each has a temporary file of its own (insert).
THEOREM FilesAreWhole ==
    ASSUME TempsAreApart
    PROVE  Spec => []FileIsWhole
<1>1. DiskInv => FileIsWhole
  BY DEF DiskInv
<1> QED
  BY <1>1, DiskInvariant, PTL

\* An insert that could read the file leaves the entries of all others in it,
\* unless there is no room (insert).
THEOREM InsertsLoseNothing ==
    ASSUME TempsAreApart
    PROVE  Spec => SoundInsertsKeepTheRest
<1>1. DiskInv => InsertsKeepTheRest(Callers \ FailingReaders)
  <2> SUFFICES ASSUME DiskInv, NEW c \in Callers \ FailingReaders, Rename(c)
               PROVE  LET p == PathOf[c]
                      IN  \/ Present(file[p].entries) \subseteq Present(file'[p].entries)
                          \/ Cardinality(Present(file'[p].entries)) = MaxEntries
    BY DEF InsertsKeepTheRest
  <2>1. PathOf[c] \in Paths
    BY DEF Paths
  <2>2. file'[PathOf[c]] = File(data[c])
    BY <2>1 DEF DiskInv, TypeOK, TempIsFilled, Rename
  <2>3. KeepsTheRestOf(c)
    BY DEF DiskInv, DataKeepsTheRest, Rename, Prepared
  <2>4. File(data[c]).entries = data[c]
    BY DEF File
  <2> QED
    BY <2>2, <2>3, <2>4 DEF KeepsTheRestOf
<1> QED
  BY <1>1, DiskInvariant, PTL DEF SoundInsertsKeepTheRest

-----------------------------------------------------------------------------
(* The refinement *)

\* A get answers with what the file holds, or with nothing (get).
LEMMA ReadRefines ==
    ASSUME TypeOK, NEW c \in Callers, Read(c)
    PROVE  Abstract!Next
<1> DEFINE p == PathOf[c]
           k == arg[c].key
           x == <<p, k>>
<1>1. k \in Keys /\ p \in Paths /\ x \in Paths \X Keys /\ file[p].entries \in Contents
  BY ArgTypes
<1>2. PICK w \in {Held[x], NoWindow} : got' = [got EXCEPT ![c][k] = w]
  <2>1. Held[x] = file[p].entries[k].window
    BY <1>1 DEF Held
  <2> QED
    BY <1>1, <2>1, FoundIsHeld DEF Read
<1>3. Got' = [Got EXCEPT ![c][x] = w]
  <2>1. got \in [Callers -> [Keys -> Windows \cup {NoWindow}]]
    BY DEF TypeOK
  <2>2. \A d \in Callers, y \in Paths \X Keys :
          (Got')[d][y] = IF d = c /\ y = x THEN w ELSE Got[d][y]
    <3> SUFFICES ASSUME NEW d \in Callers, NEW y \in Paths \X Keys
                 PROVE  (Got')[d][y] = IF d = c /\ y = x THEN w ELSE Got[d][y]
      OBVIOUS
    <3>1. /\ (Got')[d][y] = IF y[1] = PathOf[d] THEN got'[d][y[2]] ELSE NoWindow
          /\ Got[d][y] = IF y[1] = PathOf[d] THEN got[d][y[2]] ELSE NoWindow
      BY DEF Got
    <3>2. y = <<y[1], y[2]>> /\ y[2] \in Keys
      OBVIOUS
    <3>3. \A j \in Keys : got'[d][j] = IF d = c /\ j = k THEN w ELSE got[d][j]
      BY <1>1, <1>2, <2>1
    <3>4. y = x <=> y[1] = p /\ y[2] = k
      BY <3>2
    <3> QED
      BY <3>1, <3>2, <3>3, <3>4
  <2>3. \A d \in Callers : (Got')[d] = IF d = c THEN [Got[c] EXCEPT ![x] = w] ELSE Got[d]
    <3> SUFFICES ASSUME NEW d \in Callers
                 PROVE  (Got')[d] = IF d = c THEN [Got[c] EXCEPT ![x] = w] ELSE Got[d]
      OBVIOUS
    <3> DEFINE F == (Got')[d]
               G == Got[d]
               H == Got[c]
    <3>1. /\ F = [y \in Paths \X Keys |-> F[y]] /\ G = [y \in Paths \X Keys |-> G[y]]
          /\ H = [y \in Paths \X Keys |-> H[y]] /\ (d = c => G = H)
      BY DEF Got
    <3>2. \A y \in Paths \X Keys : F[y] = IF d = c /\ y = x THEN w ELSE G[y]
      BY <2>2
    <3> HIDE DEF F, G, H, x
    <3>3. d = c => F = [H EXCEPT ![x] = w]
      BY <3>1, <3>2
    <3>4. d # c => F = G
      BY <3>1, <3>2
    <3> QED
      BY <3>3, <3>4 DEF F, G, H
  <2> DEFINE A == Got'
             B == Got
  <2>4. A = [d \in Callers |-> A[d]] /\ B = [d \in Callers |-> B[d]]
    BY DEF Got
  <2>5. \A d \in Callers : A[d] = IF d = c THEN [B[c] EXCEPT ![x] = w] ELSE B[d]
    BY <2>3
  <2> HIDE DEF A, B, x
  <2>6. A = [B EXCEPT ![c][x] = w]
    BY <2>4, <2>5
  <2> QED
    BY <2>6 DEF A, B
<1>4. Held' = Held
  BY DEF Read, Held
<1>5. Asked' = Asked
  BY DEF Read, Leave, Goto, Asked, Inserting, TypeOK
<1>6. Abstract!Get(c, x)
  BY <1>2, <1>3, <1>4, <1>5 DEF Abstract!Get
<1> QED
  BY <1>1, <1>6 DEF Abstract!Next

\* An insert appears to the others at its rename, at once (insert).
LEMMA RenameRefines ==
    ASSUME DiskInv, NEW c \in Callers, Rename(c), TypeOK'
    PROVE  Abstract!Next
<1> DEFINE p == PathOf[c]
           k == arg[c].key
           a == <<<<p, k>>, arg[c].window>>
<1>1. k \in Keys /\ p \in Paths
  BY ArgTypes DEF DiskInv
<1>2. a \in Asked[c]
  BY DEF Rename, Asked, Inserting
<1>3. Asked' = [Asked EXCEPT ![c] = {}]
  BY DEF DiskInv, TypeOK, Rename, Leave, Goto, Asked, Inserting
<1>4. Held' \in [Paths \X Keys -> Windows \cup {NoWindow}]
  BY DEF TypeOK, Held, Files, Contents, Entries, NoEntry
<1>5. file' = [file EXCEPT ![p] = File(data[c])]
  BY DEF DiskInv, TempIsFilled, Rename
<1>6. \A x \in Paths \X Keys : Held'[x] \in {[Held EXCEPT ![a[1]] = a[2]][x], NoWindow}
  <2> SUFFICES ASSUME NEW q \in Paths, NEW j \in Keys
               PROVE  Held'[<<q, j>>] \in {[Held EXCEPT ![a[1]] = a[2]][<<q, j>>], NoWindow}
    OBVIOUS
  <2>1. /\ Held[<<q, j>>] = file[q].entries[j].window
        /\ Held'[<<q, j>>] = file'[q].entries[j].window
    BY DEF Held
  <2>2. [Held EXCEPT ![a[1]] = a[2]][<<q, j>>] =
            IF q = p /\ j = k THEN arg[c].window ELSE Held[<<q, j>>]
    BY DEF Held
  <2>3. file'[q] = IF q = p THEN File(data[c]) ELSE file[q]
    BY <1>5 DEF DiskInv, TypeOK
  <2>4. data[c][j].window \in
          {IF j = k THEN arg[c].window ELSE file[p].entries[j].window, NoWindow}
    BY DEF DiskInv, DataIsUpdate, Rename, Prepared
  <2>5. File(data[c]).entries = data[c]
    BY DEF File
  <2> HIDE DEF a
  <2> QED
    BY <2>1, <2>2, <2>3, <2>4, <2>5
<1>7. Abstract!Lost([Held EXCEPT ![a[1]] = a[2]], Held')
  BY <1>6 DEF Abstract!Lost
<1>8. Got' = Got
  BY DEF Rename, Got
<1>9. Abstract!Insert(c)
  BY <1>2, <1>3, <1>4, <1>7, <1>8 DEF Abstract!Insert
<1> QED
  BY <1>9 DEF Abstract!Next

\* A clear loses entries (clear).
LEMMA RemoveRefines ==
    ASSUME TypeOK, NEW c \in Callers, Remove(c), TypeOK'
    PROVE  Abstract!Next
<1>1. Held' \in [Paths \X Keys -> Windows \cup {NoWindow}]
  BY DEF TypeOK, Held, Files, Contents, Entries, NoEntry
<1>2. \A x \in Paths \X Keys : Held'[x] \in {Held[x], NoWindow}
  BY DEF Held, TypeOK, Remove, Absent, NoEntries, NoEntry
<1>3. Asked' = Asked /\ Got' = Got
  <2>1. Asked' = Asked
    BY DEF TypeOK, Remove, Leave, Goto, Asked, Inserting
  <2>2. Got' = Got
    BY DEF Remove, Got
  <2> QED
    BY <2>1, <2>2
<1>4. Abstract!Lose
  BY <1>1, <1>2, <1>3 DEF Abstract!Lose, Abstract!Lost
<1> QED
  BY <1>4 DEF Abstract!Next

\* An insert that takes the lock is in flight (insert).
LEMMA InsertLockRefines ==
    ASSUME TypeOK, NEW c \in Callers, NEW k \in Keys, NEW w \in Windows, InsertLock(c, k, w)
    PROVE  Abstract!Next
<1>1. <<PathOf[c], k>> \in Paths \X Keys
  BY DEF Paths
<1>2. Asked[c] = {}
  BY DEF InsertLock, Asked, Inserting
<1>3. Asked' = [Asked EXCEPT ![c] = {<<<<PathOf[c], k>>, w>>}]
  BY DEF TypeOK, InsertLock, Goto, Asked, Inserting
<1>4. Held' = Held /\ Got' = Got
  BY DEF InsertLock, Held, Got
<1>5. Abstract!InsertBegins(c, <<PathOf[c], k>>, w)
  BY <1>2, <1>3, <1>4 DEF Abstract!InsertBegins
<1> QED
  BY <1>1, <1>5 DEF Abstract!Next

\* A call that stops has inserted nothing (the errors of insert, or a crash).
LEMMA StopRefines ==
    ASSUME TypeOK, NEW c \in Callers, Stop(c)
    PROVE  Abstract!Next
<1>1. Asked' = [Asked EXCEPT ![c] = {}]
  BY DEF TypeOK, Stop, Leave, Goto, Asked, Inserting
<1>2. Held' = Held /\ Got' = Got
  BY DEF Stop, Held, Got
<1>3. Abstract!InsertFails(c)
  BY <1>1, <1>2 DEF Abstract!InsertFails
<1> QED
  BY <1>3 DEF Abstract!Next

\* The cache files of many processes are one cache: a get answers with what was
\* inserted last under its key or with nothing, whoever crashes (DiskCache).
THEOREM DiskImplementsBlockWindowCache ==
    ASSUME TempsAreApart
    PROVE  Spec => IsBlockWindowCache
<1>1. Init => Abstract!Init
  BY DEF Init, Abstract!Init, Held, Got, Asked, Absent, NoEntries, NoEntry, Inserting
<1>2. DiskInv /\ DiskInv' /\ [Next]_vars => [Abstract!Next]_(Abstract!vars)
  <2> SUFFICES ASSUME DiskInv, DiskInv', [Next]_vars
               PROVE  Abstract!Next \/ Abstract!vars' = Abstract!vars
    OBVIOUS
  <2> USE DEF DiskInv
  <2>1. ASSUME NEW c \in Callers, Read(c) \/ Rename(c) \/ Remove(c) \/ Stop(c)
        PROVE  Abstract!Next
    BY <2>1, ReadRefines, RenameRefines, RemoveRefines, StopRefines
  <2>2. ASSUME NEW c \in Callers, NEW k \in Keys, NEW w \in Windows, InsertLock(c, k, w)
        PROVE  Abstract!Next
    BY <2>2, InsertLockRefines
  <2>3. ASSUME NEW c \in Callers,
               (\E k \in Keys : GetLock(c, k)) \/ Load(c) \/ Truncate(c) \/ Fill(c) \/ ClearLock(c)
        PROVE  Abstract!vars' = Abstract!vars
    <3>1. UNCHANGED <<file, got>>
      BY <2>3 DEF GetLock, Load, Truncate, Fill, ClearLock
    <3>2. Held' = Held /\ Got' = Got
      BY <3>1 DEF Held, Got
    <3>3. Asked' = Asked
      BY <2>3 DEF TypeOK, GetLock, Load, Truncate, Fill, ClearLock, Goto, Asked, Inserting
    <3> QED
      BY <3>2, <3>3 DEF Abstract!vars
  <2>4. CASE Tick \/ StepBack \/ UNCHANGED vars
    <3>1. UNCHANGED <<file, temp, pc, arg, data, got>>
      BY <2>4 DEF Tick, StepBack, vars
    <3> QED
      BY <3>1 DEF Abstract!vars, Held, Got, Asked
  <2> QED
    BY <2>1, <2>2, <2>3, <2>4 DEF Next, Get, Insert, Clear
<1> QED
  BY <1>1, <1>2, DiskInvariant, PTL DEF Spec, IsBlockWindowCache, Abstract!Spec
=============================================================================
