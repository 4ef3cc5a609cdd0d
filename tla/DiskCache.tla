------------------------------ MODULE DiskCache ------------------------------
(***************************************************************************)
(* DiskCache (src/blocks/cache/disk.rs): calls on one or more cache files   *)
(* from several instances or processes, each under an advisory lock on the  *)
(* file's companion, with writes that go to a temporary file and are        *)
(* renamed.  Any call may fail, or its process die, at any step.            *)
(*                                                                         *)
(* The lock is a guard of the call's own frame: it is held exactly while    *)
(* the call is between its first step and its last, and dies with it.       *)
(***************************************************************************)
EXTENDS Integers, FiniteSets

CONSTANTS
    Callers,     \* calls, each on an instance of its own
    PathOf,      \* the cache file of each caller
    TempOf,      \* path.with_extension("tmp") of each cache file
    Keys,        \* CacheKey, as numbers in the order of their strings
    Windows,     \* DailyBlockWindow
    NoWindow,    \* None
    MaxEntries,  \* max_entries, at least Cardinality(Keys) for no limit
    Ttl,         \* ttl, at least MaxTime for none
    MaxTime,     \* bound on the clock
    ClockSteps,  \* whether the system clock may be set back
    FailingReaders \* the callers whose opening or parsing of a sound file may fail

ASSUME DiskCacheAssumption ==
    /\ Keys \subseteq Int /\ IsFiniteSet(Keys) /\ Keys # {}
    /\ NoWindow \notin Windows
    /\ MaxEntries \in Nat /\ Ttl \in Nat /\ MaxTime \in Nat
    /\ ClockSteps \in BOOLEAN /\ FailingReaders \subseteq Callers

Paths == {PathOf[c] : c \in Callers}
Temps == {TempOf[p] : p \in Paths}

VARIABLES
    now,    \* SystemTime, in milliseconds
    file,   \* the cache files
    temp,   \* the temporary files
    pc,     \* where each call is
    arg,    \* its key and window
    data,   \* what an insert is about to write
    got     \* what the last get of each caller has returned for each key

vars == <<now, file, temp, pc, arg, data, got>>

NoEntry == [window |-> NoWindow, created |-> 0]
Entries == [window : Windows, created : Nat] \cup {NoEntry}
Contents == [Keys -> Entries]
NoEntries == [k \in Keys |-> NoEntry]

\* A file: whole, or one that does not parse, or none
Files == [is : {"whole", "garbled", "absent"}, entries : Contents]
File(entries) == [is |-> "whole", entries |-> entries]
Garbled == [is |-> "garbled", entries |-> NoEntries]
Absent == [is |-> "absent", entries |-> NoEntries]

NoArg == [key |-> CHOOSE k \in Keys : TRUE, window |-> NoWindow]

Init ==
    /\ now = 0
    /\ file = [p \in Paths |-> Absent]
    /\ temp = [f \in Temps |-> Absent]
    /\ pc = [c \in Callers |-> "idle"]
    /\ arg = [c \in Callers |-> NoArg]
    /\ data = [c \in Callers |-> NoEntries]
    /\ got = [c \in Callers |-> [k \in Keys |-> NoWindow]]

-----------------------------------------------------------------------------
(* The lock *)

Inserting == {"loading", "truncating", "filling", "renaming"}
Writing == Inserting \cup {"removing"}

Beside(c) == {d \in Callers \ {c} : PathOf[d] = PathOf[c]}

CanShare(c) == \A d \in Beside(c) : pc[d] \notin Writing

\* A bug: an insert does not wait for the lock
CanExcludeNobody(c) == TRUE

CanExclude(c) == \A d \in Beside(c) : pc[d] = "idle"

Goto(c, l) == pc' = [pc EXCEPT ![c] = l]

\* The call returns: its locals are gone
Leave(c) ==
    /\ Goto(c, "idle")
    /\ arg' = [arg EXCEPT ![c] = NoArg]
    /\ data' = [data EXCEPT ![c] = NoEntries]

-----------------------------------------------------------------------------
(* get *)

Expired(e) == now - e.created > Ttl

\* The lookup in what was loaded; what does not parse has no entries
Found(contents, k) ==
    IF contents[k] = NoEntry \/ Expired(contents[k])
    THEN NoWindow
    ELSE contents[k].window

GetLock(c, k) ==
    /\ pc[c] = "idle" /\ CanShare(c)
    /\ Goto(c, "reading")
    /\ arg' = [arg EXCEPT ![c] = [key |-> k, window |-> NoWindow]]
    /\ UNCHANGED <<now, file, temp, data, got>>

\* A load that fails is a miss
Read(c) ==
    /\ pc[c] = "reading"
    /\ \/ got' = [got EXCEPT ![c][arg[c].key] = Found(file[PathOf[c]].entries, arg[c].key)]
       \/ /\ c \in FailingReaders
          /\ got' = [got EXCEPT ![c][arg[c].key] = NoWindow]
    /\ Leave(c)
    /\ UNCHANGED <<now, file, temp>>

-----------------------------------------------------------------------------
(* insert *)

Present(contents) == {k \in Keys : contents[k] # NoEntry}

\* evict_oldest's order: by creation, then by the key's string
Older(contents, j, k) ==
    \/ contents[j].created < contents[k].created
    \/ contents[j].created = contents[k].created /\ j < k

Newer(contents, k) == {j \in Present(contents) : Older(contents, k, j)}

\* Removing the oldest while there are too many leaves the newest
Evicted(contents) ==
    [k \in Keys |-> IF Cardinality(Newer(contents, k)) < MaxEntries
                    THEN contents[k] ELSE NoEntry]

With(contents, a) ==
    Evicted([contents EXCEPT ![a.key] = [window |-> a.window, created |-> now]])

InsertLock(c, k, w) ==
    /\ pc[c] = "idle" /\ CanExclude(c)
    /\ Goto(c, "loading")
    /\ arg' = [arg EXCEPT ![c] = [key |-> k, window |-> w]]
    /\ UNCHANGED <<now, file, temp, data, got>>

\* A bug: when the cache file cannot be read, what a stopped insert has left is
LoadRecovering(c) ==
    /\ pc[c] = "loading"
    /\ \/ data' = [data EXCEPT ![c] = With(file[PathOf[c]].entries, arg[c])]
       \/ /\ c \in FailingReaders
          /\ data' = [data EXCEPT ![c] = With(temp[TempOf[PathOf[c]]].entries, arg[c])]
    /\ Goto(c, "truncating")
    /\ UNCHANGED <<now, file, temp, arg, got>>

\* load_unlocked(..).unwrap_or_default(): what cannot be read is taken for empty
Load(c) ==
    /\ pc[c] = "loading"
    /\ \/ data' = [data EXCEPT ![c] = With(file[PathOf[c]].entries, arg[c])]
       \/ /\ c \in FailingReaders
          /\ data' = [data EXCEPT ![c] = With(NoEntries, arg[c])]
    /\ Goto(c, "truncating")
    /\ UNCHANGED <<now, file, temp, arg, got>>

\* A bug: the cache file itself is opened for writing
TruncateInPlace(c) ==
    /\ pc[c] = "truncating"
    /\ file' = [file EXCEPT ![PathOf[c]] = Garbled]
    /\ temp' = [temp EXCEPT ![TempOf[PathOf[c]]] = Garbled]
    /\ Goto(c, "filling")
    /\ UNCHANGED <<now, arg, data, got>>

\* std::fs::write: the temporary file is created or emptied, then filled.  The
\* open file is followed by its name.
Truncate(c) ==
    /\ pc[c] = "truncating"
    /\ temp' = [temp EXCEPT ![TempOf[PathOf[c]]] = Garbled]
    /\ Goto(c, "filling")
    /\ UNCHANGED <<now, file, arg, data, got>>

Fill(c) ==
    /\ pc[c] = "filling"
    /\ temp' = [temp EXCEPT ![TempOf[PathOf[c]]] = File(data[c])]
    /\ Goto(c, "renaming")
    /\ UNCHANGED <<now, file, arg, data, got>>

Rename(c) ==
    LET from == TempOf[PathOf[c]]
    IN  /\ pc[c] = "renaming" /\ temp[from] # Absent
        /\ file' = [file EXCEPT ![PathOf[c]] = temp[from]]
        /\ temp' = [temp EXCEPT ![from] = Absent]
        /\ Leave(c)
        /\ UNCHANGED <<now, got>>

-----------------------------------------------------------------------------
(* clear, failures, the clock *)

ClearLock(c) ==
    /\ pc[c] = "idle" /\ CanExclude(c)
    /\ Goto(c, "removing")
    /\ UNCHANGED <<now, file, temp, arg, data, got>>

Remove(c) ==
    /\ pc[c] = "removing"
    /\ file' = [file EXCEPT ![PathOf[c]] = Absent]
    /\ Leave(c)
    /\ UNCHANGED <<now, temp, got>>

\* The call fails with an I/O error, or its process dies: the lock is
\* released and the temporary file stays as it is.
Stop(c) ==
    /\ pc[c] # "idle"
    /\ Leave(c)
    /\ UNCHANGED <<now, file, temp, got>>

Tick ==
    /\ now < MaxTime
    /\ now' = now + 1
    /\ UNCHANGED <<file, temp, pc, arg, data, got>>

StepBack ==
    /\ ClockSteps /\ now > 0
    /\ now' = now - 1
    /\ UNCHANGED <<file, temp, pc, arg, data, got>>

Get(c) == (\E k \in Keys : GetLock(c, k)) \/ Read(c)

Insert(c) == \/ \E k \in Keys, w \in Windows : InsertLock(c, k, w)
             \/ Load(c) \/ Truncate(c) \/ Fill(c) \/ Rename(c)

Clear(c) == ClearLock(c) \/ Remove(c)

Next == \/ \E c \in Callers : Get(c) \/ Insert(c) \/ Clear(c) \/ Stop(c)
        \/ Tick \/ StepBack

Spec == Init /\ [][Next]_vars

-----------------------------------------------------------------------------
(* Properties *)

\* Types of the variables.
TypeOK ==
    /\ now \in Nat
    /\ file \in [Paths -> Files]
    /\ temp \in [Temps -> Files]
    /\ pc \in [Callers -> Writing \cup {"idle", "reading"}]
    /\ arg \in [Callers -> [key : Keys, window : Windows \cup {NoWindow}]]
    /\ data \in [Callers -> Contents]
    /\ got \in [Callers -> [Keys -> Windows \cup {NoWindow}]]

\* "Write-then-rename for atomicity": wherever a call fails or its process
\* dies, the cache file is never left half written.
FileIsWhole == \A p \in Paths : file[p] # Garbled

\* The renames of these callers leave every other entry of the file in place,
\* unless it is the oldest of too many.
InsertsKeepTheRest(callers) ==
    \A c \in callers :
        LET p == PathOf[c]
        IN  Rename(c) => \/ Present(file[p].entries) \subseteq Present(file'[p].entries)
                         \/ Cardinality(Present(file'[p].entries)) = MaxEntries

\* "Without losing inserts": an insert that could read the file keeps the
\* others' entries.  Two inserts that load the same contents must not both
\* write them back.
SoundInsertsKeepTheRest == [][InsertsKeepTheRest(Callers \ FailingReaders)]_vars

\* The same of every insert, as the comment has it.
KeepsTheRest == [][InsertsKeepTheRest(Callers)]_vars

\* The entry an insert has just made is in the file afterwards: eviction makes
\* room for it.
NewEntryStays ==
    [][\A c \in Callers : Rename(c) => file'[PathOf[c]].entries[arg[c].key] # NoEntry]_vars

\* A cache file is a BlockWindowCache, and its concurrent users do not see
\* each other's half-done inserts.
Held == [x \in Paths \X Keys |-> file[x[1]].entries[x[2]].window]

Got == [c \in Callers |->
            [x \in Paths \X Keys |-> IF x[1] = PathOf[c] THEN got[c][x[2]] ELSE NoWindow]]

Asked == [c \in Callers |-> IF pc[c] \in Inserting
                            THEN {<<<<PathOf[c], arg[c].key>>, arg[c].window>>} ELSE {}]

Abstract == INSTANCE BlockWindowCache
                WITH Keys <- Paths \X Keys, held <- Held, got <- Got, asked <- Asked

IsBlockWindowCache == Abstract!Spec
==============================================================================
