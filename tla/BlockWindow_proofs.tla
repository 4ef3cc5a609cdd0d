-------------------------- MODULE BlockWindow_proofs --------------------------
(* Proofs about BlockWindow, for every number of calls, days and blocks: types, *)
(* that the searches and their short-circuits are exact, and that what is       *)
(* persisted of a day is final.                                                *)
EXTENDS BlockWindow, TLAPS

Window == [start : Nat, end : Nat]
Bound == [block : Nat, ts : Nat \cup {NoTime}]

\* Types of the variables a call has of its own
CallTypeOK ==
    /\ pc \in [Tasks -> {"idle", "hit", "genesis", "head", "number", "time", "first", "last",
                         "insert", "done"}]
    /\ ask \in [Tasks -> [day : Days \cup {NoDay}, from : Nat, to : Nat]]
    /\ bound \in [Tasks -> Bound]
    /\ search \in [Tasks -> [lo : Nat, hi : Nat, result : Nat]]
    /\ window \in [Tasks -> Window \cup {NoWindow}]

\* A call that searches for the end has a start, one that inserts a window of a day.
HasWindow(t) ==
    /\ pc[t] \in {"last", "insert"} => window[t] \in Window
    /\ pc[t] = "insert" => IsDaily(t)

TypeInv == TypeOK /\ \A t \in Tasks : HasWindow(t)

-----------------------------------------------------------------------------
(* Types *)

\* A day begins at some second and does not end before it (get_daily_window).
LEMMA DayTypes ==
    ASSUME NEW d \in Days
    PROVE  /\ d * DayLength \in Nat /\ (d + 1) * DayLength - 1 \in Nat
           /\ d * DayLength <= (d + 1) * DayLength - 1 /\ d # NoDay
<1>1. d \in Nat /\ DayLength \in Nat /\ DayLength >= 1
  BY BlockWindowAssumption
<1>2. d * DayLength \in Nat /\ (d + 1) * DayLength = d * DayLength + DayLength
  BY <1>1
<1> QED
  BY <1>1, <1>2 DEF NoDay

\* The chain has blocks 0 to its head, each with a timestamp.
LEMMA ChainTypes ==
    ASSUME TypeOK
    PROVE  HeadBlock \in Nat /\ \A b \in 0 .. HeadBlock : TimeOf(b) \in Nat
  BY DEF TypeOK, HeadBlock, TimeOf

LEMMA TypeParts ==
    TypeOK => /\ CallTypeOK /\ memo \in [block : Nat, ts : Nat \cup {NoTime}, fresh : BOOLEAN]
              /\ store \in [Days -> Window \cup {NoWindow}]
  BY DEF TypeOK, CallTypeOK, Window, Bound

\* A call that is over has nothing left.
LEMMA LeaveTypes ==
    ASSUME CallTypeOK, NEW t \in Tasks, Leave(t)
    PROVE  /\ CallTypeOK' /\ HasWindow(t)'
           /\ pc'[t] = "idle"
  BY DEF CallTypeOK, Leave, Goto, NoAsk, NoBound, NoSearch, Bound, HasWindow

\* What a call does with the bounds leaves it a start to search with, or an answer
\* (compute_block_range_given_bounds).
LEMMA UseBoundsTypes ==
    ASSUME TypeOK, NEW t \in Tasks, NEW b \in Bound, UseBounds(t, b)
    PROVE  CallTypeOK' /\ HasWindow(t)'
<1> USE DEF CallTypeOK, Goto, Bound, Window, HasWindow
<1>1. CallTypeOK
  BY TypeParts
<1>2. CASE Leave(t)
  BY <1>1, <1>2, LeaveTypes
<1>3. ASSUME NEW start \in Nat, SeekEnd(t, b, start), bound' = [bound EXCEPT ![t] = b], ask' = ask
      PROVE  CallTypeOK' /\ HasWindow(t)'
  <2> DEFINE w == [start |-> start, end |-> b.block]
  <2>1. w \in Window /\ b.block \in Nat
    OBVIOUS
  <2>2. window' = [window EXCEPT ![t] = w]
    BY <1>3 DEF SeekEnd
  <2> HIDE DEF w
  <2>3. window' \in [Tasks -> Window \cup {NoWindow}] /\ window'[t] \in Window
    BY <1>1, <2>1, <2>2
  <2>4. \E l \in {"done", "last"} : pc' = [pc EXCEPT ![t] = l]
    BY <1>3 DEF SeekEnd
  <2>5. search' \in [Tasks -> [lo : Nat, hi : Nat, result : Nat]]
    <3>1. PICK n \in Nat : search' = [search EXCEPT ![t] = [lo |-> 0, hi |-> n, result |-> 0]]
      BY <1>3, <2>1 DEF SeekEnd, NoSearch
    <3> QED
      BY <1>1, <3>1
  <2> QED
    BY <1>1, <1>3, <2>3, <2>4, <2>5
<1>4. ASSUME SeekStart(t, b), bound' = [bound EXCEPT ![t] = b], ask' = ask
      PROVE  CallTypeOK' /\ HasWindow(t)'
  BY <1>1, <1>4 DEF SeekStart
<1>5. ASSUME NEW n \in Nat, Empty(t, n), bound' = [bound EXCEPT ![t] = b], ask' = ask
      PROVE  CallTypeOK' /\ HasWindow(t)'
  BY <1>1, <1>5 DEF Empty
<1> QED
  BY <1>2, <1>3, <1>4, <1>5 DEF UseBounds, DailyBounds, RangeBounds

\* A call touches its own variables only.
LEMMA OthersStay ==
    ASSUME CallTypeOK, NEW t \in Tasks, Ask(t) \/ Acquire(t) \/ Progress(t) \/ FetchFails(t),
           NEW u \in Tasks, u # t
    PROVE  /\ pc'[u] = pc[u] /\ ask'[u] = ask[u] /\ bound'[u] = bound[u]
           /\ search'[u] = search[u] /\ window'[u] = window[u]
<1> USE DEF CallTypeOK, Goto
<1>1. CASE Leave(t)
  BY <1>1 DEF Leave
<1>2. ASSUME NEW b, UseBounds(t, b)
      PROVE  /\ pc'[u] = pc[u] /\ ask'[u] = ask[u] /\ bound'[u] = bound[u]
             /\ search'[u] = search[u] /\ window'[u] = window[u]
  BY <1>1, <1>2 DEF UseBounds, DailyBounds, RangeBounds, SeekEnd, SeekStart, Empty
<1>3. CASE Ask(t)
  BY <1>3 DEF Ask, DailyHit, DailyMiss, AskRange
<1>4. CASE Acquire(t)
  BY <1>2, <1>4 DEF Acquire, MemoHit, MemoMiss
<1>5. CASE FetchGenesis(t) \/ FetchNumber(t) \/ FetchNumberFirst(t) \/ FetchTime(t)
  BY <1>2, <1>5 DEF FetchGenesis, FetchNumber, FetchNumberFirst, FetchTime
<1>6. CASE ProbeFirst(t) \/ ProbeLast(t)
  BY <1>1, <1>6 DEF ProbeFirst, ProbeLast, SeekEnd
<1>7. CASE Persist(t) \/ Return(t) \/ FetchFails(t)
  BY <1>1, <1>7 DEF Persist, Return, FetchFails
<1> QED
  BY <1>3, <1>4, <1>5, <1>6, <1>7 DEF Progress, NotFound

Step(t) == Ask(t) \/ Acquire(t) \/ Progress(t) \/ FetchFails(t)

\* Types of the variables of the call that takes a step (BlockWindowCalculator).
LEMMA CallTypeStep ==
    ASSUME TypeInv, NEW t \in Tasks, Step(t)
    PROVE  CallTypeOK' /\ HasWindow(t)'
<1> USE DEF CallTypeOK, Goto
<1>1. /\ CallTypeOK /\ store \in [Days -> Window \cup {NoWindow}] /\ HasWindow(t)
      /\ HeadBlock \in Nat /\ \A b \in 0 .. HeadBlock : TimeOf(b) \in Nat
  BY TypeParts, ChainTypes DEF TypeInv
<1>2. CASE Leave(t)
  BY <1>1, <1>2, LeaveTypes
<1>3. ASSUME NEW b \in Bound, UseBounds(t, b)
      PROVE  CallTypeOK' /\ HasWindow(t)'
  BY <1>3, UseBoundsTypes DEF TypeInv
<1>4. CASE Ask(t)
  <2>1. ASSUME NEW d \in Days, DailyHit(t, d)
        PROVE  CallTypeOK' /\ HasWindow(t)'
    BY <1>1, <2>1, DayTypes DEF DailyHit, HasWindow
  <2>2. ASSUME NEW d \in Days, DailyMiss(t, d)
        PROVE  CallTypeOK' /\ HasWindow(t)'
    BY <1>1, <2>2, DayTypes DEF DailyMiss, HasWindow
  <2>3. ASSUME NEW r \in Ranges, AskRange(t, r[1], r[2])
        PROVE  CallTypeOK' /\ HasWindow(t)'
    <3>1. r[1] \in Nat /\ r[2] \in Nat
      BY BlockWindowAssumption
    <3> QED
      BY <1>1, <2>3, <3>1 DEF AskRange, HasWindow
  <2> QED
    BY <1>4, <2>1, <2>2, <2>3 DEF Ask
<1>5. CASE Acquire(t)
  <2>1. CASE MemoHit(t)
    <3>1. [block |-> memo.block, ts |-> memo.ts] \in Bound
      BY DEF TypeInv, TypeOK, Bound
    <3> QED
      BY <1>3, <2>1, <3>1 DEF MemoHit
  <2>2. CASE MemoMiss(t)
    BY <1>1, <2>2 DEF MemoMiss, HasWindow
  <2> QED
    BY <1>5, <2>1, <2>2 DEF Acquire
<1>6. CASE FetchGenesis(t)
  BY <1>1, <1>6 DEF FetchGenesis, HasWindow
<1>7. CASE FetchNumber(t)
  <2>1. [block |-> HeadBlock, ts |-> NoTime] \in Bound
    BY <1>1 DEF Bound
  <2> QED
    BY <1>3, <1>7, <2>1 DEF FetchNumber
<1>8. CASE FetchNumberFirst(t)
  <2>1. [block |-> HeadBlock, ts |-> NoTime] \in Bound
    BY <1>1 DEF Bound
  <2> QED
    BY <1>1, <1>8, <2>1 DEF FetchNumberFirst, HasWindow
<1>9. CASE FetchTime(t)
  <2>1. bound[t].block \in 0 .. HeadBlock
    BY <1>1, <1>9 DEF FetchTime, Bound
  <2>2. [block |-> bound[t].block, ts |-> TimeOf(bound[t].block)] \in Bound
    BY <1>1, <2>1 DEF Bound
  <2> QED
    BY <1>3, <1>9, <2>2 DEF FetchTime
<1>10. CASE ProbeFirst(t)
  <2> DEFINE s == FirstProbed(search[t], ask[t].from)
  <2>1. search[t].lo \in Nat /\ search[t].hi \in Nat /\ search[t].result \in Nat
        /\ Mid(search[t]) \in Nat
    BY <1>1 DEF Mid
  <2>2. s.lo \in Nat /\ s.hi \in Int /\ s.result \in Nat /\ s = [lo |-> s.lo, hi |-> s.hi, result |-> s.result]
    BY <2>1 DEF FirstProbed
  <2>3. CASE Searching(s) /\ search' = [search EXCEPT ![t] = s] /\ UNCHANGED <<pc, window>>
    <3>1. s \in [lo : Nat, hi : Nat, result : Nat]
      BY <2>2, <2>3 DEF Searching
    <3> QED
      BY <1>1, <1>10, <2>3, <3>1 DEF ProbeFirst, HasWindow
  <2>4. CASE SeekEnd(t, bound[t], s.result)
    <3> DEFINE w == [start |-> s.result, end |-> bound[t].block]
    <3>1. w \in Window /\ bound[t].block \in Nat
      BY <1>1, <2>2 DEF Window, Bound
    <3>2. window' = [window EXCEPT ![t] = w] /\ UNCHANGED <<ask, bound>>
      BY <1>10, <2>4 DEF SeekEnd, ProbeFirst
    <3> HIDE DEF w
    <3>3. window' \in [Tasks -> Window \cup {NoWindow}] /\ window'[t] \in Window
      BY <1>1, <3>1, <3>2
    <3>4. \E l \in {"done", "last"} : pc' = [pc EXCEPT ![t] = l]
      BY <2>4 DEF SeekEnd
    <3>5. search' \in [Tasks -> [lo : Nat, hi : Nat, result : Nat]]
      BY <1>1, <2>4, <3>1 DEF SeekEnd, NoSearch
    <3> QED
      BY <1>1, <3>2, <3>3, <3>4, <3>5 DEF HasWindow
  <2> QED
    BY <1>10, <2>3, <2>4 DEF ProbeFirst
<1>11. CASE ProbeLast(t)
  <2> DEFINE s == LastProbed(search[t], ask[t].to)
             w == [start |-> window[t].start, end |-> s.result]
  <2>1. search[t].lo \in Nat /\ search[t].hi \in Nat /\ search[t].result \in Nat
        /\ Mid(search[t]) \in Nat
    BY <1>1 DEF Mid
  <2>2. s.lo \in Nat /\ s.hi \in Int /\ s.result \in Nat /\ s = [lo |-> s.lo, hi |-> s.hi, result |-> s.result]
    BY <2>1 DEF LastProbed
  <2>3. CASE Searching(s) /\ search' = [search EXCEPT ![t] = s] /\ UNCHANGED <<pc, ask, bound, window>>
    <3>1. s \in [lo : Nat, hi : Nat, result : Nat]
      BY <2>2, <2>3 DEF Searching
    <3> QED
      BY <1>1, <2>3, <3>1 DEF HasWindow, IsDaily
  <2>4. CASE /\ Goto(t, IF SafeToCache(t) THEN "insert" ELSE "done")
             /\ search' = [search EXCEPT ![t] = NoSearch]
             /\ window' = [window EXCEPT ![t] = w]
             /\ UNCHANGED <<ask, bound>>
    <3>1. w \in Window
      BY <1>1, <1>11, <2>2 DEF ProbeLast, HasWindow, Window
    <3> HIDE DEF w
    <3>2. window' \in [Tasks -> Window \cup {NoWindow}] /\ window'[t] \in Window
      BY <1>1, <2>4, <3>1
    <3>3. search' \in [Tasks -> [lo : Nat, hi : Nat, result : Nat]]
      BY <1>1, <2>4 DEF NoSearch
    <3>4. \E l \in {"done", "insert"} : pc' = [pc EXCEPT ![t] = l] /\ (l = "insert" => IsDaily(t))
      BY <2>4 DEF SafeToCache
    <3> QED
      BY <1>1, <2>4, <3>2, <3>3, <3>4 DEF HasWindow, IsDaily
  <2> QED
    BY <1>2, <1>11, <2>3, <2>4 DEF ProbeLast
<1>12. CASE Persist(t)
  BY <1>1, <1>12 DEF Persist, HasWindow
<1> QED
  BY <1>2, <1>4, <1>5, <1>6, <1>7, <1>8, <1>9, <1>10, <1>11, <1>12
     DEF Step, Progress, Return, NotFound, FetchFails

\* Types of what the calls share, and of the chain (BlockWindowCalculator).
LEMMA SharedTypeStep ==
    ASSUME TypeInv, [Next]_vars
    PROVE  /\ chain' \in Seq(Nat) /\ chain' # <<>>
           /\ genesis' \in Nat \cup {NoTime}
           /\ memo' \in [block : Nat, ts : Nat \cup {NoTime}, fresh : BOOLEAN]
           /\ holder' \in Tasks \cup {NoTask}
           /\ store' \in [Days -> Window \cup {NoWindow}]
<1> USE DEF TypeInv
<1>1. /\ CallTypeOK /\ store \in [Days -> Window \cup {NoWindow}]
      /\ memo \in [block : Nat, ts : Nat \cup {NoTime}, fresh : BOOLEAN]
      /\ HeadBlock \in Nat /\ \A b \in 0 .. HeadBlock : TimeOf(b) \in Nat
      /\ chain \in Seq(Nat) /\ chain # <<>> /\ genesis \in Nat \cup {NoTime}
      /\ holder \in Tasks \cup {NoTask}
  BY TypeParts, ChainTypes DEF TypeOK
<1>2. ASSUME NEW t \in Tasks, Step(t)
      PROVE  /\ chain' = chain /\ genesis' \in Nat \cup {NoTime}
             /\ memo' \in [block : Nat, ts : Nat \cup {NoTime}, fresh : BOOLEAN]
             /\ holder' \in Tasks \cup {NoTask}
             /\ store' \in [Days -> Window \cup {NoWindow}]
  <2>1. CASE FetchGenesis(t)
    BY <1>1, <2>1 DEF FetchGenesis
  <2>2. CASE FetchNumber(t)
    BY <1>1, <2>2 DEF FetchNumber
  <2>3. CASE FetchTime(t)
    <3>1. bound[t].block \in 0 .. HeadBlock
      BY <1>1, <2>3 DEF FetchTime, CallTypeOK, Bound
    <3> QED
      BY <1>1, <2>3, <3>1 DEF FetchTime
  <2>4. CASE Persist(t)
    <3>1. window[t] \in Window /\ IsDaily(t) /\ HasWindow(t)
      BY <2>4 DEF Persist, HasWindow
    <3>2. ask[t].day \in Days
      BY <1>1, <3>1 DEF CallTypeOK, IsDaily
    <3> QED
      BY <1>1, <2>4, <3>1, <3>2 DEF Persist
  <2>5. CASE Ask(t) \/ Acquire(t)
    BY <1>1, <2>5 DEF Ask, Acquire, DailyHit, DailyMiss, AskRange, MemoHit, MemoMiss
  <2>6. CASE FetchNumberFirst(t) \/ ProbeFirst(t) \/ ProbeLast(t) \/ Return(t) \/ FetchFails(t)
    BY <1>1, <2>6 DEF FetchNumberFirst, ProbeFirst, ProbeLast, Return, FetchFails
  <2> QED
    BY <1>2, <2>1, <2>2, <2>3, <2>4, <2>5, <2>6 DEF Step, Progress, NotFound
<1>3. CASE Environment
  <2>1. CASE ExpireHead
    BY <1>1, <2>1 DEF ExpireHead
  <2>2. ASSUME NEW d \in Days, Evict(d)
        PROVE  store' \in [Days -> Window \cup {NoWindow}]
               /\ UNCHANGED <<chain, genesis, memo, holder>>
    BY <1>1, <2>2 DEF Evict
  <2>3. ASSUME NEW time \in Times, NewBlock(time)
        PROVE  chain' \in Seq(Nat) /\ chain' # <<>> /\ UNCHANGED <<genesis, memo, holder, store>>
    BY <1>1, <2>3, BlockWindowAssumption DEF NewBlock, Times
  <2>4. ASSUME NEW k \in 1 .. ReorgDepth, NEW time \in Times, Reorg(k, time)
        PROVE  chain' \in Seq(Nat) /\ chain' # <<>> /\ UNCHANGED <<genesis, memo, holder, store>>
    <3> DEFINE kept == SubSeq(chain, 1, Len(chain) - k)
    <3>1. kept \in Seq(Nat)
      BY <1>1, <2>4, BlockWindowAssumption DEF Reorg
    <3>2. time \in Nat
      BY BlockWindowAssumption DEF Times
    <3>3. chain' = Append(kept, time) /\ UNCHANGED <<genesis, memo, holder, store>>
      BY <2>4 DEF Reorg
    <3> HIDE DEF kept
    <3> QED
      BY <3>1, <3>2, <3>3
  <2> QED
    BY <1>1, <1>3, <2>1, <2>2, <2>3, <2>4 DEF Environment
<1>4. CASE UNCHANGED vars
  BY <1>1, <1>4 DEF vars
<1> QED
  BY <1>1, <1>2, <1>3, <1>4 DEF Next, Step

\* Types in every state, over any chain: no search leaves the block numbers, at
\* block 0 either, and whatever is cached is a window (BlockWindowCalculator).
THEOREM BlockWindowTypes == Spec => []TypeInv
<1>1. Init => TypeInv
  <2> SUFFICES ASSUME Init PROVE TypeInv
    OBVIOUS
  <2>1. chain \in Seq(Nat) /\ chain # <<>>
    BY BlockWindowAssumption DEF Init, Times
  <2> QED
    BY <2>1 DEF Init, TypeInv, TypeOK, HasWindow, NoHead, NoAsk, NoBound, NoSearch
<1>2. TypeInv /\ [Next]_vars => TypeInv'
  <2> SUFFICES ASSUME TypeInv, [Next]_vars PROVE TypeInv'
    OBVIOUS
  <2>1. ASSUME CallTypeOK' PROVE TypeOK'
    BY <2>1, SharedTypeStep DEF TypeOK, CallTypeOK, Window, Bound
  <2>2. CASE Environment \/ UNCHANGED vars
    <3>1. UNCHANGED <<pc, ask, bound, search, window>>
      BY <2>2 DEF Environment, ExpireHead, Evict, NewBlock, Reorg, vars
    <3> QED
      BY <2>1, <3>1, TypeParts DEF TypeInv, CallTypeOK, HasWindow, IsDaily
  <2>3. ASSUME NEW t \in Tasks, Step(t) PROVE TypeInv'
    <3>1. CallTypeOK' /\ HasWindow(t)'
      BY <2>3, CallTypeStep
    <3>2. \A u \in Tasks : u # t => HasWindow(u)'
      BY <2>3, OthersStay, TypeParts DEF TypeInv, Step, HasWindow, IsDaily
    <3> QED
      BY <2>1, <3>1, <3>2 DEF TypeInv
  <2> QED
    BY <2>2, <2>3 DEF Next, Step
<1> QED
  BY <1>1, <1>2, PTL DEF Spec

\* In particular the searches' bounds, results and windows are block numbers
\* (find_first_at_or_after_with, find_last_at_or_before_with).
THEOREM SearchesStayOnTheChain == Spec => []TypeOK
<1>1. TypeInv => TypeOK
  BY DEF TypeInv
<1> QED
  BY <1>1, BlockWindowTypes, PTL

-----------------------------------------------------------------------------
(* The searches *)

\* A chain whose timestamps never go back, and whose blocks stay
ChainIsFinal == Monotonic /\ ReorgDepth = 0

Sorted == \A x, y \in 0 .. HeadBlock : x <= y => TimeOf(x) <= TimeOf(y)

\* The blocks below n, and those from n to b, on either side of a second
AllBefore(n, target) == \A x \in 0 .. n - 1 : TimeOf(x) < target
AllUpTo(n, target) == \A x \in 0 .. n - 1 : TimeOf(x) <= target
AllFrom(n, target, b) == \A x \in n .. b : TimeOf(x) >= target
AllAfter(n, target, b) == \A x \in n .. b : TimeOf(x) > target

\* n is the first block of 0 .. b at or after the second, or b when there is none;
\* the last one at or before it, or 0.
IsFirst(n, target, b) == n \in 0 .. b /\ AllBefore(n, target) /\ (TimeOf(n) >= target \/ n = b)
IsLast(n, target, b) == n \in 0 .. b /\ AllAfter(n + 1, target, b) /\ (TimeOf(n) <= target \/ n = 0)

\* What the loops of the two searches keep true
FirstLoop(s, target, b) ==
    /\ s.lo <= s.hi /\ s.hi <= b
    /\ AllBefore(s.lo, target) /\ AllFrom(s.hi + 1, target, b)
    /\ s.result = IF s.hi = b THEN b ELSE s.hi + 1

LastLoop(s, target, b) ==
    /\ s.lo <= s.hi /\ s.hi <= b
    /\ AllUpTo(s.lo, target) /\ AllAfter(s.hi + 1, target, b)
    /\ s.result = IF s.lo = 0 THEN 0 ELSE s.lo - 1

Search == [lo : Nat, hi : Nat, result : Nat]

\* A probe of the first search, and what the search finds
\* (find_first_at_or_after_with).
LEMMA FirstSearchIsExact ==
    ASSUME TypeOK, Sorted, NEW b \in 0 .. HeadBlock, NEW target \in Nat, NEW s \in Search,
           FirstLoop(s, target, b)
    PROVE  LET r == FirstProbed(s, target)
           IN  IF Searching(r) THEN FirstLoop(r, target, b) ELSE IsFirst(r.result, target, b)
<1> DEFINE r == FirstProbed(s, target)
           m == Mid(s)
<1>1. HeadBlock \in Nat /\ b \in Nat /\ \A x \in 0 .. b : x \in 0 .. HeadBlock /\ TimeOf(x) \in Nat
  BY ChainTypes
<1>2. m \in s.lo .. s.hi /\ m \in 0 .. b /\ s.lo \in Nat /\ s.hi \in Nat
  BY <1>1 DEF Mid, Search, FirstLoop
<1> HIDE DEF m
<1>3. CASE TimeOf(m) >= target
  <2>1. r.lo = s.lo /\ r.hi = m - 1 /\ r.result = m
    BY <1>3 DEF FirstProbed, m
  <2>2. AllFrom(m, target, b)
    BY <1>1, <1>2, <1>3 DEF AllFrom, Sorted
  <2>3. AllBefore(s.lo, target)
    BY DEF FirstLoop
  <2>4. CASE s.lo <= m - 1
    BY <1>1, <1>2, <2>1, <2>2, <2>3, <2>4 DEF FirstLoop, Searching
  <2>5. CASE s.lo = m
    BY <1>1, <1>2, <1>3, <2>1, <2>3, <2>5 DEF IsFirst, Searching
  <2> QED
    BY <1>1, <1>2, <2>4, <2>5
<1>4. CASE TimeOf(m) < target
  <2>1. r.lo = m + 1 /\ r.hi = s.hi /\ r.result = s.result
    BY <1>1, <1>2, <1>4 DEF FirstProbed, m
  <2>2. AllBefore(m + 1, target)
    BY <1>1, <1>2, <1>4 DEF AllBefore, Sorted
  <2>3. CASE m + 1 <= s.hi
    BY <1>1, <1>2, <2>1, <2>2, <2>3 DEF FirstLoop, Searching
  <2>4. CASE m = s.hi
    <3>1. AllFrom(m + 1, target, b)
      BY <2>4 DEF FirstLoop
    <3>2. m # b => TimeOf(m + 1) >= target
      BY <1>1, <1>2, <3>1 DEF AllFrom
    <3>3. m = b => AllBefore(b, target)
      BY <1>1, <1>2, <2>2 DEF AllBefore
    <3>4. s.result = IF m = b THEN b ELSE m + 1
      BY <2>4 DEF FirstLoop
    <3> QED
      BY <1>1, <1>2, <2>1, <2>2, <2>4, <3>2, <3>3, <3>4 DEF IsFirst, Searching
  <2> QED
    BY <1>1, <1>2, <2>3, <2>4
<1> QED
  BY <1>1, <1>2, <1>3, <1>4

\* The same of the last search (find_last_at_or_before_with).
LEMMA LastSearchIsExact ==
    ASSUME TypeOK, Sorted, NEW b \in 0 .. HeadBlock, NEW target \in Nat, NEW s \in Search,
           LastLoop(s, target, b)
    PROVE  LET r == LastProbed(s, target)
           IN  IF Searching(r) THEN LastLoop(r, target, b) ELSE IsLast(r.result, target, b)
<1> DEFINE r == LastProbed(s, target)
           m == Mid(s)
<1>1. HeadBlock \in Nat /\ b \in Nat /\ \A x \in 0 .. b : x \in 0 .. HeadBlock /\ TimeOf(x) \in Nat
  BY ChainTypes
<1>2. m \in s.lo .. s.hi /\ m \in 0 .. b /\ s.lo \in Nat /\ s.hi \in Nat
  BY <1>1 DEF Mid, Search, LastLoop
<1> HIDE DEF m
<1>3. CASE TimeOf(m) <= target
  <2>1. r.lo = m + 1 /\ r.hi = s.hi /\ r.result = m
    BY <1>3 DEF LastProbed, m
  <2>2. AllUpTo(m + 1, target)
    BY <1>1, <1>2, <1>3 DEF AllUpTo, Sorted
  <2>3. AllAfter(s.hi + 1, target, b)
    BY DEF LastLoop
  <2>4. CASE m + 1 <= s.hi
    BY <1>1, <1>2, <2>1, <2>2, <2>3, <2>4 DEF LastLoop, Searching
  <2>5. CASE m = s.hi
    BY <1>1, <1>2, <1>3, <2>1, <2>3, <2>5 DEF IsLast, Searching
  <2> QED
    BY <1>1, <1>2, <2>4, <2>5
<1>4. CASE TimeOf(m) > target
  <2>1. r.lo = s.lo /\ r.hi = m - 1 /\ r.result = s.result
    BY <1>1, <1>2, <1>4 DEF LastProbed, m
  <2>2. AllAfter(m, target, b)
    BY <1>1, <1>2, <1>4 DEF AllAfter, Sorted
  <2>3. CASE s.lo <= m - 1
    BY <1>1, <1>2, <2>1, <2>2, <2>3 DEF LastLoop, Searching
  <2>4. CASE s.lo = m
    <3>1. AllUpTo(m, target)
      BY <2>4 DEF LastLoop
    <3>2. m # 0 => TimeOf(m - 1) <= target
      BY <1>1, <1>2, <3>1 DEF AllUpTo
    <3>3. m = 0 => AllAfter(1, target, b)
      BY <1>1, <1>2, <2>2 DEF AllAfter
    <3>4. s.result = IF m = 0 THEN 0 ELSE m - 1
      BY <2>4 DEF LastLoop
    <3>5. m # 0 => m - 1 + 1 = m
      BY <1>2
    <3> QED
      BY <1>1, <1>2, <2>1, <2>2, <2>4, <3>2, <3>3, <3>4, <3>5 DEF IsLast, Searching
  <2> QED
    BY <1>1, <1>2, <2>3, <2>4
<1> QED
  BY <1>1, <1>2, <1>3, <1>4

\* The reference definitions are met by one block each.
LEMMA FirstIsFirst ==
    ASSUME TypeOK, Sorted, NEW b \in 0 .. HeadBlock, NEW target \in Nat, NEW n, IsFirst(n, target, b)
    PROVE  n = FirstAtOrAfter(target, b)
<1> DEFINE S == {x \in 0 .. b : TimeOf(x) >= target}
<1>1. HeadBlock \in Nat /\ b \in Nat /\ \A x \in 0 .. b : x \in 0 .. HeadBlock /\ TimeOf(x) \in Nat
  BY ChainTypes
<1>2. n \in 0 .. b /\ \A x \in S : n <= x
  BY <1>1 DEF IsFirst, AllBefore
<1>3. CASE TimeOf(n) >= target
  <2>1. n \in S /\ \A m \in S : (\A y \in S : m <= y) => m = n
    BY <1>1, <1>2, <1>3
  <2> HIDE DEF S
  <2>2. (CHOOSE x \in S : \A y \in S : x <= y) = n
    BY <1>2, <2>1
  <2>3. S # {}
    BY <2>1
  <2> QED
    BY <2>2, <2>3 DEF FirstAtOrAfter, S
<1>4. CASE ~(TimeOf(n) >= target)
  <2>1. n = b
    BY <1>4 DEF IsFirst
  <2>2. S = {}
    BY <1>1, <1>2, <1>4, <2>1
  <2> QED
    BY <2>1, <2>2 DEF FirstAtOrAfter
<1> QED
  BY <1>3, <1>4

LEMMA LastIsLast ==
    ASSUME TypeOK, Sorted, NEW b \in 0 .. HeadBlock, NEW target \in Nat, NEW n, IsLast(n, target, b)
    PROVE  n = LastAtOrBefore(target, b)
<1> DEFINE S == {x \in 0 .. b : TimeOf(x) <= target}
<1>1. HeadBlock \in Nat /\ b \in Nat /\ \A x \in 0 .. b : x \in 0 .. HeadBlock /\ TimeOf(x) \in Nat
  BY ChainTypes
<1>2. n \in 0 .. b /\ \A x \in S : n >= x
  BY <1>1 DEF IsLast, AllAfter
<1>3. CASE TimeOf(n) <= target
  <2>1. n \in S /\ \A m \in S : (\A y \in S : m >= y) => m = n
    BY <1>1, <1>2, <1>3
  <2> HIDE DEF S
  <2>2. (CHOOSE x \in S : \A y \in S : x >= y) = n
    BY <1>2, <2>1
  <2>3. S # {}
    BY <2>1
  <2> QED
    BY <2>2, <2>3 DEF LastAtOrBefore, S
<1>4. CASE ~(TimeOf(n) <= target)
  <2>1. n = 0
    BY <1>4 DEF IsLast
  <2>2. S = {}
    BY <1>1, <1>2, <1>4, <2>1
  <2> QED
    BY <2>1, <2>2 DEF LastAtOrBefore
<1> QED
  BY <1>3, <1>4

-----------------------------------------------------------------------------
(* What the calls know *)

OnChain(b) == b.block \in 0 .. HeadBlock /\ (b.ts # NoTime => b.ts = TimeOf(b.block))

InOrder(a) ==
    /\ a.from <= a.to
    /\ a.day # NoDay => /\ a.from = a.day * DayLength
                        /\ a.to = (a.day + 1) * DayLength - 1

\* What a call knows at l of the chain, with g in the genesis cell
Knows(l, a, b, s, w, g) ==
    /\ l # "idle" => InOrder(a)
    /\ l \notin {"idle", "genesis"} /\ a.day = NoDay => g # NoTime
    /\ l \in {"time", "first", "last", "insert", "done"} => OnChain(b)
    /\ l \in {"first", "last"} /\ a.day = NoDay => b.ts # NoTime
    /\ l = "first" => FirstLoop(s, a.from, b.block)
    /\ l = "last" => LastLoop(s, a.to, b.block)
    /\ l \in {"last", "insert", "done"} => IsFirst(w.start, a.from, b.block)
    /\ l \in {"insert", "done"} => IsLast(w.end, a.to, b.block)
    /\ l = "insert" => a.day # NoDay /\ b.ts # NoTime /\ a.to < b.ts

CallInv(t) == Knows(pc[t], ask[t], bound[t], search[t], window[t], genesis)

\* A cached window of a day has been found from a block after the day.
StoreIsExact ==
    \A d \in Days : store[d] # NoWindow =>
        \E b \in 0 .. HeadBlock :
            /\ TimeOf(b) > (d + 1) * DayLength - 1
            /\ IsFirst(store[d].start, d * DayLength, b)
            /\ IsLast(store[d].end, (d + 1) * DayLength - 1, b)

SharedInv ==
    /\ Sorted /\ StoreIsExact
    /\ genesis # NoTime => genesis = TimeOf(0)
    /\ OnChain(memo)

WindowInv == TypeInv /\ SharedInv /\ \A t \in Tasks : CallInv(t)

\* The chain keeps its blocks.
Grown == HeadBlock <= HeadBlock' /\ \A b \in 0 .. HeadBlock : TimeOf(b)' = TimeOf(b)

LEMMA SameIsGrown ==
    ASSUME TypeOK, UNCHANGED chain
    PROVE  Grown
<1>1. HeadBlock' = HeadBlock
  BY DEF HeadBlock
<1>2. \A b \in 0 .. HeadBlock : TimeOf(b)' = TimeOf(b)
  BY DEF TimeOf
<1> QED
  BY <1>1, <1>2, ChainTypes DEF Grown

\* What is known of a chain stays so when it grows.
LEMMA KnownStays ==
    ASSUME TypeOK, Grown, HeadBlock' \in Nat, NEW b \in 0 .. HeadBlock, NEW target, NEW n
    PROVE  /\ b \in 0 .. HeadBlock' /\ TimeOf(b)' = TimeOf(b)
           /\ IsFirst(n, target, b) => IsFirst(n, target, b)'
           /\ IsLast(n, target, b) => IsLast(n, target, b)'
           /\ \A s \in Search : FirstLoop(s, target, b) => FirstLoop(s, target, b)'
           /\ \A s \in Search : LastLoop(s, target, b) => LastLoop(s, target, b)'
<1>1. /\ HeadBlock \in Nat /\ b \in Nat /\ b \in 0 .. HeadBlock'
      /\ \A x \in 0 .. b : x \in 0 .. HeadBlock /\ TimeOf(x)' = TimeOf(x)
  BY ChainTypes DEF Grown
<1>2. IsFirst(n, target, b) => IsFirst(n, target, b)'
  BY <1>1 DEF IsFirst, AllBefore
<1>3. IsLast(n, target, b) => IsLast(n, target, b)'
  BY <1>1 DEF IsLast, AllAfter
<1>4. \A s \in Search : FirstLoop(s, target, b) => FirstLoop(s, target, b)'
  BY <1>1 DEF FirstLoop, AllBefore, AllFrom, Search
<1>5. \A s \in Search : LastLoop(s, target, b) => LastLoop(s, target, b)'
  BY <1>1 DEF LastLoop, AllUpTo, AllAfter, Search
<1> QED
  BY <1>1, <1>2, <1>3, <1>4, <1>5

LEMMA KnowsStays ==
    ASSUME TypeOK, TypeOK', Grown, NEW l, NEW a, NEW b, NEW s \in Search, NEW w, NEW g, NEW h,
           Knows(l, a, b, s, w, g), g # NoTime => h # NoTime
    PROVE  Knows(l, a, b, s, w, h)'
<1>1. HeadBlock' \in Nat /\ HeadBlock \in Nat
  BY ChainTypes DEF HeadBlock, TypeOK
<1>2. ASSUME l \in {"time", "first", "last", "insert", "done"}
      PROVE  OnChain(b)' /\ b.block \in 0 .. HeadBlock
  <2>1. OnChain(b) /\ b.block \in 0 .. HeadBlock
    BY <1>2 DEF Knows, OnChain
  <2>2. b.block \in 0 .. HeadBlock' /\ TimeOf(b.block)' = TimeOf(b.block)
    BY <1>1, <2>1, KnownStays
  <2> QED
    BY <2>1, <2>2 DEF OnChain
<1>3. ASSUME b.block \in 0 .. HeadBlock, NEW target, NEW n
      PROVE  /\ IsFirst(n, target, b.block) => IsFirst(n, target, b.block)'
             /\ IsLast(n, target, b.block) => IsLast(n, target, b.block)'
             /\ FirstLoop(s, target, b.block) => FirstLoop(s, target, b.block)'
             /\ LastLoop(s, target, b.block) => LastLoop(s, target, b.block)'
  BY <1>1, <1>3, KnownStays
<1>4. l = "first" => FirstLoop(s, a.from, b.block)'
  BY <1>2, <1>3 DEF Knows
<1>5. l = "last" => LastLoop(s, a.to, b.block)'
  BY <1>2, <1>3 DEF Knows
<1>6. l \in {"last", "insert", "done"} => IsFirst(w.start, a.from, b.block)'
  BY <1>2, <1>3 DEF Knows
<1>7. l \in {"insert", "done"} => IsLast(w.end, a.to, b.block)'
  BY <1>2, <1>3 DEF Knows
<1>8. l # "idle" => InOrder(a)'
  BY DEF Knows, InOrder
<1> QED
  BY <1>2, <1>4, <1>5, <1>6, <1>7, <1>8 DEF Knows

\* A call that does nothing knows what it knew.
LEMMA CallInvStays ==
    ASSUME TypeOK, TypeOK', Grown, NEW t \in Tasks, CallInv(t),
           pc'[t] = pc[t], ask'[t] = ask[t], bound'[t] = bound[t],
           search'[t] = search[t], window'[t] = window[t],
           genesis # NoTime => genesis' # NoTime
    PROVE  CallInv(t)'
<1>1. search[t] \in Search
  BY DEF TypeOK, Search
<1> QED
  BY <1>1, KnowsStays DEF CallInv

\* What a call has found out in a step over the same chain it knows afterwards.
LEMMA CallInvFrom ==
    ASSUME TypeOK, TypeOK', UNCHANGED chain, NEW t \in Tasks,
           Knows(pc'[t], ask'[t], bound'[t], search'[t], window'[t], genesis')
    PROVE  CallInv(t)'
<1>1. search'[t] \in Search
  BY DEF TypeOK, Search
<1> QED
  BY <1>1, KnowsStays, SameIsGrown DEF CallInv

\* A call that is over knows nothing.
LEMMA LeaveKnows ==
    ASSUME CallTypeOK, NEW t \in Tasks, Leave(t)
    PROVE  Knows(pc'[t], ask'[t], bound'[t], search'[t], window'[t], genesis')
<1>1. pc'[t] = "idle"
  BY DEF CallTypeOK, Leave, Goto
<1> QED
  BY <1>1 DEF Knows

\* The search for the end, and its short-circuit at the head
\* (compute_block_range_given_bounds).
LEMMA SeekEndKnows ==
    ASSUME TypeInv, Sorted, NEW t \in Tasks, NEW b \in Bound, OnChain(b), NEW start \in Nat,
           SeekEnd(t, b, start), bound'[t] = b, ask' = ask, genesis' = genesis,
           InOrder(ask[t]), ~IsDaily(t) => genesis # NoTime /\ b.ts # NoTime,
           IsFirst(start, ask[t].from, b.block)
    PROVE  Knows(pc'[t], ask'[t], bound'[t], search'[t], window'[t], genesis')
<1>1. /\ CallTypeOK /\ HeadBlock \in Nat /\ \A x \in 0 .. HeadBlock : TimeOf(x) \in Nat
      /\ b.block \in 0 .. HeadBlock /\ ask[t].to \in Nat
  BY TypeParts, ChainTypes DEF TypeInv, OnChain, CallTypeOK
<1>2. window'[t] = [start |-> start, end |-> b.block]
  BY <1>1 DEF SeekEnd, CallTypeOK
<1>3. CASE ~IsDaily(t) /\ ask[t].to >= b.ts /\ Goto(t, "done")
  <2>1. pc'[t] = "done" /\ b.ts = TimeOf(b.block)
    BY <1>1, <1>3 DEF CallTypeOK, Goto, OnChain
  <2>2. IsLast(b.block, ask[t].to, b.block)
    BY <1>1, <1>3, <2>1 DEF IsLast, AllAfter
  <2> QED
    BY <1>2, <1>3, <2>1, <2>2 DEF Knows
<1>4. CASE /\ Goto(t, "last")
           /\ search' = [search EXCEPT ![t] = [lo |-> 0, hi |-> b.block, result |-> 0]]
  <2> DEFINE s == [lo |-> 0, hi |-> b.block, result |-> 0]
  <2>1. pc'[t] = "last" /\ search'[t] = s
    BY <1>1, <1>4 DEF CallTypeOK, Goto
  <2>2. LastLoop(s, ask[t].to, b.block)
    BY <1>1 DEF LastLoop, AllUpTo, AllAfter
  <2> QED
    BY <1>2, <2>1, <2>2 DEF Knows, IsDaily
<1> QED
  BY <1>3, <1>4 DEF SeekEnd

\* The short-circuits give what the searches would have found, and the searches
\* begin with nothing known (compute_block_range_given_bounds, get_daily_window_with).
LEMMA UseBoundsKnows ==
    ASSUME TypeInv, Sorted, NEW t \in Tasks, NEW b \in Bound, OnChain(b), UseBounds(t, b),
           genesis' = genesis, genesis # NoTime => genesis = TimeOf(0),
           InOrder(ask[t]), ~IsDaily(t) => genesis # NoTime /\ b.ts # NoTime
    PROVE  Knows(pc'[t], ask'[t], bound'[t], search'[t], window'[t], genesis')
<1> DEFINE f == ask[t].from
           l == ask[t].to
           n == b.block
<1>1. /\ CallTypeOK /\ HeadBlock \in Nat /\ \A x \in 0 .. HeadBlock : TimeOf(x) \in Nat
      /\ n \in 0 .. HeadBlock /\ l \in Nat /\ f \in Nat /\ f <= l
      /\ genesis \in Nat \cup {NoTime} /\ b.ts \in Nat \cup {NoTime}
  BY TypeParts, ChainTypes DEF TypeInv, TypeOK, OnChain, CallTypeOK, InOrder, Bound
<1>2. CASE Leave(t)
  BY <1>1, <1>2, LeaveKnows
<1>3. ASSUME bound' = [bound EXCEPT ![t] = b]
      PROVE  bound'[t] = b
  BY <1>1, <1>3 DEF CallTypeOK
<1>4. ASSUME bound'[t] = b, ask' = ask, NEW e \in 0 .. n, Empty(t, e),
             IsFirst(e, f, n), IsLast(e, l, n)
      PROVE  Knows(pc'[t], ask'[t], bound'[t], search'[t], window'[t], genesis')
  <2>1. pc'[t] = "done" /\ window'[t] = [start |-> e, end |-> e]
    BY <1>1, <1>4 DEF Empty, Goto, CallTypeOK
  <2> QED
    BY <1>4, <2>1 DEF Knows, IsDaily
<1>5. ASSUME b.ts # NoTime, f > b.ts
      PROVE  IsFirst(n, f, n) /\ IsLast(n, l, n)
  <2>1. b.ts = TimeOf(n) /\ TimeOf(n) < f
    BY <1>5 DEF OnChain
  <2>2. AllBefore(n, f)
    BY <1>1, <2>1 DEF AllBefore, Sorted
  <2> QED
    BY <1>1, <2>1, <2>2 DEF IsFirst, IsLast, AllAfter
<1>6. ASSUME genesis # NoTime, l < genesis
      PROVE  IsFirst(0, f, n) /\ IsLast(0, l, n)
  <2>1. genesis = TimeOf(0) /\ f <= TimeOf(0)
    BY <1>1, <1>6
  <2>2. AllAfter(1, l, n)
    BY <1>1, <1>6, <2>1 DEF AllAfter, Sorted
  <2> QED
    BY <1>1, <2>1, <2>2 DEF IsFirst, IsLast, AllBefore
<1>7. ASSUME genesis # NoTime, f <= genesis
      PROVE  IsFirst(0, f, n)
  BY <1>1, <1>7 DEF IsFirst, AllBefore
<1>8. ASSUME bound'[t] = b, ask' = ask, SeekStart(t, b)
      PROVE  Knows(pc'[t], ask'[t], bound'[t], search'[t], window'[t], genesis')
  <2> DEFINE s == [lo |-> 0, hi |-> n, result |-> n]
  <2>1. pc'[t] = "first" /\ search'[t] = s
    BY <1>1, <1>8 DEF CallTypeOK, SeekStart, Goto
  <2>2. FirstLoop(s, f, n)
    BY <1>1 DEF FirstLoop, AllBefore, AllFrom
  <2> QED
    BY <1>8, <2>1, <2>2 DEF Knows, IsDaily
<1>9. ASSUME bound'[t] = b, ask' = ask, DailyBounds(t, b), IsDaily(t)
      PROVE  Knows(pc'[t], ask'[t], bound'[t], search'[t], window'[t], genesis')
  BY <1>1, <1>4, <1>5, <1>8, <1>9 DEF DailyBounds
<1>10. ASSUME bound'[t] = b, ask' = ask, RangeBounds(t, b), ~IsDaily(t)
       PROVE  Knows(pc'[t], ask'[t], bound'[t], search'[t], window'[t], genesis')
  <2>1. genesis # NoTime /\ b.ts # NoTime
    BY <1>10
  <2>2. CASE f > b.ts /\ Empty(t, n)
    BY <1>1, <1>4, <1>5, <1>10, <2>1, <2>2
  <2>3. CASE l < genesis /\ Empty(t, 0)
    BY <1>1, <1>4, <1>6, <1>10, <2>1, <2>3
  <2>4. CASE f <= genesis /\ SeekEnd(t, b, 0)
    BY <1>7, <1>10, <2>1, <2>4, SeekEndKnows
  <2>5. CASE SeekStart(t, b)
    BY <1>8, <1>10, <2>5
  <2> QED
    BY <1>10, <2>2, <2>3, <2>4, <2>5 DEF RangeBounds
<1> QED
  BY <1>2, <1>3, <1>9, <1>10 DEF UseBounds

-----------------------------------------------------------------------------
(* The invariant *)

\* The call that takes a step knows what it has found (BlockWindowCalculator).
LEMMA StepKnows ==
    ASSUME WindowInv, NEW t \in Tasks, Step(t)
    PROVE  Knows(pc'[t], ask'[t], bound'[t], search'[t], window'[t], genesis')
<1> USE DEF Goto
<1>1. /\ TypeInv /\ CallTypeOK /\ Sorted /\ CallInv(t) /\ OnChain(memo) /\ TypeOK
      /\ HeadBlock \in Nat /\ \A x \in 0 .. HeadBlock : TimeOf(x) \in Nat
      /\ genesis # NoTime => genesis = TimeOf(0)
      /\ search[t] \in Search /\ ask[t].from \in Nat /\ ask[t].to \in Nat /\ bound[t] \in Bound
  BY TypeParts, ChainTypes DEF WindowInv, SharedInv, TypeInv, CallTypeOK, Search
<1>2. CASE Leave(t)
  BY <1>1, <1>2, LeaveKnows
<1>3. CASE Ask(t)
  <2>1. ASSUME NEW d \in Days, DailyHit(t, d) \/ DailyMiss(t, d)
        PROVE  Knows(pc'[t], ask'[t], bound'[t], search'[t], window'[t], genesis')
    <3>1. /\ pc'[t] \in {"hit", "head"}
          /\ ask'[t] = [day |-> d, from |-> d * DayLength, to |-> (d + 1) * DayLength - 1]
      BY <1>1, <2>1 DEF CallTypeOK, DailyHit, DailyMiss
    <3> QED
      BY <3>1, DayTypes DEF Knows, InOrder
  <2>2. ASSUME NEW r \in Ranges, AskRange(t, r[1], r[2])
        PROVE  Knows(pc'[t], ask'[t], bound'[t], search'[t], window'[t], genesis')
    <3>1. /\ pc'[t] = IF genesis = NoTime THEN "genesis" ELSE "head"
          /\ ask'[t] = [day |-> NoDay, from |-> r[1], to |-> r[2]] /\ genesis' = genesis
      BY <1>1, <2>2 DEF CallTypeOK, AskRange
    <3> QED
      BY <3>1, BlockWindowAssumption DEF Knows, InOrder
  <2> QED
    BY <1>3, <2>1, <2>2 DEF Ask
<1>4. CASE FetchGenesis(t)
  <2>1. TimeOf(0) \in Nat /\ pc[t] = "genesis" /\ pc'[t] = "head" /\ ask' = ask
    BY <1>1, <1>4 DEF CallTypeOK, FetchGenesis
  <2>2. genesis' # NoTime
    BY <1>4, <2>1 DEF FetchGenesis, NoTime
  <2> QED
    BY <1>1, <2>1, <2>2 DEF CallInv, Knows
<1>5. CASE MemoHit(t)
  <2> DEFINE b == [block |-> memo.block, ts |-> memo.ts]
  <2>1. b \in Bound /\ OnChain(b)
    BY <1>1 DEF TypeOK, Bound, OnChain
  <2>2. ~IsDaily(t) => genesis # NoTime /\ b.ts # NoTime
    BY <1>1, <1>5 DEF CallInv, Knows, MemoHit, Serves, WantsTime, IsDaily
  <2>3. InOrder(ask[t]) /\ UseBounds(t, b) /\ genesis' = genesis
    BY <1>1, <1>5 DEF CallInv, Knows, MemoHit
  <2> HIDE DEF b
  <2> QED
    BY <1>1, <2>1, <2>2, <2>3, UseBoundsKnows
<1>6. CASE MemoMiss(t)
  <2>1. pc[t] = "head" /\ pc'[t] = "number" /\ UNCHANGED <<genesis, ask, bound, search, window>>
    BY <1>1, <1>6 DEF CallTypeOK, MemoMiss
  <2> QED
    BY <1>1, <2>1 DEF CallInv, Knows
<1>7. CASE FetchNumber(t)
  <2> DEFINE b == [block |-> HeadBlock, ts |-> NoTime]
  <2>1. b \in Bound /\ OnChain(b)
    BY <1>1 DEF Bound, OnChain
  <2>2. IsDaily(t) /\ InOrder(ask[t]) /\ UseBounds(t, b) /\ genesis' = genesis
    BY <1>1, <1>7 DEF CallInv, Knows, FetchNumber, WantsTime
  <2> HIDE DEF b
  <2> QED
    BY <1>1, <2>1, <2>2, UseBoundsKnows
<1>8. CASE FetchNumberFirst(t)
  <2>1. /\ pc[t] = "number" /\ pc'[t] = "time" /\ UNCHANGED <<genesis, ask, search, window>>
        /\ bound'[t] = [block |-> HeadBlock, ts |-> NoTime]
    BY <1>1, <1>8 DEF CallTypeOK, FetchNumberFirst
  <2> QED
    BY <1>1, <2>1 DEF CallInv, Knows, OnChain
<1>9. CASE FetchTime(t)
  <2> DEFINE n == bound[t].block
             b == [block |-> n, ts |-> TimeOf(n)]
  <2>1. n \in 0 .. HeadBlock
    BY <1>1, <1>9 DEF FetchTime, Bound
  <2>2. b \in Bound /\ OnChain(b) /\ b.ts # NoTime
    BY <1>1, <2>1 DEF Bound, OnChain, NoTime
  <2>3. InOrder(ask[t]) /\ (~IsDaily(t) => genesis # NoTime)
    BY <1>1, <1>9 DEF CallInv, Knows, FetchTime, IsDaily
  <2>4. UseBounds(t, b) /\ genesis' = genesis
    BY <1>9 DEF FetchTime
  <2> HIDE DEF b
  <2> QED
    BY <1>1, <2>2, <2>3, <2>4, UseBoundsKnows
<1>10. CASE ProbeFirst(t)
  <2> DEFINE b == bound[t]
             s == FirstProbed(search[t], ask[t].from)
  <2>1. /\ pc[t] = "first" /\ InOrder(ask[t]) /\ OnChain(b) /\ b.block \in 0 .. HeadBlock
        /\ FirstLoop(search[t], ask[t].from, b.block)
        /\ ~IsDaily(t) => genesis # NoTime /\ b.ts # NoTime
    BY <1>1, <1>10 DEF CallInv, Knows, ProbeFirst, OnChain, IsDaily
  <2>2. IF Searching(s) THEN FirstLoop(s, ask[t].from, b.block)
                        ELSE IsFirst(s.result, ask[t].from, b.block)
    BY <1>1, <2>1, FirstSearchIsExact
  <2>3. UNCHANGED <<genesis, ask, bound>>
    BY <1>10 DEF ProbeFirst
  <2>4. CASE Searching(s) /\ search' = [search EXCEPT ![t] = s] /\ UNCHANGED <<pc, window>>
    <3>1. search'[t] = s
      BY <1>1, <2>4 DEF CallTypeOK
    <3> HIDE DEF s
    <3> QED
      BY <2>1, <2>2, <2>3, <2>4, <3>1 DEF Knows, IsDaily
  <2>5. CASE ~Searching(s) /\ SeekEnd(t, b, s.result)
    <3>1. s.result \in Nat /\ IsFirst(s.result, ask[t].from, b.block)
      BY <1>1, <2>1, <2>2, <2>5 DEF IsFirst
    <3> HIDE DEF s
    <3> QED
      BY <1>1, <2>1, <2>3, <2>5, <3>1, SeekEndKnows
  <2> QED
    BY <1>10, <2>4, <2>5 DEF ProbeFirst
<1>11. CASE ProbeLast(t)
  <2> DEFINE b == bound[t]
             s == LastProbed(search[t], ask[t].to)
             w == [start |-> window[t].start, end |-> s.result]
  <2>1. /\ pc[t] = "last" /\ InOrder(ask[t]) /\ OnChain(b) /\ b.block \in 0 .. HeadBlock
        /\ LastLoop(search[t], ask[t].to, b.block)
        /\ IsFirst(window[t].start, ask[t].from, b.block)
        /\ ~IsDaily(t) => genesis # NoTime /\ b.ts # NoTime
    BY <1>1, <1>11 DEF CallInv, Knows, ProbeLast, OnChain, IsDaily
  <2>2. IF Searching(s) THEN LastLoop(s, ask[t].to, b.block)
                        ELSE IsLast(s.result, ask[t].to, b.block)
    BY <1>1, <2>1, LastSearchIsExact
  <2>3. genesis' = genesis
    BY <1>11 DEF ProbeLast
  <2>4. CASE Searching(s) /\ search' = [search EXCEPT ![t] = s] /\ UNCHANGED <<pc, ask, bound, window>>
    <3>1. search'[t] = s
      BY <1>1, <2>4 DEF CallTypeOK
    <3> HIDE DEF s
    <3> QED
      BY <2>1, <2>2, <2>3, <2>4, <3>1 DEF Knows, IsDaily
  <2>5. CASE /\ ~Searching(s)
             /\ Goto(t, IF SafeToCache(t) THEN "insert" ELSE "done")
             /\ window' = [window EXCEPT ![t] = w]
             /\ UNCHANGED <<ask, bound>>
    <3>1. /\ pc'[t] = (IF SafeToCache(t) THEN "insert" ELSE "done")
          /\ window'[t].start = window[t].start /\ window'[t].end = s.result
      BY <1>1, <2>5 DEF CallTypeOK
    <3>2. IsLast(s.result, ask[t].to, b.block)
      BY <2>2, <2>5
    <3> HIDE DEF s
    <3> QED
      BY <2>1, <2>3, <2>5, <3>1, <3>2 DEF Knows, IsDaily, SafeToCache
  <2> QED
    BY <1>2, <1>11, <2>4, <2>5 DEF ProbeLast
<1>12. CASE Persist(t)
  <2>1. pc[t] = "insert" /\ pc'[t] = "done" /\ UNCHANGED <<genesis, ask, bound, search, window>>
    BY <1>1, <1>12 DEF CallTypeOK, Persist
  <2> QED
    BY <1>1, <2>1 DEF CallInv, Knows
<1> QED
  BY <1>2, <1>3, <1>4, <1>5, <1>6, <1>7, <1>8, <1>9, <1>10, <1>11, <1>12
     DEF Step, Acquire, Progress, Return, NotFound, FetchFails

\* A window known to be exact stays so when the chain grows.
LEMMA StoreStays ==
    ASSUME TypeOK, TypeOK', Grown, StoreIsExact,
           \A d \in Days : store'[d] \in {store[d], NoWindow}
    PROVE  StoreIsExact'
<1> SUFFICES ASSUME NEW d \in Days, store'[d] # NoWindow
             PROVE  \E b \in 0 .. HeadBlock' :
                      /\ TimeOf(b)' > (d + 1) * DayLength - 1
                      /\ IsFirst(store[d].start, d * DayLength, b)'
                      /\ IsLast(store[d].end, (d + 1) * DayLength - 1, b)'
  BY DEF StoreIsExact
<1>1. store'[d] = store[d] /\ HeadBlock' \in Nat
  BY ChainTypes DEF TypeOK, HeadBlock
<1>2. PICK b \in 0 .. HeadBlock : /\ TimeOf(b) > (d + 1) * DayLength - 1
                                 /\ IsFirst(store[d].start, d * DayLength, b)
                                 /\ IsLast(store[d].end, (d + 1) * DayLength - 1, b)
  BY <1>1 DEF StoreIsExact
<1>3. \A target, n : /\ IsFirst(n, target, b) => IsFirst(n, target, b)'
                     /\ IsLast(n, target, b) => IsLast(n, target, b)'
  BY <1>1, KnownStays
<1>4. b \in 0 .. HeadBlock' /\ TimeOf(b)' = TimeOf(b)
  BY <1>1, KnownStays
<1> QED
  BY <1>1, <1>2, <1>3, <1>4

\* What the calls share after a call's step (BlockWindowCalculator).
LEMMA SharedStep ==
    ASSUME WindowInv, TypeOK', NEW t \in Tasks, Step(t)
    PROVE  SharedInv'
<1>1. /\ TypeOK /\ CallTypeOK /\ Sorted /\ CallInv(t) /\ OnChain(memo) /\ StoreIsExact
      /\ HeadBlock \in Nat /\ \A x \in 0 .. HeadBlock : TimeOf(x) \in Nat
      /\ genesis # NoTime => genesis = TimeOf(0)
  BY TypeParts, ChainTypes DEF WindowInv, SharedInv, TypeInv
<1>2. chain' = chain
  BY DEF Step, Ask, Acquire, Progress, FetchFails, DailyHit, DailyMiss, AskRange, MemoHit, MemoMiss,
         FetchGenesis, FetchNumber, FetchNumberFirst, FetchTime, ProbeFirst, ProbeLast, NotFound,
         Persist, Return
<1>3. Grown /\ HeadBlock' = HeadBlock /\ \A x \in 0 .. HeadBlock : TimeOf(x)' = TimeOf(x)
  BY <1>1, <1>2, SameIsGrown DEF HeadBlock, Grown
<1>4. Sorted'
  BY <1>1, <1>3 DEF Sorted
<1>5. genesis' # NoTime => genesis' = TimeOf(0)'
  <2>1. genesis' \in {genesis, TimeOf(0)}
    BY DEF Step, Ask, Acquire, Progress, FetchFails, DailyHit, DailyMiss, AskRange, MemoHit, MemoMiss,
           FetchGenesis, FetchNumber, FetchNumberFirst, FetchTime, ProbeFirst, ProbeLast, NotFound,
           Persist, Return
  <2> QED
    BY <1>1, <1>3, <2>1
<1>6. OnChain(memo)'
  <2>1. CASE memo' = memo
    BY <1>1, <1>3, <2>1 DEF OnChain
  <2>2. CASE FetchNumber(t)
    <3>1. memo'.block = HeadBlock /\ memo'.ts = NoTime
      BY <2>2 DEF FetchNumber
    <3> QED
      BY <1>1, <1>3, <3>1 DEF OnChain
  <2>3. CASE FetchTime(t)
    <3>1. bound[t].block \in 0 .. HeadBlock
      BY <1>1, <2>3 DEF FetchTime, CallTypeOK, Bound
    <3>2. memo'.block = bound[t].block /\ memo'.ts = TimeOf(bound[t].block)
      BY <2>3 DEF FetchTime
    <3> QED
      BY <1>1, <1>3, <3>1, <3>2 DEF OnChain
  <2> QED
    BY <2>1, <2>2, <2>3
       DEF Step, Ask, Acquire, Progress, FetchFails, DailyHit, DailyMiss, AskRange, MemoHit, MemoMiss,
           FetchGenesis, FetchNumberFirst, ProbeFirst, ProbeLast, NotFound, Persist, Return
<1>7. StoreIsExact'
  <2>1. CASE store' = store
    BY <1>1, <1>3, <2>1, StoreStays
  <2>2. CASE pc[t] = "insert" /\ store' = [store EXCEPT ![ask[t].day] = window[t]]
    <3> DEFINE d == ask[t].day
               b == bound[t].block
    <3>1. /\ d \in Days /\ b \in 0 .. HeadBlock
          /\ TimeOf(b) > (d + 1) * DayLength - 1
          /\ IsFirst(window[t].start, d * DayLength, b)
          /\ IsLast(window[t].end, (d + 1) * DayLength - 1, b)
      <4>1. /\ d # NoDay /\ InOrder(ask[t]) /\ OnChain(bound[t]) /\ bound[t].ts # NoTime
            /\ ask[t].to < bound[t].ts
            /\ IsFirst(window[t].start, ask[t].from, b) /\ IsLast(window[t].end, ask[t].to, b)
        BY <1>1, <2>2 DEF CallInv, Knows
      <4>2. d \in Days
        BY <1>1, <4>1 DEF CallTypeOK
      <4>3. ask[t].from = d * DayLength /\ ask[t].to = (d + 1) * DayLength - 1
        BY <4>1 DEF InOrder
      <4>4. b \in 0 .. HeadBlock /\ bound[t].ts = TimeOf(b)
        BY <4>1 DEF OnChain
      <4>5. ask[t].to \in Nat /\ TimeOf(b) \in Nat
        BY <1>1, <4>4 DEF CallTypeOK
      <4>6. TimeOf(b) > ask[t].to
        BY <4>1, <4>4, <4>5
      <4> QED
        BY <4>1, <4>2, <4>3, <4>4, <4>6
    <3>2. \A e \in Days : store'[e] = IF e = d THEN window[t] ELSE store[e]
      BY <2>2, <3>1 DEF TypeOK, WindowInv, TypeInv
    <3> HIDE DEF d, b
    <3>3. \A e \in Days : store'[e] # NoWindow =>
            \E c \in 0 .. HeadBlock :
                /\ TimeOf(c) > (e + 1) * DayLength - 1
                /\ IsFirst(store'[e].start, e * DayLength, c)
                /\ IsLast(store'[e].end, (e + 1) * DayLength - 1, c)
      BY <1>1, <3>1, <3>2 DEF StoreIsExact
    <3>4. \A c \in 0 .. HeadBlock : \A target, n :
            /\ TimeOf(c)' = TimeOf(c)
            /\ IsFirst(n, target, c) => IsFirst(n, target, c)'
            /\ IsLast(n, target, c) => IsLast(n, target, c)'
      BY <1>1, <1>3, KnownStays
    <3> QED
      BY <1>3, <3>3, <3>4 DEF StoreIsExact
  <2> QED
    BY <2>1, <2>2
       DEF Step, Ask, Acquire, Progress, FetchFails, DailyHit, DailyMiss, AskRange, MemoHit, MemoMiss,
           FetchGenesis, FetchNumber, FetchNumberFirst, FetchTime, ProbeFirst, ProbeLast, NotFound,
           Persist, Return
<1> QED
  BY <1>4, <1>5, <1>6, <1>7 DEF SharedInv

\* A new block comes after the others (the chain).
LEMMA NewBlockGrows ==
    ASSUME TypeOK, NEW time \in Times, NewBlock(time)
    PROVE  /\ Grown /\ HeadBlock' = HeadBlock + 1 /\ TimeOf(HeadBlock)' = time
           /\ Monotonic => TimeOf(HeadBlock) <= time
<1>1. /\ chain \in Seq(Nat) /\ chain # <<>> /\ time \in Nat /\ chain' = Append(chain, time)
      /\ HeadBlock \in Nat /\ TimeOf(HeadBlock) \in Nat
  BY ChainTypes, BlockWindowAssumption DEF TypeOK, NewBlock, Times
<1>2. /\ Len(chain) \in Nat /\ HeadBlock + 1 = Len(chain) /\ Len(chain') = Len(chain) + 1
      /\ chain'[Len(chain) + 1] = time
      /\ \A i \in 1 .. Len(chain) : chain'[i] = chain[i]
  BY <1>1 DEF HeadBlock
<1>3. HeadBlock' = HeadBlock + 1 /\ TimeOf(HeadBlock)' = time
  BY <1>1, <1>2 DEF HeadBlock, TimeOf
<1>4. \A b \in 0 .. HeadBlock : TimeOf(b)' = TimeOf(b)
  BY <1>1, <1>2 DEF TimeOf
<1>5. Monotonic => TimeOf(HeadBlock) <= time
  BY <1>1 DEF NewBlock
<1> QED
  BY <1>1, <1>3, <1>4, <1>5 DEF Grown

LEMMA SortedStays ==
    ASSUME TypeOK, Sorted, Monotonic, NEW time \in Times, NewBlock(time)
    PROVE  Sorted'
<1>1. HeadBlock \in Nat /\ time \in Nat /\ \A b \in 0 .. HeadBlock : TimeOf(b) \in Nat
  BY ChainTypes, BlockWindowAssumption DEF Times
<1>2. /\ HeadBlock' = HeadBlock + 1 /\ \A y : y = HeadBlock' => TimeOf(y)' = time
      /\ TimeOf(HeadBlock) <= time /\ \A b \in 0 .. HeadBlock : TimeOf(b)' = TimeOf(b)
  BY NewBlockGrows DEF Grown, TimeOf
<1>3. \A x \in 0 .. HeadBlock : TimeOf(x) <= time
  BY <1>1, <1>2 DEF Sorted
<1> SUFFICES ASSUME NEW x \in 0 .. HeadBlock + 1, NEW y \in 0 .. HeadBlock + 1, x <= y
             PROVE  TimeOf(x)' <= TimeOf(y)'
  BY <1>2 DEF Sorted
<1>4. CASE y = HeadBlock + 1 /\ x = HeadBlock + 1
  BY <1>1, <1>2, <1>4
<1>5. CASE y = HeadBlock + 1 /\ x # HeadBlock + 1
  <2>1. x \in 0 .. HeadBlock
    BY <1>1, <1>5
  <2>2. TimeOf(x)' = TimeOf(x) /\ TimeOf(y)' = time
    BY <1>2, <1>5, <2>1
  <2> QED
    BY <1>3, <2>1, <2>2
<1>6. CASE y # HeadBlock + 1
  <2>1. x \in 0 .. HeadBlock /\ y \in 0 .. HeadBlock
    BY <1>1, <1>6
  <2>2. TimeOf(x)' = TimeOf(x) /\ TimeOf(y)' = TimeOf(y)
    BY <1>2, <2>1
  <2> QED
    BY <2>1, <2>2 DEF Sorted
<1> QED
  BY <1>4, <1>5, <1>6

\* What all calls know, and what is cached, on a chain that only grows
\* (BlockWindowCalculator).
THEOREM WindowInvariant ==
    ASSUME ChainIsFinal
    PROVE  Spec => []WindowInv
<1> DEFINE Inv == SharedInv /\ \A t \in Tasks : CallInv(t)
<1>1. Init => Inv
  <2> SUFFICES ASSUME Init PROVE Inv
    OBVIOUS
  <2>1. PICK time \in Times : chain = <<time>>
    BY DEF Init
  <2>2. HeadBlock = 0 /\ time \in Nat /\ TimeOf(0) = time
    BY <2>1, BlockWindowAssumption DEF HeadBlock, TimeOf, Times
  <2>3. Sorted
    BY <2>2 DEF Sorted
  <2>4. OnChain(memo) /\ StoreIsExact /\ genesis = NoTime
    BY <2>2 DEF Init, OnChain, NoHead, StoreIsExact
  <2>5. \A t \in Tasks : CallInv(t)
    BY DEF Init, CallInv, Knows
  <2> QED
    BY <2>3, <2>4, <2>5 DEF SharedInv
<1>2. TypeInv /\ TypeInv' /\ Inv /\ [Next]_vars => Inv'
  <2> SUFFICES ASSUME TypeInv, TypeInv', Inv, [Next]_vars PROVE Inv'
    OBVIOUS
  <2>1. TypeOK /\ TypeOK' /\ CallTypeOK /\ WindowInv /\ HeadBlock \in Nat
    BY TypeParts, ChainTypes DEF TypeInv, WindowInv
  <2>2. ASSUME NEW t \in Tasks, Step(t)
        PROVE  Inv'
    <3>1. SharedInv' /\ Knows(pc'[t], ask'[t], bound'[t], search'[t], window'[t], genesis')
      BY <2>1, <2>2, SharedStep, StepKnows
    <3>2. chain' = chain /\ genesis' \in {genesis, TimeOf(0)}
      BY <2>2
         DEF Step, Ask, Acquire, Progress, FetchFails, DailyHit, DailyMiss, AskRange, MemoHit,
             MemoMiss, FetchGenesis, FetchNumber, FetchNumberFirst, FetchTime, ProbeFirst,
             ProbeLast, NotFound, Persist, Return
    <3>3. Grown /\ (genesis # NoTime => genesis' # NoTime)
      BY <2>1, <3>2, SameIsGrown DEF SharedInv
    <3>4. \A u \in Tasks : u # t => CallInv(u)'
      BY <2>1, <2>2, <3>3, OthersStay, CallInvStays DEF Step
    <3>5. CallInv(t)'
      BY <2>1, <3>1, <3>2, CallInvFrom
    <3> QED
      BY <3>1, <3>4, <3>5
  <2>3. ASSUME Grown, Sorted', UNCHANGED <<genesis, pc, ask, bound, search, window>>,
               UNCHANGED <<memo.block, memo.ts>>, \A d \in Days : store'[d] \in {store[d], NoWindow}
        PROVE  Inv'
    <3>1. \A t \in Tasks : CallInv(t)'
      BY <2>1, <2>3, CallInvStays
    <3>2. StoreIsExact'
      BY <2>1, <2>3, StoreStays DEF SharedInv
    <3>3. HeadBlock' \in Nat /\ 0 \in 0 .. HeadBlock
      BY <2>1, ChainTypes DEF HeadBlock, TypeOK
    <3>4. genesis' # NoTime => genesis' = TimeOf(0)'
      BY <2>3, <3>3 DEF SharedInv, Grown
    <3>5. OnChain(memo)'
      BY <2>1, <2>3, <3>3 DEF SharedInv, Grown, OnChain
    <3> QED
      BY <2>3, <3>1, <3>2, <3>4, <3>5 DEF SharedInv
  <2>4. ASSUME UNCHANGED chain
        PROVE  Grown /\ Sorted'
    <3>1. HeadBlock' = HeadBlock /\ \A x \in 0 .. HeadBlock : TimeOf(x)' = TimeOf(x)
      BY <2>4 DEF HeadBlock, TimeOf
    <3> QED
      BY <2>1, <3>1 DEF SharedInv, Sorted, Grown
  <2>5. CASE Environment
    <3>1. CASE ExpireHead
      <4>1. UNCHANGED <<memo.block, memo.ts>>
        BY <2>1, <3>1 DEF ExpireHead, TypeOK
      <4> QED
        BY <2>3, <2>4, <3>1, <4>1 DEF ExpireHead
    <3>2. ASSUME NEW d \in Days, Evict(d)
          PROVE  Inv'
      <4>1. \A e \in Days : store'[e] \in {store[e], NoWindow}
        BY <2>1, <3>2 DEF Evict, TypeOK
      <4> QED
        BY <2>3, <2>4, <3>2, <4>1 DEF Evict
    <3>3. ASSUME NEW time \in Times, NewBlock(time)
          PROVE  Inv'
      <4>1. Grown /\ Sorted'
        BY <2>1, <3>3, NewBlockGrows, SortedStays DEF ChainIsFinal, SharedInv
      <4> QED
        BY <2>3, <3>3, <4>1 DEF NewBlock
    <3> QED
      BY <2>5, <3>1, <3>2, <3>3 DEF Environment, ChainIsFinal
  <2>6. CASE UNCHANGED vars
    BY <2>3, <2>4, <2>6 DEF vars
  <2> QED
    BY <2>2, <2>5, <2>6 DEF Next, Step
<1>3. TypeInv /\ Inv => WindowInv
  BY DEF WindowInv
<1> HIDE DEF Inv
<1> QED
  BY <1>1, <1>2, <1>3, BlockWindowTypes, PTL DEF Spec

\* The answer of a call that had to compute is what the reference searches say of
\* the blocks up to the head it used, short-circuits included, whatever the other
\* calls do to the memo meanwhile (get_daily_window, block_range_for_timestamps).
THEOREM AnswersAreExact ==
    ASSUME ChainIsFinal
    PROVE  Spec => []AnswerIsExact
<1>1. WindowInv => AnswerIsExact
  <2> SUFFICES ASSUME WindowInv, NEW t \in Tasks, pc[t] = "done"
               PROVE  window[t] = [start |-> FirstAtOrAfter(ask[t].from, bound[t].block),
                                   end   |-> LastAtOrBefore(ask[t].to, bound[t].block)]
    BY DEF AnswerIsExact
  <2>1. /\ IsFirst(window[t].start, ask[t].from, bound[t].block)
        /\ IsLast(window[t].end, ask[t].to, bound[t].block)
        /\ bound[t].block \in 0 .. HeadBlock
    BY DEF WindowInv, CallInv, Knows, OnChain
  <2>2. TypeOK /\ Sorted /\ ask[t].from \in Nat /\ ask[t].to \in Nat
    BY DEF WindowInv, SharedInv, TypeInv, TypeOK
  <2>3. /\ window[t].start = FirstAtOrAfter(ask[t].from, bound[t].block)
        /\ window[t].end = LastAtOrBefore(ask[t].to, bound[t].block)
    BY <2>1, <2>2, FirstIsFirst, LastIsLast
  <2>4. window[t] = [start |-> window[t].start, end |-> window[t].end]
    <3>1. window[t] \in [start : Nat, end : Nat] \cup {NoWindow}
      BY <2>2 DEF TypeOK
    <3> QED
      BY <3>1 DEF NoWindow
  <2> QED
    BY <2>3, <2>4
<1> QED
  BY <1>1, WindowInvariant, PTL

\* What was found from a block after the day holds of the whole chain.
LEMMA StoredIsOfTheChain ==
    ASSUME WindowInv, NEW d \in Days, NEW s, NEW b \in 0 .. HeadBlock,
           TimeOf(b) > (d + 1) * DayLength - 1,
           IsFirst(s.start, d * DayLength, b), IsLast(s.end, (d + 1) * DayLength - 1, b)
    PROVE  /\ IsFirst(s.start, d * DayLength, HeadBlock)
           /\ IsLast(s.end, (d + 1) * DayLength - 1, HeadBlock)
<1> DEFINE f == d * DayLength
           l == (d + 1) * DayLength - 1
<1>1. f \in Nat /\ l \in Nat /\ f <= l
  BY DayTypes
<1> HIDE DEF f, l
<1>2. TypeOK /\ Sorted /\ HeadBlock \in Nat /\ \A x \in 0 .. HeadBlock : TimeOf(x) \in Nat
  BY ChainTypes DEF WindowInv, SharedInv, TypeInv
<1>3. TimeOf(b) > l /\ IsFirst(s.start, f, b) /\ IsLast(s.end, l, b)
  BY DEF f, l
<1>4. IsFirst(s.start, f, HeadBlock)
  BY <1>1, <1>2, <1>3 DEF IsFirst
<1>5. AllAfter(s.end + 1, l, HeadBlock)
  <2> SUFFICES ASSUME NEW x \in s.end + 1 .. HeadBlock PROVE TimeOf(x) > l
    BY DEF AllAfter
  <2>1. s.end \in 0 .. b /\ x \in 0 .. HeadBlock
    BY <1>2, <1>3 DEF IsLast
  <2>2. CASE x <= b
    BY <1>2, <1>3, <2>1, <2>2 DEF IsLast, AllAfter
  <2>3. CASE x > b
    BY <1>1, <1>2, <1>3, <2>1, <2>3 DEF Sorted
  <2> QED
    BY <1>2, <2>1, <2>2, <2>3
<1>6. IsLast(s.end, l, HeadBlock)
  BY <1>2, <1>3, <1>5 DEF IsLast
<1> QED
  BY <1>4, <1>6 DEF f, l

\* What is cached of a day is what a search of the whole chain would find, however
\* much the chain has grown since.
LEMMA StoredIsExact ==
    ASSUME WindowInv, NEW d \in Days, store[d] # NoWindow
    PROVE  /\ IsFirst(store[d].start, d * DayLength, HeadBlock)
           /\ IsLast(store[d].end, (d + 1) * DayLength - 1, HeadBlock)
<1>1. PICK b \in 0 .. HeadBlock :
        /\ TimeOf(b) > (d + 1) * DayLength - 1
        /\ IsFirst(store[d].start, d * DayLength, b)
        /\ IsLast(store[d].end, (d + 1) * DayLength - 1, b)
  BY DEF WindowInv, SharedInv, StoreIsExact
<1> QED
  BY <1>1, StoredIsOfTheChain

\* "Immutable for past dates": a cached window of a day that does not lie before
\* the chain began is the set of all blocks of that day (get_daily_window).
THEOREM PersistedWindowsAreFinal ==
    ASSUME ChainIsFinal
    PROVE  Spec => []PersistedIsFinal
<1>1. WindowInv => PersistedIsFinal
  <2> SUFFICES ASSUME WindowInv, NEW d \in Days, store[d] # NoWindow,
                      TimeOf(0) < (d + 1) * DayLength
               PROVE  store[d].start .. store[d].end = BlocksOf(d)
    BY DEF PersistedIsFinal
  <2> DEFINE f == d * DayLength
             l == (d + 1) * DayLength - 1
             a == store[d].start
             z == store[d].end
  <2>1. f \in Nat /\ l \in Nat
    BY DayTypes
  <2>2. TypeOK /\ Sorted /\ HeadBlock \in Nat /\ \A x \in 0 .. HeadBlock : TimeOf(x) \in Nat
    BY ChainTypes DEF WindowInv, SharedInv, TypeInv
  <2>3. IsFirst(a, f, HeadBlock) /\ IsLast(z, l, HeadBlock)
    BY StoredIsExact
  <2>4. PICK b \in 0 .. HeadBlock : TimeOf(b) > l /\ l >= f
    BY DayTypes DEF WindowInv, SharedInv, StoreIsExact
  <2>5. TimeOf(0) <= l
    <3>1. TimeOf(0) \in Nat /\ d \in Nat /\ DayLength \in Nat
      BY <2>2, BlockWindowAssumption
    <3>2. (d + 1) * DayLength \in Int
      BY <3>1
    <3> QED
      BY <3>1, <3>2
  <2>6. BlocksOf(d) = {x \in 0 .. HeadBlock : f <= TimeOf(x) /\ TimeOf(x) <= l}
    <3>1. \A x \in 0 .. HeadBlock : TimeOf(x) \in DayOf(d) <=> f <= TimeOf(x) /\ TimeOf(x) <= l
      BY <2>1, <2>2 DEF DayOf
    <3> QED
      BY <3>1 DEF BlocksOf
  <2> HIDE DEF f, l, a, z
  <2>7. a \in 0 .. HeadBlock /\ z \in 0 .. HeadBlock
    BY <2>3 DEF IsFirst, IsLast
  <2>8. TimeOf(a) >= f
    <3>1. CASE a = HeadBlock
      <4>1. TimeOf(b) <= TimeOf(a)
        BY <2>2, <2>7, <3>1 DEF Sorted
      <4> QED
        BY <2>1, <2>2, <2>4, <2>7, <4>1
    <3> QED
      BY <2>3, <3>1 DEF IsFirst
  <2>9. TimeOf(z) <= l
    BY <2>3, <2>5 DEF IsLast
  <2>10. ASSUME NEW x \in 0 .. HeadBlock
         PROVE  (f <= TimeOf(x) <=> a <= x) /\ (TimeOf(x) <= l <=> x <= z)
    <3>1. a <= x => f <= TimeOf(x)
      BY <2>1, <2>2, <2>7, <2>8 DEF Sorted
    <3>2. x < a => TimeOf(x) < f
      BY <2>2, <2>3, <2>7 DEF IsFirst, AllBefore
    <3>3. x <= z => TimeOf(x) <= l
      BY <2>1, <2>2, <2>7, <2>9 DEF Sorted
    <3>4. z < x => TimeOf(x) > l
      BY <2>2, <2>3, <2>7 DEF IsLast, AllAfter
    <3> QED
      BY <2>1, <2>2, <2>7, <3>1, <3>2, <3>3, <3>4
  <2>11. a .. z = {x \in 0 .. HeadBlock : f <= TimeOf(x) /\ TimeOf(x) <= l}
    BY <2>2, <2>7, <2>10
  <2> QED
    BY <2>6, <2>11 DEF a, z
<1> QED
  BY <1>1, WindowInvariant, PTL

\* A window of a day that is about to be persisted (get_daily_window).
LEMMA InsertedIsExact ==
    ASSUME WindowInv, NEW t \in Tasks, pc[t] = "insert"
    PROVE  /\ ask[t].day \in Days
           /\ IsFirst(window[t].start, ask[t].day * DayLength, HeadBlock)
           /\ IsLast(window[t].end, (ask[t].day + 1) * DayLength - 1, HeadBlock)
<1> DEFINE d == ask[t].day
           b == bound[t].block
<1>1. /\ d # NoDay /\ InOrder(ask[t]) /\ OnChain(bound[t]) /\ bound[t].ts # NoTime
      /\ ask[t].to < bound[t].ts /\ CallTypeOK
      /\ IsFirst(window[t].start, ask[t].from, b) /\ IsLast(window[t].end, ask[t].to, b)
  BY TypeParts DEF CallInv, Knows, WindowInv, TypeInv
<1>2. /\ d \in Days /\ ask[t].from = d * DayLength /\ ask[t].to = (d + 1) * DayLength - 1
      /\ b \in 0 .. HeadBlock /\ bound[t].ts = TimeOf(b)
  BY <1>1 DEF CallTypeOK, InOrder, OnChain
<1>3. ask[t].to \in Nat /\ TimeOf(b) \in Nat
  BY <1>1, <1>2, ChainTypes DEF CallTypeOK, WindowInv, TypeInv
<1>4. /\ TimeOf(b) > (d + 1) * DayLength - 1
      /\ IsFirst(window[t].start, d * DayLength, b)
      /\ IsLast(window[t].end, (d + 1) * DayLength - 1, b)
  BY <1>1, <1>2, <1>3
<1> HIDE DEF d, b
<1>5. /\ IsFirst(window[t].start, d * DayLength, HeadBlock)
      /\ IsLast(window[t].end, (d + 1) * DayLength - 1, HeadBlock)
  BY <1>2, <1>4, StoredIsOfTheChain
<1> QED
  BY <1>2, <1>5 DEF d

\* Whoever computes a day, from whatever head, persists the same window
\* (get_daily_window).
THEOREM PersistedWindowsNeverChange ==
    ASSUME ChainIsFinal
    PROVE  Spec => PersistedNeverChanges
<1> DEFINE Kept == \A d \in Days : store[d] # NoWindow /\ store[d]' # NoWindow => store[d]' = store[d]
<1>1. WindowInv /\ [Next]_vars => Kept
  <2> SUFFICES ASSUME WindowInv, [Next]_vars, NEW d \in Days,
                      store[d] # NoWindow, store'[d] # NoWindow
               PROVE  store'[d] = store[d]
    OBVIOUS
  <2> DEFINE f == d * DayLength
             l == (d + 1) * DayLength - 1
  <2>1. /\ TypeOK /\ Sorted /\ f \in Nat /\ l \in Nat
        /\ store \in [Days -> Window \cup {NoWindow}] /\ CallTypeOK
    BY DayTypes, TypeParts DEF WindowInv, TypeInv, SharedInv
  <2>2. CASE store'[d] = store[d]
    BY <2>2
  <2>3. ASSUME NEW t \in Tasks, Persist(t), store' = [store EXCEPT ![ask[t].day] = window[t]],
               ask[t].day = d
        PROVE  store'[d] = store[d]
    <3>1. /\ IsFirst(window[t].start, f, HeadBlock) /\ IsLast(window[t].end, l, HeadBlock)
      BY <2>3, InsertedIsExact DEF Persist
    <3>2. /\ IsFirst(store[d].start, f, HeadBlock) /\ IsLast(store[d].end, l, HeadBlock)
      BY StoredIsExact
    <3>3. /\ window[t].start = store[d].start /\ window[t].end = store[d].end
      BY <2>1, <3>1, <3>2, FirstIsFirst, LastIsLast, ChainTypes
    <3>4. window[t] \in Window /\ store[d] \in Window
      BY <2>1, <2>3 DEF WindowInv, TypeInv, HasWindow, Persist
    <3>5. window[t] = store[d]
      BY <3>3, <3>4 DEF Window
    <3> QED
      BY <2>1, <2>3, <3>5
  <2>4. ASSUME NEW t \in Tasks, Persist(t)
        PROVE  store'[d] = store[d]
    BY <2>1, <2>2, <2>3, <2>4 DEF Persist
  <2>5. ASSUME NEW e \in Days, Evict(e)
        PROVE  store'[d] = store[d]
    BY <2>1, <2>5 DEF Evict
  <2>6. CASE store' = store
    BY <2>6
  <2> QED
    BY <2>4, <2>5, <2>6
       DEF Next, vars, Ask, Acquire, Progress, FetchFails, DailyHit, DailyMiss, AskRange, MemoHit,
           MemoMiss, FetchGenesis, FetchNumber, FetchNumberFirst, FetchTime, ProbeFirst, ProbeLast,
           NotFound, Return, Environment, ExpireHead, NewBlock, Reorg
<1>2. WindowInv /\ [Next]_vars => [Kept]_vars
  BY <1>1
<1> QED
  BY <1>2, WindowInvariant, PTL DEF PersistedNeverChanges, Spec

-----------------------------------------------------------------------------
(* The memo *)

\* Who fetches holds the mutex, and what is fetched is not older than the memo.
HeadInv ==
    /\ memo.block <= HeadBlock
    /\ \A t \in Tasks : /\ pc[t] \in {"number", "time"} => holder = t
                        /\ pc[t] = "time" => memo.block <= bound[t].block

\* A call that has the bounds fetches no head (compute_block_range_given_bounds).
LEMMA UseBoundsEnds ==
    ASSUME CallTypeOK, NEW t \in Tasks, NEW b, UseBounds(t, b)
    PROVE  pc'[t] \notin {"number", "time"}
  BY DEF UseBounds, DailyBounds, RangeBounds, SeekEnd, SeekStart, Empty, Leave, Goto, CallTypeOK

\* Two calls never fetch the head at once, so no late answer replaces a newer head
\* (ChainBoundsMemo::get_or_fetch_head).
THEOREM HeadIsNeverOlder ==
    ASSUME ReorgDepth = 0
    PROVE  Spec => HeadNeverGoesBack
<1>1. Init => HeadInv
  <2> SUFFICES ASSUME Init PROVE HeadInv
    OBVIOUS
  <2>1. HeadBlock = 0
    BY DEF Init, HeadBlock
  <2> QED
    BY <2>1 DEF Init, HeadInv, NoHead
<1>2. TypeInv /\ TypeInv' /\ HeadInv /\ [Next]_vars => HeadInv' /\ memo.block <= memo'.block
  <2> SUFFICES ASSUME TypeInv, TypeInv', HeadInv, [Next]_vars
               PROVE  HeadInv' /\ memo.block <= memo'.block
    OBVIOUS
  <2>1. /\ TypeOK /\ CallTypeOK /\ HeadBlock \in Nat /\ memo.block \in Nat
        /\ \A t \in Tasks : bound[t].block \in Nat
    BY TypeParts, ChainTypes DEF TypeInv, TypeOK
  <2>2. ASSUME NEW t \in Tasks, Step(t)
        PROVE  HeadInv' /\ memo.block <= memo'.block
    <3>1. chain' = chain /\ HeadBlock' = HeadBlock
      BY <2>2 DEF Step, Ask, Acquire, Progress, FetchFails, DailyHit, DailyMiss, AskRange, MemoHit,
         MemoMiss, FetchGenesis, FetchNumber, FetchNumberFirst, FetchTime, ProbeFirst, ProbeLast,
         NotFound, Persist, Return, HeadBlock
    <3>2. \A u \in Tasks : u # t => pc'[u] = pc[u] /\ bound'[u] = bound[u]
      BY <2>1, <2>2, OthersStay DEF Step
    <3>3. CASE /\ UNCHANGED <<memo, holder>> /\ pc'[t] \notin {"number", "time"}
      BY <2>1, <3>1, <3>2, <3>3 DEF HeadInv
    <3>4. CASE Ask(t) \/ FetchGenesis(t) \/ ProbeFirst(t) \/ ProbeLast(t) \/ Persist(t) \/ Return(t)
      BY <2>1, <3>3, <3>4
         DEF Ask, DailyHit, DailyMiss, AskRange, FetchGenesis, ProbeFirst, ProbeLast, Persist, Return,
             SeekEnd, Leave, Goto, CallTypeOK
    <3>5. CASE MemoHit(t)
      BY <2>1, <3>3, <3>5, UseBoundsEnds DEF MemoHit
    <3>6. CASE MemoMiss(t)
      <4>1. /\ memo' = memo /\ holder = NoTask /\ holder' = t /\ pc'[t] = "number"
        BY <2>1, <3>6 DEF MemoMiss, Goto, CallTypeOK
      <4>2. \A u \in Tasks : pc[u] \notin {"number", "time"}
        BY <4>1, BlockWindowAssumption DEF HeadInv
      <4> QED
        BY <2>1, <3>1, <3>2, <4>1, <4>2 DEF HeadInv
    <3>7. ASSUME holder = t, holder' = NoTask, pc'[t] \notin {"number", "time"},
                 memo'.block \in Nat, memo.block <= memo'.block, memo'.block <= HeadBlock
          PROVE  HeadInv' /\ memo.block <= memo'.block
      <4>1. \A u \in Tasks : pc'[u] \notin {"number", "time"}
        BY <3>2, <3>7 DEF HeadInv
      <4> QED
        BY <3>1, <3>7, <4>1 DEF HeadInv
    <3>8. CASE FetchNumber(t)
      <4>1. memo'.block = HeadBlock /\ holder' = NoTask /\ holder = t /\ pc'[t] \notin {"number", "time"}
        BY <2>1, <3>8, UseBoundsEnds DEF FetchNumber, HeadInv
      <4> QED
        BY <2>1, <3>7, <4>1 DEF HeadInv
    <3>9. CASE FetchNumberFirst(t)
      <4>1. /\ UNCHANGED <<memo, holder>> /\ holder = t
            /\ pc'[t] = "time" /\ bound'[t].block = HeadBlock
        BY <2>1, <3>9 DEF FetchNumberFirst, HeadInv, Goto, CallTypeOK
      <4> QED
        BY <2>1, <3>1, <3>2, <4>1 DEF HeadInv
    <3>10. CASE FetchTime(t)
      <4>1. /\ memo'.block = bound[t].block /\ bound[t].block <= HeadBlock
            /\ holder' = NoTask /\ holder = t /\ memo.block <= bound[t].block
        BY <3>10 DEF FetchTime, HeadInv
      <4>2. pc'[t] \notin {"number", "time"}
        BY <2>1, <3>10, UseBoundsEnds DEF FetchTime
      <4> QED
        BY <2>1, <3>7, <4>1, <4>2
    <3>11. CASE FetchFails(t)
      <4>1. /\ memo' = memo /\ holder' = (IF holder = t THEN NoTask ELSE holder)
            /\ pc'[t] = "idle"
        BY <2>1, <3>11 DEF FetchFails, Leave, Goto, CallTypeOK
      <4> QED
        BY <2>1, <3>1, <3>2, <4>1 DEF HeadInv
    <3> QED
      BY <2>2, <3>4, <3>5, <3>6, <3>8, <3>9, <3>10, <3>11 DEF Step, Acquire, Progress, NotFound
  <2>3. ASSUME UNCHANGED <<holder, pc, bound>>, memo'.block = memo.block, HeadBlock' >= HeadBlock
        PROVE  HeadInv' /\ memo.block <= memo'.block
    <3>1. HeadBlock' \in Nat
      BY ChainTypes DEF TypeInv, TypeOK, HeadBlock
    <3> QED
      BY <2>1, <2>3, <3>1 DEF HeadInv
  <2>4. CASE Environment
    <3>1. CASE ExpireHead
      <4>1. memo'.block = memo.block /\ HeadBlock' = HeadBlock /\ UNCHANGED <<holder, pc, bound>>
        BY <2>1, <3>1 DEF ExpireHead, TypeOK, HeadBlock
      <4> QED
        BY <2>1, <2>3, <4>1
    <3>2. ASSUME NEW d \in Days, Evict(d)
          PROVE  HeadInv' /\ memo.block <= memo'.block
      BY <2>1, <2>3, <3>2 DEF Evict, HeadBlock
    <3>3. ASSUME NEW time \in Times, NewBlock(time)
          PROVE  HeadInv' /\ memo.block <= memo'.block
      <4>1. HeadBlock' = HeadBlock + 1
        BY <2>1, <3>3, NewBlockGrows
      <4> QED
        BY <2>1, <2>3, <3>3, <4>1 DEF NewBlock
    <3>4. 1 .. ReorgDepth = {}
      OBVIOUS
    <3> QED
      BY <2>4, <3>1, <3>2, <3>3, <3>4 DEF Environment
  <2>5. CASE UNCHANGED vars
    BY <2>1, <2>3, <2>5 DEF vars, HeadBlock
  <2> QED
    BY <2>2, <2>4, <2>5 DEF Next, Step
<1> QED
  BY <1>1, <1>2, BlockWindowTypes, PTL DEF Spec, HeadNeverGoesBack
=============================================================================
