-------------------------- MODULE Transport_proofs ---------------------------
(* Proofs about what stands between a caller and a node, for every number of  *)
(* callers, every limit and every configuration: that the token bucket bounds *)
(* the rate of its callers, that a caller that retries is such a caller, what *)
(* a call that fails has tried; and that a pool hands out providers with the  *)
(* limits its builder was told, when a get_or_add fails and what it replaces. *)
EXTENDS Retry, ProviderPool, FiniteSetTheorems, WellFoundedInduction, TLAPS

-----------------------------------------------------------------------------
(* The rate limiter and the retry layer over it *)

IInv == BucketTypeOK /\ Conserved

\* What comes in some time is a number of parts (refill).
LEMMA Products ==
    ASSUME NEW x \in Nat, NEW y \in Nat
    PROVE  x * y \in Nat
OBVIOUS

\* The bucket holds what it has been given, up to its capacity (refill).
LEMMA AvailableBounds ==
    ASSUME BucketTypeOK
    PROVE  /\ Capacity \in Nat
           /\ since * Requests \in Nat
           /\ Available \in 0 .. Capacity
           /\ Available <= tokens + since * Requests
<1>1. Capacity \in Nat
  BY RateLimitAssumption DEF Capacity
<1>2. since * Requests \in Nat
  BY RateLimitAssumption DEF BucketTypeOK
<1> QED
  BY <1>1, <1>2 DEF Available, BucketTypeOK

\* A step that leaves the bucket and the count alone keeps the invariant: a call
\* begins, sleeps on, wakes, is answered or is dropped.
LEMMA IdleSteps ==
    ASSUME IInv, UNCHANGED <<bucket, window>>
    PROVE  IInv'
BY DEF IInv, BucketTypeOK, Conserved, Available, Capacity, bucket, window

\* A request takes a token (try_acquire).
LEMMA AcquireStep ==
    ASSUME IInv, NEW c \in Callers, Acquire(c)
    PROVE  IInv'
<1>1. /\ Capacity \in Nat
      /\ Available \in 0 .. Capacity
  BY AvailableBounds DEF IInv
<1>2. /\ tokens' = Available - Period
      /\ since' = 0 /\ seen' = seen + 1 /\ age' = age
      /\ Available >= Period
  BY DEF Acquire, EnoughForOne
<1>3. BucketTypeOK'
  BY <1>1, <1>2, RateLimitAssumption DEF IInv, BucketTypeOK, Capacity
<1>4. Available' = Available - Period
  BY <1>1, <1>2, <1>3, RateLimitAssumption DEF Available, Capacity, BucketTypeOK
<1>5. (seen + 1) * Period = seen * Period + Period /\ seen * Period \in Nat
  BY RateLimitAssumption DEF IInv, BucketTypeOK
<1>6. Requests * age \in Nat
  BY RateLimitAssumption DEF IInv, BucketTypeOK
<1>7. seen * Period + Available <= Capacity + Requests * age
  BY DEF IInv, Conserved
<1>8. (seen + 1) * Period + (Available - Period) <= Capacity + Requests * age
  BY <1>1, <1>5, <1>6, <1>7, RateLimitAssumption
<1> QED
  BY <1>2, <1>3, <1>4, <1>8 DEF IInv, Conserved, Capacity

\* A caller that must wait leaves the bucket refilled (refill).
LEMMA SleepStep ==
    ASSUME IInv, NEW c \in Callers, Sleep(c)
    PROVE  IInv'
<1>1. /\ Capacity \in Nat
      /\ Available \in 0 .. Capacity
  BY AvailableBounds DEF IInv
<1>2. /\ tokens' = Available
      /\ since' = 0 /\ seen' = seen /\ age' = age
  BY DEF Sleep, window
<1>3. BucketTypeOK'
  BY <1>1, <1>2, RateLimitAssumption DEF IInv, BucketTypeOK, Capacity
<1>4. Available' = Available
  BY <1>1, <1>2, <1>3, RateLimitAssumption DEF Available, Capacity, BucketTypeOK
<1> QED
  BY <1>2, <1>3, <1>4 DEF IInv, Conserved, Capacity

\* A nanosecond brings Requests parts of a token, and allows as many.
LEMMA TickStep ==
    ASSUME IInv, Tick
    PROVE  IInv'
<1>1. /\ Capacity \in Nat
      /\ since * Requests \in Nat
      /\ Available \in 0 .. Capacity
  BY AvailableBounds DEF IInv
<1>2. BucketTypeOK'
  BY RateLimitAssumption DEF Tick, IInv, BucketTypeOK, Capacity
<1>3. Available' \in 0 .. Capacity
  <2>1. since' \in Nat /\ tokens' \in Nat
    BY <1>1, <1>2 DEF BucketTypeOK, Capacity
  <2>2. since' * Requests \in Nat
    BY <2>1, Products, RateLimitAssumption
  <2> QED
    BY <1>1, <2>1, <2>2 DEF Available, Capacity
<1>4. Available' <= Available + Requests
  <2>1. CASE since < Period
    <3>1. since' = since + 1 /\ tokens' = tokens
      BY <2>1 DEF Tick
    <3>2. since' * Requests = since * Requests + Requests
      BY <3>1, RateLimitAssumption DEF IInv, BucketTypeOK
    <3> QED
      BY <1>1, <3>1, <3>2, RateLimitAssumption DEF Available, IInv, BucketTypeOK, Capacity
  <2>2. CASE ~(since < Period)
    <3>1. since' = since /\ tokens' = tokens
      BY <2>2 DEF Tick
    <3>2. Available' = Available
      BY <3>1 DEF Available, Capacity
    <3> QED
      BY <1>1, <3>2, RateLimitAssumption
  <2> QED
    BY <2>1, <2>2
<1>5. CASE age < MaxAge
  <2>1. age' = age + 1 /\ seen' = seen
    BY <1>5 DEF Tick, IInv, BucketTypeOK
  <2>2. Requests * (age + 1) = Requests * age + Requests /\ Requests * age \in Nat
    BY RateLimitAssumption DEF IInv, BucketTypeOK
  <2>3. seen * Period \in Nat
    BY RateLimitAssumption DEF IInv, BucketTypeOK
  <2>4. seen * Period + Available <= Capacity + Requests * age
    BY DEF IInv, Conserved
  <2>5. seen * Period + Available' <= Capacity + (Requests * age + Requests)
    BY <1>1, <1>3, <1>4, <2>2, <2>3, <2>4, RateLimitAssumption
  <2> QED
    BY <1>2, <2>1, <2>2, <2>5 DEF IInv, Conserved, Capacity
<1>6. CASE ~(age < MaxAge)
  <2>1. age' = 0 /\ seen' = 0
    BY <1>6 DEF Tick
  <2>2. seen' * Period = 0 /\ Requests * age' = 0
    BY <2>1, RateLimitAssumption
  <2>3. seen' * Period + Available' <= Capacity + Requests * age'
    BY <1>1, <1>3, <2>2
  <2> QED
    BY <1>2, <2>3 DEF IInv, Conserved, Capacity
<1> QED
  BY <1>5, <1>6

\* A new count starts from nothing.
LEMMA ObserveStep ==
    ASSUME IInv, Observe
    PROVE  IInv'
<1>1. Capacity \in Nat /\ Available \in 0 .. Capacity
  BY AvailableBounds DEF IInv
<1>2. /\ age' = 0 /\ seen' = 0
      /\ tokens' = tokens /\ since' = since
  BY DEF Observe, bucket
<1>3. Available' = Available
  BY <1>2 DEF Available, Capacity
<1>4. BucketTypeOK'
  BY <1>2, RateLimitAssumption DEF IInv, BucketTypeOK, Capacity
<1>5. seen' * Period = 0 /\ Requests * age' = 0
  BY <1>2, RateLimitAssumption
<1>6. seen' * Period + Available' <= Capacity + Requests * age'
  BY <1>1, <1>3, <1>5
<1> QED
  BY <1>4, <1>6 DEF IInv, Conserved, Capacity

\* A new bucket is full, and nothing has been sent (RateLimitState::new).
LEMMA InitIsConserved ==
    ASSUME Init
    PROVE  IInv
<1>1. Capacity \in Nat
  BY RateLimitAssumption DEF Capacity
<1>2. BucketTypeOK
  BY <1>1, RateLimitAssumption DEF Init, BucketTypeOK
<1>3. Available = Capacity
  BY <1>1, RateLimitAssumption DEF Init, Available
<1> QED
  BY <1>1, <1>2, <1>3, RateLimitAssumption DEF Init, IInv, Conserved

\* What is in the bucket is not negative, so what has been sent was let through.
LEMMA ConservedBoundsRate ==
    ASSUME IInv
    PROVE  RateIsBounded
<1>1. Capacity \in Nat /\ Available \in 0 .. Capacity
  BY AvailableBounds DEF IInv
<1>2. Requests * (Period + age) = Capacity + Requests * age
  BY RateLimitAssumption DEF IInv, BucketTypeOK, Capacity
<1>3. seen * Period \in Nat /\ Requests * age \in Nat
  BY RateLimitAssumption DEF IInv, BucketTypeOK
<1> QED
  BY <1>1, <1>2, <1>3 DEF IInv, Conserved, RateIsBounded

\* The bucket is never overdrawn or overfull, and what it has let through is
\* paid for (RateLimitState).
THEOREM BucketIsConserved == Spec => []IInv
<1>1. Init => IInv
  BY InitIsConserved
<1>2. IInv /\ [Next]_vars => IInv'
  <2> SUFFICES ASSUME IInv, [Next]_vars PROVE IInv'
    OBVIOUS
  <2>1. ASSUME NEW c \in Callers, Call(c) PROVE IInv'
    BY <2>1, IdleSteps DEF Call, bucket, window
  <2>2. ASSUME NEW c \in Callers, Acquire(c) PROVE IInv'
    BY <2>2, AcquireStep
  <2>3. ASSUME NEW c \in Callers, Sleep(c) PROVE IInv'
    BY <2>3, SleepStep
  <2>4. ASSUME NEW c \in Callers, Wake(c) PROVE IInv'
    BY <2>4, IdleSteps DEF Wake, bucket, window
  <2>5. ASSUME NEW c \in Callers, Answer(c) PROVE IInv'
    BY <2>5, IdleSteps DEF Answer, bucket, window
  <2>6. ASSUME NEW c \in Callers, Drop(c) PROVE IInv'
    BY <2>6, IdleSteps DEF Drop, bucket, window
  <2>7. CASE Tick
    BY <2>7, TickStep
  <2>8. CASE Observe
    BY <2>8, ObserveStep
  <2>9. CASE UNCHANGED vars
    BY <2>9, IdleSteps DEF vars, bucket, window
  <2> QED
    BY <2>1, <2>2, <2>3, <2>4, <2>5, <2>6, <2>7, <2>8, <2>9 DEF Next
<1> QED
  BY <1>1, <1>2, PTL DEF Spec

\* In any stretch of time no more requests are sent than a full bucket and the
\* tokens of that time allow (RateLimitService::call).
THEOREM Rate == Spec => []RateIsBounded
<1>1. IInv => RateIsBounded
  BY ConservedBoundsRate
<1> QED
  BY <1>1, BucketIsConserved, PTL

-----------------------------------------------------------------------------
(* Retry *)

\* A call has sent one request per attempt, and one more while it waits for the
\* answer or for the next attempt; only a call that may retry backs off; and an
\* answer that asks to try again is returned when all attempts have been sent.
SendsMatchAttempts ==
    \A c \in Callers :
        /\ pc[c] \in {"asking", "sleeping"} => sends[c] = attempt[c]
        /\ pc[c] \in {"sent", "backoff"} => sends[c] = attempt[c] + 1
        /\ pc[c] = "backoff" => attempt[c] < MaxRetries
        /\ pc[c] # "idle" => reply[c] = "none"
        /\ reply[c] \in Transient => sends[c] = MaxRetries + 1

\* Only a call that sleeps or backs off has time left to sleep.
OnlySleepersWait ==
    \A c \in Callers : pc[c] \notin {"sleeping", "backoff"} => left[c] = 0

RetryInv == RetryTypeOK /\ Conserved /\ SendsMatchAttempts /\ OnlySleepersWait

\* The delay before a retry is a number, and never above max_delay
\* (calculate_backoff).
LEMMA BackoffIsCapped ==
    ASSUME NEW k \in Nat
    PROVE  Backoff(k) \in Nat /\ Backoff(k) <= MaxDelay
<1>1. 2 ^ k \in Nat
  <2>1. IsFiniteSet(1 .. k) /\ Cardinality(1 .. k) = k
    BY FS_Interval
  <2>2. IsFiniteSet(SUBSET (1 .. k)) /\ Cardinality(SUBSET (1 .. k)) = 2 ^ k
    BY <2>1, FS_SUBSET
  <2> QED
    BY <2>2, FS_CardinalityType
<1> DEFINE ms == (BaseDelay \div Milli) * 2 ^ k
           cap == MaxDelay \div Milli
           d == IF ms < cap THEN ms ELSE cap
<1>2. BaseDelay \div Milli \in Nat
  BY RetryAssumption
<1>3. ms \in Nat
  BY <1>1, <1>2, Products
<1>4. cap \in Nat /\ Milli * cap <= MaxDelay
  BY RetryAssumption
<1>5. d \in Nat /\ d <= cap
  BY <1>3, <1>4
<1>6. Milli * d \in Nat /\ Milli * d <= Milli * cap
  <2> HIDE DEF d, cap
  <2>1. Milli \in Nat
    BY RetryAssumption
  <2> QED
    BY <1>4, <1>5, <2>1
<1>7. Backoff(k) = Milli * d
  BY DEF Backoff
<1> QED
  <2> HIDE DEF d, cap
  <2> QED
    BY <1>4, <1>6, <1>7, RetryAssumption

\* Every step of a call that retries is one of the rate limiter's for the bucket
\* (RetryService::call around RateLimitService::call).
LEMMA RetryBucketStep ==
    ASSUME IInv, [RetryNext]_<<vars, retries>>
    PROVE  IInv'
<1>1. ASSUME NEW c \in Callers, Send(c) PROVE IInv'
  BY <1>1, AcquireStep DEF Send
<1>2. ASSUME NEW c \in Callers, Sleep(c) PROVE IInv'
  BY <1>2, SleepStep
<1>3. ASSUME NEW c \in Callers,
             Begin(c) \/ Return(c) \/ BackOff(c) \/ Again(c) \/ Wake(c) \/ Drop(c)
      PROVE  IInv'
  BY <1>3, IdleSteps DEF Begin, Call, Return, Answer, BackOff, Again, Wake, Drop, bucket, window
<1>4. CASE Tick
  BY <1>4, TickStep
<1>5. CASE Observe
  BY <1>5, ObserveStep
<1>6. CASE UNCHANGED <<vars, retries>>
  BY <1>6, IdleSteps DEF vars, bucket, window
<1> QED
  BY <1>1, <1>2, <1>3, <1>4, <1>5, <1>6 DEF RetryNext, Progress

\* The wait for a token is a number (RateLimitState::try_acquire).
LEMMA WaitIsNat ==
    ASSUME IInv, ~EnoughForOne
    PROVE  Wait \in Nat
<1>1. Available \in Nat /\ Period - Available \in Nat
  BY AvailableBounds, RateLimitAssumption DEF IInv, EnoughForOne, Capacity
<1> QED
  BY <1>1, RateLimitAssumption DEF Wait

\* A step of one call keeps what is known of it, and touches no other
\* (RetryService::call).
LEMMA RetryCallStep ==
    ASSUME RetryInv, NEW c \in Callers,
           Begin(c) \/ Progress(c) \/ (Drop(c) /\ UNCHANGED retries),
           BucketTypeOK'
    PROVE  RetryTypeOK' /\ SendsMatchAttempts' /\ OnlySleepersWait'
<1> USE DEF RetryInv, RetryTypeOK, SendsMatchAttempts, OnlySleepersWait, Goto, Transient, retries
<1>1. CASE Begin(c)
  BY <1>1, RetryAssumption DEF Begin, Call
<1>2. CASE Send(c)
  BY <1>2, RetryAssumption DEF Send, Acquire
<1>3. CASE Return(c)
  BY <1>3, RetryAssumption DEF Return, Answer, IsRetryable, MayRetry
<1>4. CASE BackOff(c)
  <2>1. Backoff(attempt[c]) \in Nat
    BY BackoffIsCapped
  <2> QED
    BY <1>4, <2>1, RetryAssumption DEF BackOff, MayRetry
<1>5. CASE Again(c)
  BY <1>5, RetryAssumption DEF Again
<1>6. CASE Sleep(c) /\ UNCHANGED retries
  <2>1. Wait \in Nat
    BY <1>6, WaitIsNat DEF Sleep, IInv
  <2> QED
    BY <1>6, <2>1, RetryAssumption DEF Sleep
<1>7. CASE Wake(c) /\ UNCHANGED retries
  BY <1>7, RetryAssumption DEF Wake
<1>8. CASE Drop(c) /\ UNCHANGED retries
  BY <1>8, RetryAssumption DEF Drop
<1> QED
  BY <1>1, <1>2, <1>3, <1>4, <1>5, <1>6, <1>7, <1>8 DEF Progress

\* What is known of every call, and of the bucket they share, holds in every
\* state (RetryService::call).
THEOREM RetryInvariant == RetrySpec => []RetryInv
<1>1. RetryInit => RetryInv
  <2> SUFFICES ASSUME RetryInit PROVE RetryInv
    OBVIOUS
  <2>1. IInv
    BY InitIsConserved DEF RetryInit
  <2>2. RetryTypeOK /\ SendsMatchAttempts /\ OnlySleepersWait
    BY <2>1, RetryAssumption
       DEF RetryInit, Init, IInv, RetryTypeOK, SendsMatchAttempts,
           OnlySleepersWait, Transient
  <2> QED
    BY <2>1, <2>2 DEF RetryInv, IInv
<1>2. RetryInv /\ [RetryNext]_<<vars, retries>> => RetryInv'
  <2> SUFFICES ASSUME RetryInv, [RetryNext]_<<vars, retries>> PROVE RetryInv'
    OBVIOUS
  <2>1. BucketTypeOK' /\ Conserved'
    BY RetryBucketStep DEF RetryInv, RetryTypeOK, IInv
  <2>2. CASE \E c \in Callers : Begin(c) \/ Progress(c) \/ (Drop(c) /\ UNCHANGED retries)
    BY <2>1, <2>2, RetryCallStep DEF RetryInv
  <2>3. CASE (Tick \/ Observe \/ UNCHANGED vars) /\ UNCHANGED retries
    <3>1. left' \in [Callers -> Nat] /\ pc' = pc
      BY <2>3 DEF Tick, Observe, vars, RetryInv, RetryTypeOK, Elapsed
    <3>2. OnlySleepersWait'
      BY <2>3, <3>1 DEF Tick, Observe, vars, RetryInv, RetryTypeOK, OnlySleepersWait, Elapsed
    <3> QED
      BY <2>1, <2>3, <3>1, <3>2 DEF RetryInv, RetryTypeOK, SendsMatchAttempts, retries
  <2> QED
    BY <2>2, <2>3 DEF RetryNext
<1> QED
  BY <1>1, <1>2, PTL DEF RetrySpec

\* Types of the variables, of every call of a provider that retries
\* (RetryService::call).
THEOREM RetryTypeCorrect == RetrySpec => []RetryTypeOK
<1>1. RetryInv => RetryTypeOK
  BY DEF RetryInv
<1> QED
  BY <1>1, RetryInvariant, PTL

\* Retries do not exceed the rate either (RateLimitService::call).
THEOREM RetryRate == RetrySpec => []RateIsBounded
<1>1. RetryInv => RateIsBounded
  BY ConservedBoundsRate DEF RetryInv, RetryTypeOK, IInv
<1> QED
  BY <1>1, RetryInvariant, PTL

\* Unless the provider answers with an error response that is a success to the
\* transport, a call that returns a transient failure has met one with every
\* attempt it may make (RetryService::call).
THEOREM TransientFailuresAreRetried ==
    ASSUME "limited" \notin Replies
    PROVE  RetrySpec => []TransientIsRetried
<1>1. RetryInv => TransientIsRetried
  BY DEF RetryInv, RetryTypeOK, SendsMatchAttempts, TransientIsRetried, Transient
<1> QED
  BY <1>1, RetryInvariant, PTL

\* A call's step is the same step of the rate limiter, where a call that backs
\* off does not call (RetryService::call around RateLimitService::call).
LEMMA PacedCallStep ==
    ASSUME RetryInv, NEW c \in Callers,
           Begin(c) \/ Progress(c) \/ (Drop(c) /\ UNCHANGED retries)
    PROVE  [Paced!Next]_(Paced!vars)
<1> USE DEF RetryInv, RetryTypeOK, OnlySleepersWait, Goto, Paced!Goto, Paced!Next, Paced!vars, bucket, window,
            Paced!bucket, Paced!window
<1>1. CASE Begin(c)
  BY <1>1 DEF Begin, Call, Paced!Call
<1>2. CASE Send(c)
  BY <1>2 DEF Send, Acquire, Paced!Acquire, EnoughForOne, Paced!EnoughForOne, Available,
              Paced!Available, Capacity, Paced!Capacity
<1>3. CASE Return(c)
  BY <1>3 DEF Return, Answer, Paced!Answer
<1>4. CASE BackOff(c)
  BY <1>4 DEF BackOff, Paced!Answer
<1>5. CASE Again(c)
  BY <1>5 DEF Again, Paced!Call
<1>6. CASE Sleep(c) /\ UNCHANGED retries
  BY <1>6 DEF Sleep, Paced!Sleep, EnoughForOne, Paced!EnoughForOne, Available,
              Paced!Available, Capacity, Paced!Capacity, Wait, Paced!Wait
<1>7. CASE Wake(c) /\ UNCHANGED retries
  BY <1>7 DEF Wake, Paced!Wake
<1>8. CASE Drop(c) /\ UNCHANGED retries
  <2>1. CASE pc[c] = "backoff"
    BY <1>8, <2>1 DEF Drop
  <2>2. CASE pc[c] # "backoff"
    BY <1>8, <2>2 DEF Drop, Paced!Drop
  <2> QED
    BY <2>1, <2>2
<1> QED
  BY <1>1, <1>2, <1>3, <1>4, <1>5, <1>6, <1>7, <1>8 DEF Progress

\* A provider that retries is one that only limits its rate, to which each retry
\* is a call of its own (docs/PROVIDER_SETUP.md's order of the layers).
THEOREM RetryImplementsRateLimit == RetrySpec => RetriesArePaced
<1>1. RetryInit => Paced!Init
  BY DEF RetryInit, Init, Paced!Init, Capacity, Paced!Capacity
<1>2. RetryInv /\ [RetryNext]_<<vars, retries>> => [Paced!Next]_(Paced!vars)
  <2> SUFFICES ASSUME RetryInv, [RetryNext]_<<vars, retries>>
               PROVE  [Paced!Next]_(Paced!vars)
    OBVIOUS
  <2>1. CASE \E c \in Callers : Begin(c) \/ Progress(c) \/ (Drop(c) /\ UNCHANGED retries)
    BY <2>1, PacedCallStep
  <2>2. CASE Tick
    BY <2>2 DEF Tick, Paced!Tick, Paced!Next, bucket, window, Elapsed, Paced!Elapsed
  <2>3. CASE Observe
    BY <2>3 DEF Observe, Paced!Observe, Paced!Next, bucket, Paced!bucket
  <2>4. CASE UNCHANGED <<vars, retries>>
    BY <2>4 DEF vars, bucket, window, Paced!vars, Paced!bucket, Paced!window
  <2> QED
    BY <2>1, <2>2, <2>3, <2>4 DEF RetryNext
<1> QED
  BY <1>1, <1>2, RetryInvariant, PTL DEF RetrySpec, RetriesArePaced, Paced!Spec

-----------------------------------------------------------------------------
(* The provider pool *)

Limits == [rate_limit : Limit, min_delay : Limit, timeout : Limit]

\* Some provider, which only an insertion makes
Provider == [id : Nat \ {0}, limits : Limits]

Calls == [pc : {"creating", "created", "inserted", "returned", "failed", "panicked"},
          op : {"add", "get_or_add"}, endpoint : Endpoints,
          provider : Provider \cup {NoProvider}, missed_at : Nat, emptied : BOOLEAN]

\* Types of the pool and of its tasks.
PoolTypeOK ==
    /\ stage \in {"building", "built", "shared", "failed", "panicked"}
    /\ defaults \in [rate_limit : Limit, timeout : Limit]
    /\ providers \in [Chains -> Provider \cup {NoProvider}]
    /\ inserted \in Nat
    /\ task \in [Tasks -> Calls \cup {Idle}]

\* Tasks run on a pool that has been shared.
TasksShare == stage # "shared" => \A t \in Tasks : task[t] = Idle

\* What a task has inserted is there until the chain is emptied.
InsertedIsThere ==
    \A t \in Tasks : task[t].pc = "inserted" =>
        providers[task[t].endpoint.chain] # NoProvider \/ task[t].emptied

\* What is there when a get_or_add inserts came after it had looked.
OnlyNewcomers ==
    \A t \in Tasks : task[t].pc \in {"creating", "created"} /\ task[t].op = "get_or_add" =>
        LET p == providers[task[t].endpoint.chain]
        IN  p = NoProvider \/ p.id > task[t].missed_at

MissedBefore ==
    \A t \in Tasks : task[t].pc \in {"creating", "created"} => task[t].missed_at <= inserted

Builders == [endpoints : Seq(Endpoints), rate_limit : Limit, timeout : Limit,
             policy_timeouts : [Chains -> Limit], policy_min_delays : [Chains -> Limit]]

\* Types of the builder.
BuilderTypeOK == setters \in Seq(BuilderCalls) /\ builder \in Builders

PoolInv ==
    /\ PoolTypeOK /\ BuilderTypeOK /\ TasksShare /\ MissedBefore
    /\ InsertedIsThere /\ FailsOnlyIfEmptied /\ OnlyNewcomers

-----------------------------------------------------------------------------
(* Endpoints and providers *)

\* The defaults leave an endpoint an endpoint of its chain (add_inner).
LEMMA WithDefaultsType ==
    ASSUME NEW e \in Endpoints, NEW d \in [rate_limit : Limit, timeout : Limit]
    PROVE  /\ WithDefaults(e, d) \in Endpoints
           /\ WithDefaults(e, d).chain = e.chain
  BY DEF WithDefaults, Endpoints, Limit, Or

\* A task that begins a call is where the call begins (ProviderPool::get_or_add).
LEMMA CallingType ==
    ASSUME PoolTypeOK, NEW t \in Tasks, NEW call \in PoolCalls,
           NEW at \in {"creating", "returned"}
    PROVE  /\ Calling(t, call, at) \in Calls
           /\ Calling(t, call, at).pc = at
           /\ Calling(t, call, at).op = call.op
           /\ Calling(t, call, at).endpoint.chain = call.endpoint.chain
           /\ Calling(t, call, at).missed_at = inserted
           /\ call.endpoint.chain \in Chains
<1>1. call.endpoint \in Endpoints /\ call.op \in {"add", "get_or_add"}
  BY PoolAssumption
<1>2. /\ WithDefaults(call.endpoint, defaults) \in Endpoints
      /\ WithDefaults(call.endpoint, defaults).chain = call.endpoint.chain
  BY <1>1, WithDefaultsType DEF PoolTypeOK
<1>3. call.endpoint.chain \in Chains
  BY <1>1 DEF Endpoints
<1> QED
  BY <1>1, <1>2, <1>3 DEF Calling, Calls, PoolTypeOK

-----------------------------------------------------------------------------
(* The builder *)

\* A non-empty set of positions has a last one.
LEMMA LastPosition ==
    ASSUME NEW B \in Nat, NEW S \in SUBSET (1 .. B), S # {}
    PROVE  Max(S) \in S /\ \A x \in S : x <= Max(S)
<1> DEFINE R == OpToRel(<, Nat)
           T == {n \in Nat : \E x \in S : n = B - x}
<1>1. IsWellFoundedOn(R, Nat)
  BY NatLessThanWellFounded
<1>2. \A x, y \in Nat : <<y, x>> \in R <=> y < x
  BY DEF OpToRel
<1> HIDE DEF R
<1>3. \A x \in S : x \in Nat /\ x <= B /\ B - x \in T
  OBVIOUS
<1>4. PICK m \in T : \A y \in T : ~ (<<y, m>> \in R)
  BY <1>1, <1>3, WFMin
<1>5. \A y \in T : ~ (y < m)
  BY <1>2, <1>4, Zenon
<1>6. PICK s \in S : m = B - s
  BY <1>4
<1>7. \A x \in S : s >= x
  BY <1>3, <1>5, <1>6
<1> QED
  BY <1>3, <1>7 DEF Max

\* The next position is the last (Vec::push).
LEMMA NextIsLast ==
    ASSUME NEW B \in Nat, NEW S \in SUBSET (1 .. B)
    PROVE  Max(S \cup {B + 1}) = B + 1
<1> DEFINE T == S \cup {B + 1}
<1>1. B + 1 \in T /\ \A y \in T : y \in Nat /\ B + 1 >= y
  OBVIOUS
<1>2. \A x \in T : (\A y \in T : x >= y) => x = B + 1
  BY <1>1
<1> HIDE DEF T
<1>3. Max(T) = B + 1
  BY <1>1, <1>2 DEF Max
<1> QED
  BY <1>3 DEF T

\* What the builder fills in leaves an endpoint an endpoint of its chain (build).
LEMMA EffectiveType ==
    ASSUME BuilderTypeOK, NEW e \in Endpoints
    PROVE  /\ Effective(e) \in Endpoints
           /\ Effective(e).chain = e.chain
  BY DEF BuilderTypeOK, Builders, Effective, Endpoints, Limit, Or

LEMMA AddedType ==
    ASSUME BuilderTypeOK
    PROVE  /\ Added \in Seq(Endpoints)
           /\ DOMAIN Added = DOMAIN builder.endpoints
           /\ Len(Added) = Len(builder.endpoints)
           /\ \A i \in DOMAIN builder.endpoints :
                 /\ Added[i] = WithDefaults(Effective(builder.endpoints[i]), NewDefaults)
                 /\ Added[i].chain = builder.endpoints[i].chain
<1> DEFINE es == builder.endpoints
<1>1. es \in Seq(Endpoints)
  BY DEF BuilderTypeOK, Builders
<1>2. NewDefaults \in [rate_limit : Limit, timeout : Limit]
  BY DEF BuilderTypeOK, Builders, NewDefaults
<1>3. \A i \in DOMAIN es : es[i] \in Endpoints
  BY <1>1
<1>4. \A i \in DOMAIN es :
         /\ WithDefaults(Effective(es[i]), NewDefaults) \in Endpoints
         /\ WithDefaults(Effective(es[i]), NewDefaults).chain = es[i].chain
  BY <1>2, <1>3, EffectiveType, WithDefaultsType
<1>5. Added = [i \in 1 .. Len(es) |-> WithDefaults(Effective(es[i]), NewDefaults)]
  BY <1>1 DEF Added
<1>6. Len(es) \in Nat /\ DOMAIN es = 1 .. Len(es)
  BY <1>1
<1> HIDE DEF es
<1>7. Added \in Seq(Endpoints)
  BY <1>4, <1>5, <1>6
<1> QED
  BY <1>4, <1>5, <1>6, <1>7 DEF es

\* Each chain gets the client of its last endpoint, or none (from_endpoints).
LEMMA PoolOfType ==
    ASSUME NEW endpoints \in Seq(Endpoints), NEW c \in Chains
    PROVE  LET of == {i \in DOMAIN endpoints : endpoints[i].chain = c}
           IN  /\ of = {} => PoolOf(endpoints)[c] = NoProvider
               /\ of # {} => /\ Max(of) \in of
                             /\ PoolOf(endpoints)[c] =
                                   [id |-> Max(of), limits |-> LimitsOf(endpoints[Max(of)])]
               /\ PoolOf(endpoints)[c] \in Provider \cup {NoProvider}
<1> DEFINE of == {i \in DOMAIN endpoints : endpoints[i].chain = c}
<1>1. of \in SUBSET (1 .. Len(endpoints)) /\ Len(endpoints) \in Nat
  OBVIOUS
<1>2. PoolOf(endpoints)[c] = IF of = {} THEN NoProvider
                             ELSE [id |-> Max(of), limits |-> LimitsOf(endpoints[Max(of)])]
  BY DEF PoolOf
<1>3. of # {} => Max(of) \in of
  BY <1>1, LastPosition
<1>4. ASSUME of # {}
      PROVE  [id |-> Max(of), limits |-> LimitsOf(endpoints[Max(of)])] \in Provider
  <2>1. Max(of) \in Nat \ {0} /\ endpoints[Max(of)] \in Endpoints
    BY <1>1, <1>3, <1>4
  <2> QED
    BY <2>1 DEF Provider, Limits, LimitsOf, Endpoints
<1> QED
  BY <1>2, <1>3, <1>4

\* What new() makes is a builder (ProviderPoolBuilder::new).
LEMMA NewBuilderType == NewBuilder \in Builders
  BY DEF NewBuilder, Builders, Limit

\* A call on the builder leaves it a builder (ProviderPoolBuilder).
LEMMA SetType ==
    ASSUME BuilderTypeOK, NEW call \in BuilderCalls, Set(call)
    PROVE  BuilderTypeOK'
<1>1. setters' \in Seq(BuilderCalls)
  BY DEF Set, BuilderTypeOK, Builders
<1>2. CASE call.kind = "endpoint"
  <2>1. call.endpoint \in Endpoints /\ AddEndpoint(call.endpoint)
    BY <1>2, PoolAssumption DEF Set
  <2>2. Append(builder.endpoints, call.endpoint) \in Seq(Endpoints)
    BY <2>1 DEF BuilderTypeOK, Builders
  <2> QED
    BY <1>1, <2>1, <2>2 DEF AddEndpoint, BuilderTypeOK, Builders
<1>3. CASE call.kind = "policy"
  <2>1. call.policy \in Policies /\ WithRpcPolicy(call.policy)
    BY <1>3, PoolAssumption DEF Set
  <2>2. \A c \in Chains : /\ call.policy[c].rpc_timeout \in Limit
                          /\ call.policy[c].rate_limit_delay \in Limit
    BY <2>1 DEF Policies, Limit
  <2> QED
    BY <1>1, <2>1, <2>2 DEF WithRpcPolicy, BuilderTypeOK, Builders, Or
<1>4. CASE call.kind = "rate_limit"
  <2>1. call.value \in Limit /\ builder' = [builder EXCEPT !.rate_limit = call.value]
    BY <1>4, PoolAssumption DEF Set, Limit
  <2> QED
    BY <1>1, <2>1 DEF BuilderTypeOK, Builders
<1>5. CASE call.kind = "timeout"
  <2>1. call.value \in Limit /\ builder' = [builder EXCEPT !.timeout = call.value]
    BY <1>5, PoolAssumption DEF Set, Limit
  <2> QED
    BY <1>1, <2>1 DEF BuilderTypeOK, Builders
<1> QED
  BY <1>2, <1>3, <1>4, <1>5, PoolAssumption

-----------------------------------------------------------------------------
(* The pool *)

\* A step that leaves the tasks alone, and the pool unless none runs on it,
\* keeps what is known of them.
LEMMA TasksIdle ==
    ASSUME PoolInv, PoolTypeOK', BuilderTypeOK', UNCHANGED task, stage # "shared"
    PROVE  PoolInv'
<1>1. \A t \in Tasks : task'[t] = Idle
  BY DEF PoolInv, TasksShare
<1>2. \A t \in Tasks : task'[t].pc = "idle"
  BY <1>1 DEF Idle
<1> QED
  BY <1>1, <1>2 DEF PoolInv, TasksShare, MissedBefore, InsertedIsThere, FailsOnlyIfEmptied,
                    OnlyNewcomers

\* build() makes a pool, or none (ProviderPoolBuilder::build).
LEMMA BuildStep ==
    ASSUME PoolInv, Build
    PROVE  PoolInv'
<1>1. BuilderTypeOK'
  BY DEF PoolInv, Build, BuilderTypeOK, Builders
<1>2. Added \in Seq(Endpoints) /\ Len(Added) \in Nat
  BY AddedType DEF PoolInv
<1>3. PoolOf(Added) \in [Chains -> Provider \cup {NoProvider}]
  <2>1. \A c \in Chains : PoolOf(Added)[c] \in Provider \cup {NoProvider}
    BY <1>2, PoolOfType
  <2> QED
    BY <2>1 DEF PoolOf
<1>4. NewDefaults \in [rate_limit : Limit, timeout : Limit]
  BY DEF PoolInv, BuilderTypeOK, Builders, NewDefaults
<1>5. PoolTypeOK'
  BY <1>2, <1>3, <1>4 DEF PoolInv, PoolTypeOK, Build
<1> QED
  BY <1>1, <1>5, TasksIdle DEF Build

\* The builder's steps (ProviderPoolBuilder).
LEMMA BuilderStep ==
    ASSUME PoolInv, (\E call \in BuilderCalls : Set(call)) \/ Share \/ StartOver
    PROVE  PoolInv'
<1>1. BuilderTypeOK'
  <2>1. CASE \E call \in BuilderCalls : Set(call)
    BY <2>1, SetType DEF PoolInv
  <2>2. CASE Share \/ StartOver
    <3>1. builder' = NewBuilder /\ setters' = <<>>
      BY <2>2 DEF Share, StartOver
    <3>2. <<>> \in Seq(BuilderCalls)
      OBVIOUS
    <3> QED
      BY <3>1, <3>2, NewBuilderType DEF BuilderTypeOK
  <2> QED
    BY <2>1, <2>2
<1>2. PoolTypeOK'
  BY DEF PoolInv, PoolTypeOK, Set, Share, StartOver
<1> QED
  BY <1>1, <1>2, TasksIdle DEF Set, Share, StartOver

\* A task that is in a call is a call.
LEMMA InACall ==
    ASSUME PoolTypeOK, NEW t \in Tasks, task[t].pc # "idle"
    PROVE  task[t] \in Calls
  BY DEF PoolTypeOK, Idle

\* A task that moves on, while the pool stays as it is, keeps what is known of
\* all, when it is known of the task (ProviderPool::get_or_add).
LEMMA TaskMoves ==
    ASSUME PoolInv, NEW t \in Tasks, NEW new \in Calls \cup {Idle},
           task' = [task EXCEPT ![t] = new],
           UNCHANGED <<stage, builder, setters, defaults, providers, inserted>>,
           stage = "shared" \/ new = Idle,
           new.pc = "failed" => IsRefused(new.endpoint) \/ new.emptied,
           new.pc # "inserted",
           new.pc \in {"creating", "created"} =>
              /\ new.missed_at <= inserted
              /\ new.op = "get_or_add" =>
                    LET p == providers[new.endpoint.chain]
                    IN  p = NoProvider \/ p.id > new.missed_at
    PROVE  PoolInv'
<1>1. \A u \in Tasks : task'[u] = IF u = t THEN new ELSE task[u]
  BY DEF PoolInv, PoolTypeOK
<1>2. PoolTypeOK' /\ BuilderTypeOK'
  BY DEF PoolInv, PoolTypeOK, BuilderTypeOK
<1>3. TasksShare' /\ MissedBefore' /\ InsertedIsThere' /\ FailsOnlyIfEmptied' /\ OnlyNewcomers'
  BY <1>1 DEF PoolInv, TasksShare, MissedBefore, InsertedIsThere, FailsOnlyIfEmptied, OnlyNewcomers
<1> QED
  BY <1>2, <1>3 DEF PoolInv

\* The first look, and an add (ProviderPool::get_or_add, add_inner).
LEMMA BeginStep ==
    ASSUME PoolInv, NEW t \in Tasks, NEW call \in PoolCalls, GetOrAdd(t, call) \/ Add(t, call)
    PROVE  PoolInv'
<1> DEFINE p == providers[call.endpoint.chain]
           creating == Calling(t, call, "creating")
           returned == [Calling(t, call, "returned") EXCEPT !.provider = p]
<1>1. /\ creating \in Calls /\ creating.pc = "creating" /\ creating.op = call.op
      /\ creating.endpoint.chain = call.endpoint.chain
      /\ creating.missed_at = inserted
  BY CallingType DEF PoolInv
<1>2. p \in Provider \cup {NoProvider}
  BY CallingType DEF PoolInv, PoolTypeOK
<1>3. returned \in Calls /\ returned.pc = "returned"
  BY <1>2, CallingType DEF PoolInv, Calls
<1>4. inserted <= inserted
  BY DEF PoolInv, PoolTypeOK
<1> HIDE DEF creating, returned
<1>5. CASE task' = [task EXCEPT ![t] = creating] /\ (call.op = "get_or_add" => p = NoProvider)
  BY <1>1, <1>4, <1>5, TaskMoves DEF GetOrAdd, Add
<1>6. CASE task' = [task EXCEPT ![t] = returned]
  BY <1>3, <1>6, TaskMoves DEF GetOrAdd, Add
<1> QED
  BY <1>5, <1>6 DEF GetOrAdd, Add, creating, returned

\* A client is made, or not (create_pooled_provider).
LEMMA CreateStep ==
    ASSUME PoolInv, NEW t \in Tasks, Create(t)
    PROVE  PoolInv'
<1> DEFINE e == task[t].endpoint
           at == CASE IsRefused(e) -> "failed" [] PanicsIn(e) -> "panicked" [] OTHER -> "created"
           new == [task[t] EXCEPT !.pc = at]
<1>1. task[t] \in Calls /\ task[t].pc = "creating"
  BY InACall DEF PoolInv, Create
<1>2. at \in {"failed", "panicked", "created"} /\ (at = "failed" => IsRefused(e))
  BY DEF PanicsIn
<1>3. new \in Calls /\ new.pc = at /\ new.endpoint = e /\ new.op = task[t].op
      /\ new.missed_at = task[t].missed_at
  BY <1>1, <1>2 DEF Calls
<1>4. task' = [task EXCEPT ![t] = new]
  BY DEF Create, Move, PoolInv, PoolTypeOK
<1>5. stage = "shared"
  BY <1>1 DEF PoolInv, TasksShare, Idle
<1>6. /\ new.missed_at <= inserted
      /\ new.op = "get_or_add" => LET p == providers[new.endpoint.chain]
                                  IN  p = NoProvider \/ p.id > new.missed_at
  BY <1>1, <1>3 DEF PoolInv, MissedBefore, OnlyNewcomers
<1> HIDE DEF new, at
<1> QED
  BY <1>2, <1>3, <1>4, <1>5, <1>6, TaskMoves DEF Create

\* The second look, and the end of a call (ProviderPool::get_or_add).
LEMMA EndStep ==
    ASSUME PoolInv, NEW t \in Tasks, GetAgain(t) \/ EndCall(t)
    PROVE  PoolInv'
<1>1. CASE EndCall(t)
  <2>1. Idle \in Calls \cup {Idle} /\ Idle.pc = "idle"
    BY DEF Idle
  <2> QED
    BY <1>1, <2>1, TaskMoves DEF EndCall
<1>2. CASE GetAgain(t)
  <2> DEFINE p == providers[task[t].endpoint.chain]
             at == IF p = NoProvider THEN "failed" ELSE "returned"
             new == [task[t] EXCEPT !.provider = p, !.pc = at]
  <2>1. task[t] \in Calls /\ task[t].pc = "inserted"
    BY <1>2, InACall DEF PoolInv, GetAgain
  <2>2. p \in Provider \cup {NoProvider}
    BY <2>1 DEF PoolInv, PoolTypeOK, Calls, Endpoints
  <2>3. new \in Calls /\ new.pc = at /\ new.emptied = task[t].emptied
    BY <2>1, <2>2 DEF Calls
  <2>4. task' = [task EXCEPT ![t] = new]
    BY <1>2 DEF GetAgain, PoolInv, PoolTypeOK
  <2>5. stage = "shared"
    BY <2>1 DEF PoolInv, TasksShare, Idle
  <2>6. at = "failed" => task[t].emptied
    BY <2>1 DEF PoolInv, InsertedIsThere
  <2> HIDE DEF new
  <2> QED
    BY <1>2, <2>3, <2>4, <2>5, <2>6, TaskMoves DEF GetAgain
<1> QED
  BY <1>1, <1>2

\* A provider is inserted with the next number (add_inner).
LEMMA InsertStep ==
    ASSUME PoolInv, NEW t \in Tasks, Insert(t)
    PROVE  PoolInv'
<1> DEFINE e == task[t].endpoint
           at == IF task[t].op = "add" THEN "returned" ELSE "inserted"
           new == [task[t] EXCEPT !.pc = at]
           p == [id |-> inserted + 1, limits |-> LimitsOf(e)]
<1>1. task[t] \in Calls /\ task[t].pc = "created"
  BY InACall DEF PoolInv, Insert
<1>2. new \in Calls /\ new.pc = at /\ new.endpoint = e
  BY <1>1 DEF Calls
<1>3. e \in Endpoints /\ e.chain \in Chains
  BY <1>1 DEF Calls, Endpoints
<1>4. inserted \in Nat /\ inserted' = inserted + 1
  BY DEF PoolInv, PoolTypeOK, Insert
<1>5. p \in Provider
  BY <1>3, <1>4 DEF Provider, Limits, LimitsOf, Endpoints
<1>6. p # NoProvider /\ p.id = inserted + 1
  BY <1>4 DEF NoProvider
<1>7. /\ task' = [task EXCEPT ![t] = new]
      /\ providers' = [providers EXCEPT ![e.chain] = p]
  BY <1>4 DEF Insert, Move, PoolInv, PoolTypeOK
<1>8. UNCHANGED <<stage, builder, setters, defaults>> /\ stage = "shared"
  BY <1>1 DEF Insert, PoolInv, TasksShare, Idle
<1> HIDE DEF new, p
<1>9. PoolTypeOK' /\ BuilderTypeOK' /\ TasksShare'
  <2>1. providers' \in [Chains -> Provider \cup {NoProvider}]
    BY <1>5, <1>7 DEF PoolInv, PoolTypeOK
  <2>2. task' \in [Tasks -> Calls \cup {Idle}]
    BY <1>2, <1>7 DEF PoolInv, PoolTypeOK
  <2>3. inserted' \in Nat
    BY <1>4
  <2> QED
    BY <1>8, <2>1, <2>2, <2>3 DEF PoolInv, PoolTypeOK, BuilderTypeOK, TasksShare
<1>10. \A u \in Tasks : task'[u] = IF u = t THEN new ELSE task[u]
  BY <1>7 DEF PoolInv, PoolTypeOK
<1>11. \A c \in Chains : providers'[c] = IF c = e.chain THEN p ELSE providers[c]
  BY <1>7 DEF PoolInv, PoolTypeOK
<1>12. ASSUME NEW u \in Tasks, u # t, task[u].pc # "idle"
       PROVE  task[u] \in Calls /\ task[u].endpoint.chain \in Chains
  BY <1>12, InACall DEF PoolInv, Calls, Endpoints
<1>13. MissedBefore'
  <2> SUFFICES ASSUME NEW u \in Tasks, task'[u].pc \in {"creating", "created"}
               PROVE  task'[u].missed_at <= inserted'
    BY DEF MissedBefore
  <2>1. u # t
    BY <1>2, <1>10
  <2>2. task[u].missed_at \in Nat /\ task[u].missed_at <= inserted
    BY <1>10, <1>12, <2>1 DEF PoolInv, MissedBefore, Calls
  <2> QED
    BY <1>4, <1>10, <2>1, <2>2
<1>14. InsertedIsThere'
  <2> SUFFICES ASSUME NEW u \in Tasks, task'[u].pc = "inserted"
               PROVE  providers'[task'[u].endpoint.chain] # NoProvider \/ task'[u].emptied
    BY DEF InsertedIsThere
  <2>1. CASE u = t
    BY <1>2, <1>3, <1>6, <1>10, <1>11, <2>1
  <2>2. CASE u # t
    BY <1>6, <1>10, <1>11, <1>12, <2>2 DEF PoolInv, InsertedIsThere
  <2> QED
    BY <2>1, <2>2
<1>15. FailsOnlyIfEmptied'
  BY <1>2, <1>10 DEF PoolInv, FailsOnlyIfEmptied
<1>16. OnlyNewcomers'
  <2> SUFFICES ASSUME NEW u \in Tasks, task'[u].pc \in {"creating", "created"},
                      task'[u].op = "get_or_add"
               PROVE  LET q == providers'[task'[u].endpoint.chain]
                      IN  q = NoProvider \/ q.id > task'[u].missed_at
    BY DEF OnlyNewcomers
  <2>1. u # t /\ task'[u] = task[u]
    BY <1>2, <1>10
  <2>2. task[u].missed_at \in Nat /\ task[u].missed_at <= inserted
    BY <1>12, <2>1 DEF PoolInv, MissedBefore, Calls
  <2>3. inserted + 1 > task[u].missed_at
    BY <1>4, <2>2
  <2>4. task[u].endpoint.chain \in Chains
    BY <1>12, <2>1
  <2>5. CASE task[u].endpoint.chain = e.chain
    BY <1>6, <1>11, <2>1, <2>3, <2>4, <2>5
  <2>6. CASE task[u].endpoint.chain # e.chain
    BY <1>11, <2>1, <2>4, <2>6 DEF PoolInv, OnlyNewcomers
  <2> QED
    BY <2>5, <2>6
<1> QED
  BY <1>9, <1>13, <1>14, <1>15, <1>16 DEF PoolInv

\* Emptying chains is noticed by the tasks that wait for theirs (remove, clear).
LEMMA EmptyingStep ==
    ASSUME PoolInv, NEW cs \in SUBSET Chains, Emptying(cs), stage = "shared",
           providers' = [c \in Chains |-> IF c \in cs THEN NoProvider ELSE providers[c]],
           UNCHANGED <<stage, builder, setters, defaults, inserted>>
    PROVE  PoolInv'
<1>1. \A t \in Tasks : task'[t] = IF task[t].pc = "inserted" /\ task[t].endpoint.chain \in cs
                                  THEN [task[t] EXCEPT !.emptied = TRUE] ELSE task[t]
  BY DEF Emptying
<1>2. ASSUME NEW t \in Tasks
      PROVE  /\ task'[t] \in Calls \cup {Idle}
             /\ task'[t].pc = task[t].pc
             /\ task[t].pc = "inserted" =>
                   /\ task'[t].endpoint = task[t].endpoint
                   /\ task[t].endpoint.chain \in Chains
                   /\ task[t].emptied \/ task[t].endpoint.chain \in cs => task'[t].emptied
             /\ task[t].pc # "inserted" => task'[t] = task[t]
  <2>1. CASE task[t].pc = "inserted"
    <3>1. task[t] \in Calls
      BY <2>1, InACall DEF PoolInv
    <3>2. task[t].endpoint.chain \in Chains
      BY <3>1 DEF Calls, Endpoints
    <3>3. CASE task[t].endpoint.chain \in cs
      BY <1>1, <2>1, <3>1, <3>2, <3>3 DEF Calls
    <3>4. CASE task[t].endpoint.chain \notin cs
      BY <1>1, <2>1, <3>1, <3>2, <3>4
    <3> QED
      BY <3>3, <3>4
  <2>2. CASE task[t].pc # "inserted"
    BY <1>1, <2>2 DEF PoolInv, PoolTypeOK
  <2> QED
    BY <2>1, <2>2
<1>3. PoolTypeOK' /\ BuilderTypeOK' /\ TasksShare'
  <2>1. task' \in [Tasks -> Calls \cup {Idle}]
    BY <1>2 DEF Emptying
  <2> QED
    BY <2>1 DEF PoolInv, PoolTypeOK, BuilderTypeOK, TasksShare
<1>4. InsertedIsThere'
  BY <1>2 DEF PoolInv, InsertedIsThere
<1>5. FailsOnlyIfEmptied' /\ MissedBefore'
  BY <1>2 DEF PoolInv, FailsOnlyIfEmptied, MissedBefore
<1>6. OnlyNewcomers'
  <2> SUFFICES ASSUME NEW t \in Tasks, task'[t].pc \in {"creating", "created"},
                      task'[t].op = "get_or_add"
               PROVE  LET q == providers'[task'[t].endpoint.chain]
                      IN  q = NoProvider \/ q.id > task'[t].missed_at
    BY DEF OnlyNewcomers
  <2>1. task'[t] = task[t] /\ task[t] \in Calls /\ task[t].endpoint.chain \in Chains
    BY <1>2, InACall DEF PoolInv, Calls, Endpoints
  <2> QED
    BY <2>1 DEF PoolInv, OnlyNewcomers
<1> QED
  BY <1>3, <1>4, <1>5, <1>6 DEF PoolInv

LEMMA EmptyStep ==
    ASSUME PoolInv, (\E c \in Chains : Remove(c)) \/ Clear
    PROVE  PoolInv'
<1>1. ASSUME NEW c \in Chains, Remove(c) PROVE PoolInv'
  <2>1. providers' = [d \in Chains |-> IF d \in {c} THEN NoProvider ELSE providers[d]]
    BY <1>1 DEF Remove, PoolInv, PoolTypeOK
  <2>2. {c} \in SUBSET Chains
    OBVIOUS
  <2> QED
    BY <1>1, <2>1, <2>2, EmptyingStep DEF Remove
<1>2. CASE Clear
  <2>1. providers' = [d \in Chains |-> IF d \in Chains THEN NoProvider ELSE providers[d]]
    BY <1>2 DEF Clear
  <2> QED
    BY <1>2, <2>1, EmptyingStep DEF Clear
<1> QED
  BY <1>1, <1>2

\* What is known of the pool and its tasks holds in every state (ProviderPool).
THEOREM PoolInvariant == PoolSpec => []PoolInv
<1>1. PoolInit => PoolInv
  <2> SUFFICES ASSUME PoolInit PROVE PoolInv
    OBVIOUS
  <2>1. PoolTypeOK
    BY DEF PoolInit, PoolTypeOK, Limit
  <2>2. BuilderTypeOK
    <3>1. <<>> \in Seq(BuilderCalls)
      OBVIOUS
    <3> QED
      BY <3>1, NewBuilderType DEF PoolInit, BuilderTypeOK
  <2>3. \A t \in Tasks : task[t] = Idle /\ task[t].pc = "idle"
    BY DEF PoolInit, Idle
  <2> QED
    BY <2>1, <2>2, <2>3 DEF PoolInv, TasksShare, MissedBefore, InsertedIsThere,
                            FailsOnlyIfEmptied, OnlyNewcomers
<1>2. PoolInv /\ [PoolNext]_poolVars => PoolInv'
  <2> SUFFICES ASSUME PoolInv, [PoolNext]_poolVars PROVE PoolInv'
    OBVIOUS
  <2>1. CASE (\E call \in BuilderCalls : Set(call)) \/ Share \/ StartOver
    BY <2>1, BuilderStep
  <2>2. CASE Build
    BY <2>2, BuildStep
  <2>3. ASSUME NEW t \in Tasks, NEW call \in PoolCalls, GetOrAdd(t, call) \/ Add(t, call)
        PROVE  PoolInv'
    BY <2>3, BeginStep
  <2>4. ASSUME NEW t \in Tasks, Create(t) PROVE PoolInv'
    BY <2>4, CreateStep
  <2>5. ASSUME NEW t \in Tasks, Insert(t) PROVE PoolInv'
    BY <2>5, InsertStep
  <2>6. ASSUME NEW t \in Tasks, GetAgain(t) \/ EndCall(t) PROVE PoolInv'
    BY <2>6, EndStep
  <2>7. CASE (\E c \in Chains : Remove(c)) \/ Clear
    BY <2>7, EmptyStep
  <2>8. CASE UNCHANGED poolVars
    BY <2>8 DEF poolVars, PoolInv, PoolTypeOK, BuilderTypeOK, TasksShare, MissedBefore,
                InsertedIsThere, FailsOnlyIfEmptied, OnlyNewcomers
  <2> QED
    BY <2>1, <2>2, <2>3, <2>4, <2>5, <2>6, <2>7, <2>8 DEF PoolNext
<1> QED
  BY <1>1, <1>2, PTL DEF PoolSpec

\* However many tasks add, replace and remove, a get_or_add whose client can be
\* made fails only if its own chain was emptied under it (ProviderPool::get_or_add).
THEOREM GetOrAddFailsOnlyIfEmptied == PoolSpec => []FailsOnlyIfEmptied
<1>1. PoolInv => FailsOnlyIfEmptied
  BY DEF PoolInv
<1> QED
  BY <1>1, PoolInvariant, PTL

\* A get_or_add replaces no provider that was there when it looked
\* (ProviderPool::get_or_add).
THEOREM GetOrAddReplacesOnlyNewcomers == PoolSpec => ReplacesOnlyNewcomers
<1>1. PoolInv => \A t \in Tasks : Inserts(t) /\ task[t].op = "get_or_add" =>
                    LET p == providers[task[t].endpoint.chain]
                    IN  p = NoProvider \/ p.id > task[t].missed_at
  BY DEF PoolInv, OnlyNewcomers, Inserts
<1> QED
  BY <1>1, PoolInvariant, PTL DEF ReplacesOnlyNewcomers

-----------------------------------------------------------------------------
(* The configuration *)

Of(c) == {i \in DOMAIN builder.endpoints : builder.endpoints[i].chain = c}

DelaysOf(c) == {i \in PoliciesOf(c) : setters[i].policy[c].rate_limit_delay # None}

\* The builder has each setting as the last call that gave it, and its endpoints
\* as they were added.
ChainAsTold(c) ==
    /\ builder.policy_timeouts[c] = LastValue(PoliciesOf(c), LAMBDA s : s.policy[c].rpc_timeout)
    /\ builder.policy_min_delays[c] =
          LastValue(DelaysOf(c), LAMBDA s : s.policy[c].rate_limit_delay)
    /\ Of(c) = {} <=> EndpointsOf(c) = {}
    /\ Of(c) # {} => builder.endpoints[Max(Of(c))] = setters[Max(EndpointsOf(c))].endpoint

EndpointsAsTold ==
    /\ \A i \in DOMAIN builder.endpoints : \E j \in At("endpoint") :
          builder.endpoints[i] = setters[j].endpoint
    /\ \A j \in At("endpoint") : \E i \in DOMAIN builder.endpoints :
          builder.endpoints[i] = setters[j].endpoint

BuilderAsTold ==
    /\ builder.rate_limit = LastValue(At("rate_limit"), LAMBDA s : s.value)
    /\ builder.timeout = LastValue(At("timeout"), LAMBDA s : s.value)
    /\ \A c \in Chains : ChainAsTold(c)
    /\ EndpointsAsTold

\* What a call on the builder adds to the positions of its kind.
LEMMA PositionsGrow ==
    ASSUME BuilderTypeOK, NEW call \in BuilderCalls, Set(call)
    PROVE  LET n == Len(setters)
           IN  /\ n \in Nat
               /\ setters' = Append(setters, call)
               /\ DOMAIN setters = 1 .. n /\ DOMAIN setters' = 1 .. n + 1
               /\ setters'[n + 1] = call
               /\ \A i \in 1 .. n : setters'[i] = setters[i]
               /\ \A kind : /\ At(kind) \in SUBSET (1 .. n)
                            /\ At(kind)' = IF call.kind = kind THEN At(kind) \cup {n + 1} ELSE At(kind)
<1> DEFINE n == Len(setters)
<1>1. setters \in Seq(BuilderCalls) /\ setters' = Append(setters, call)
  BY DEF BuilderTypeOK, Set
<1>2. /\ n \in Nat
      /\ DOMAIN setters = 1 .. n /\ DOMAIN setters' = 1 .. n + 1
      /\ setters'[n + 1] = call
      /\ \A i \in 1 .. n : setters'[i] = setters[i]
  BY <1>1
<1> HIDE DEF n
<1>3. ASSUME NEW kind
      PROVE  /\ At(kind) \in SUBSET (1 .. n)
             /\ At(kind)' = IF call.kind = kind THEN At(kind) \cup {n + 1} ELSE At(kind)
  <2>1. 1 .. n + 1 = (1 .. n) \cup {n + 1} /\ n + 1 \notin 1 .. n
    BY <1>2
  <2> QED
    BY <1>2, <2>1 DEF At
<1> QED
  BY <1>1, <1>2, <1>3 DEF n

\* The last value of positions that stay, and of positions the call has joined.
LEMMA LastOf ==
    ASSUME BuilderTypeOK, NEW call \in BuilderCalls, Set(call),
           NEW S \in SUBSET (1 .. Len(setters))
    PROVE  /\ S # {} => Max(S) \in S /\ setters'[Max(S)] = setters[Max(S)]
           /\ setters'[Max(S \cup {Len(setters) + 1})] = call
<1>1. Len(setters) \in Nat
  BY PositionsGrow
<1>2. S # {} => Max(S) \in S
  BY <1>1, LastPosition
<1>3. Max(S \cup {Len(setters) + 1}) = Len(setters) + 1
  BY <1>1, NextIsLast
<1> QED
  BY <1>2, <1>3, PositionsGrow

\* The endpoints of a chain, and the policies that were asked for it.
LEMMA ChainPositionsGrow ==
    ASSUME BuilderTypeOK, NEW call \in BuilderCalls, Set(call), NEW c \in Chains
    PROVE  LET n == Len(setters)
           IN  /\ EndpointsOf(c) \in SUBSET (1 .. n)
               /\ PoliciesOf(c) \in SUBSET (1 .. n)
               /\ EndpointsOf(c)' = IF call.kind = "endpoint" /\ call.endpoint.chain = c
                                    THEN EndpointsOf(c) \cup {n + 1} ELSE EndpointsOf(c)
               /\ PoliciesOf(c)' = IF call.kind = "policy" /\ EndpointsOf(c) # {}
                                   THEN PoliciesOf(c) \cup {n + 1} ELSE PoliciesOf(c)
<1> DEFINE n == Len(setters)
<1>1. /\ n \in Nat
      /\ setters'[n + 1] = call
      /\ \A i \in 1 .. n : setters'[i] = setters[i]
      /\ \A kind : /\ At(kind) \in SUBSET (1 .. n)
                   /\ At(kind)' = IF call.kind = kind THEN At(kind) \cup {n + 1} ELSE At(kind)
  BY PositionsGrow
<1> HIDE DEF n
<1>2. EndpointsOf(c) \in SUBSET (1 .. n) /\ PoliciesOf(c) \in SUBSET (1 .. n)
  BY <1>1 DEF EndpointsOf, PoliciesOf
<1>3. \A i \in 1 .. n : i < n + 1 /\ i # n + 1 /\ i \in Nat
  BY <1>1
<1>4. EndpointsOf(c)' = IF call.kind = "endpoint" /\ call.endpoint.chain = c
                       THEN EndpointsOf(c) \cup {n + 1} ELSE EndpointsOf(c)
  BY <1>1, <1>3 DEF EndpointsOf
<1>5. PoliciesOf(c)' = IF call.kind = "policy" /\ EndpointsOf(c) # {}
                      THEN PoliciesOf(c) \cup {n + 1} ELSE PoliciesOf(c)
  <2>1. CASE call.kind = "policy"
    <3>1. At("policy")' = At("policy") \cup {n + 1} /\ EndpointsOf(c)' = EndpointsOf(c)
      BY <1>1, <1>4, <2>1
    <3>2. (\E j \in EndpointsOf(c) : j < n + 1) <=> EndpointsOf(c) # {}
      BY <1>2, <1>3
    <3>3. PoliciesOf(c)' = {i \in At("policy") \cup {n + 1} : \E j \in EndpointsOf(c) : j < i}
      BY <3>1 DEF PoliciesOf
    <3> QED
      BY <1>1, <1>3, <2>1, <3>2, <3>3 DEF PoliciesOf
  <2>2. CASE call.kind # "policy"
    <3>1. At("policy")' = At("policy")
      BY <1>1, <2>2
    <3>2. \A i \in At("policy") : (\E j \in EndpointsOf(c)' : j < i) <=> \E j \in EndpointsOf(c) : j < i
      <4> SUFFICES ASSUME NEW i \in At("policy"), n + 1 < i PROVE FALSE
        BY <1>4
      <4> QED
        BY <1>1, <1>3
    <3> QED
      BY <2>2, <3>1, <3>2 DEF PoliciesOf
  <2> QED
    BY <2>1, <2>2
<1> QED
  BY <1>2, <1>4, <1>5 DEF n

\* The latest rate limit and the latest timeout count (with_rate_limit, with_timeout).
LEMMA DefaultsAsTold ==
    ASSUME BuilderTypeOK, BuilderAsTold, NEW call \in BuilderCalls, Set(call)
    PROVE  /\ builder'.rate_limit = LastValue(At("rate_limit"), LAMBDA s : s.value)'
           /\ builder'.timeout = LastValue(At("timeout"), LAMBDA s : s.value)'
<1> DEFINE n == Len(setters)
<1>1. \A kind : /\ At(kind) \in SUBSET (1 .. n)
               /\ At(kind)' = IF call.kind = kind THEN At(kind) \cup {n + 1} ELSE At(kind)
  BY PositionsGrow
<1>2. \A kind : /\ At(kind) # {} => setters'[Max(At(kind))] = setters[Max(At(kind))]
               /\ setters'[Max(At(kind) \cup {n + 1})] = call
  BY <1>1, LastOf
<1>3. \A kind : At(kind) \cup {n + 1} # {}
  OBVIOUS
<1>4. /\ builder'.rate_limit = IF call.kind = "rate_limit" THEN call.value ELSE builder.rate_limit
      /\ builder'.timeout = IF call.kind = "timeout" THEN call.value ELSE builder.timeout
  BY PoolAssumption DEF Set, AddEndpoint, WithRpcPolicy, BuilderTypeOK, Builders
<1> HIDE DEF n
<1> QED
  BY <1>1, <1>2, <1>3, <1>4 DEF BuilderAsTold, LastValue

\* The latest policy that was asked for the chain counts (with_rpc_policy).
LEMMA ChainStaysAsTold ==
    ASSUME BuilderTypeOK, BuilderAsTold, NEW call \in BuilderCalls, Set(call), NEW c \in Chains,
           call.kind # "policy", ~(call.kind = "endpoint" /\ call.endpoint.chain = c)
    PROVE  ChainAsTold(c)'
<1> DEFINE n == Len(setters)
<1>1. EndpointsOf(c)' = EndpointsOf(c) /\ PoliciesOf(c)' = PoliciesOf(c)
  BY ChainPositionsGrow
<1>2. EndpointsOf(c) \in SUBSET (1 .. n) /\ PoliciesOf(c) \in SUBSET (1 .. n)
  BY ChainPositionsGrow
<1>3. \A S \in SUBSET (1 .. n) : S # {} => setters'[Max(S)] = setters[Max(S)]
  BY LastOf
<1>4. \A i \in 1 .. n : setters'[i] = setters[i]
  BY PositionsGrow
<1>5. DelaysOf(c)' = DelaysOf(c) /\ DelaysOf(c) \in SUBSET (1 .. n)
  BY <1>1, <1>2, <1>4 DEF DelaysOf
<1>6. builder'.policy_timeouts = builder.policy_timeouts
      /\ builder'.policy_min_delays = builder.policy_min_delays
  BY PoolAssumption DEF Set, AddEndpoint, BuilderTypeOK, Builders
<1>7. Of(c)' = Of(c) /\ \A i \in Of(c) : builder'.endpoints[i] = builder.endpoints[i]
  <2>1. CASE call.kind = "endpoint"
    <3>1. builder'.endpoints = Append(builder.endpoints, call.endpoint)
          /\ builder.endpoints \in Seq(Endpoints)
      BY <2>1, PoolAssumption DEF Set, AddEndpoint, BuilderTypeOK, Builders
    <3>2. call.endpoint.chain # c
      BY <2>1
    <3> QED
      BY <3>1, <3>2 DEF Of
  <2>2. CASE call.kind # "endpoint"
    <3>1. builder'.endpoints = builder.endpoints
      BY <2>2, PoolAssumption DEF Set, BuilderTypeOK, Builders
    <3> QED
      BY <3>1 DEF Of
  <2> QED
    BY <2>1, <2>2
<1>8. Of(c) # {} => Max(Of(c)) \in Of(c)
  <2>1. Len(builder.endpoints) \in Nat /\ Of(c) \in SUBSET (1 .. Len(builder.endpoints))
    BY DEF Of, BuilderTypeOK, Builders
  <2> QED
    BY <2>1, LastPosition
<1> HIDE DEF n
<1>9. ChainAsTold(c)
  BY DEF BuilderAsTold
<1> QED
  BY <1>1, <1>2, <1>3, <1>5, <1>6, <1>7, <1>8, <1>9 DEF ChainAsTold, LastValue

\* A chain's new endpoint is its last (add_endpoint).
LEMMA EndpointAsTold ==
    ASSUME BuilderTypeOK, BuilderAsTold, NEW call \in BuilderCalls, Set(call), NEW c \in Chains,
           call.kind = "endpoint", call.endpoint.chain = c
    PROVE  ChainAsTold(c)'
<1> DEFINE n == Len(setters)
           k == Len(builder.endpoints)
<1>1. EndpointsOf(c)' = EndpointsOf(c) \cup {n + 1} /\ PoliciesOf(c)' = PoliciesOf(c)
  BY ChainPositionsGrow
<1>2. EndpointsOf(c) \in SUBSET (1 .. n) /\ PoliciesOf(c) \in SUBSET (1 .. n)
  BY ChainPositionsGrow
<1>3. \A S \in SUBSET (1 .. n) : /\ S # {} => setters'[Max(S)] = setters[Max(S)]
                                 /\ setters'[Max(S \cup {n + 1})] = call
  BY LastOf
<1>4. \A i \in 1 .. n : setters'[i] = setters[i]
  BY PositionsGrow
<1>5. DelaysOf(c)' = DelaysOf(c) /\ DelaysOf(c) \in SUBSET (1 .. n)
  BY <1>1, <1>2, <1>4 DEF DelaysOf
<1>6. /\ builder'.policy_timeouts = builder.policy_timeouts
      /\ builder'.policy_min_delays = builder.policy_min_delays
      /\ builder'.endpoints = Append(builder.endpoints, call.endpoint)
      /\ builder.endpoints \in Seq(Endpoints)
  BY PoolAssumption DEF Set, AddEndpoint, BuilderTypeOK, Builders
<1>7. k \in Nat /\ Of(c) \in SUBSET (1 .. k) /\ Of(c)' = Of(c) \cup {k + 1}
      /\ builder'.endpoints[k + 1] = call.endpoint
  BY <1>6 DEF Of
<1>8. Max(Of(c)') = k + 1
  BY <1>7, NextIsLast
<1> HIDE DEF n, k
<1>9. ChainAsTold(c)
  BY DEF BuilderAsTold
<1>10. setters'[Max(EndpointsOf(c)')] = call
  BY <1>1, <1>2, <1>3
<1>11. Of(c)' # {} /\ EndpointsOf(c)' # {}
  BY <1>1, <1>7
<1> QED
  BY <1>1, <1>2, <1>3, <1>5, <1>6, <1>7, <1>8, <1>9, <1>10, <1>11 DEF ChainAsTold, LastValue

\* A policy is asked for the chains of the endpoints there are (with_rpc_policy).
LEMMA PolicyAsTold ==
    ASSUME BuilderTypeOK, BuilderAsTold, NEW call \in BuilderCalls, Set(call), NEW c \in Chains,
           call.kind = "policy"
    PROVE  ChainAsTold(c)'
<1> DEFINE n == Len(setters)
<1>1. EndpointsOf(c)' = EndpointsOf(c)
      /\ PoliciesOf(c)' = IF EndpointsOf(c) # {} THEN PoliciesOf(c) \cup {n + 1} ELSE PoliciesOf(c)
  BY ChainPositionsGrow
<1>2. EndpointsOf(c) \in SUBSET (1 .. n) /\ PoliciesOf(c) \in SUBSET (1 .. n)
  BY ChainPositionsGrow
<1>3. \A S \in SUBSET (1 .. n) : /\ S # {} => setters'[Max(S)] = setters[Max(S)]
                                 /\ setters'[Max(S \cup {n + 1})] = call
  BY LastOf
<1>4. setters'[n + 1] = call /\ \A i \in 1 .. n : setters'[i] = setters[i]
  BY PositionsGrow
<1>5. ChainAsTold(c)
  BY DEF BuilderAsTold
<1>6. WithRpcPolicy(call.policy)
  BY DEF Set
<1>7. c \in ChainsOf(builder.endpoints) <=> EndpointsOf(c) # {}
  BY <1>5 DEF ChainAsTold, ChainsOf, Of
<1>8. builder'.endpoints = builder.endpoints /\ Of(c)' = Of(c)
  BY <1>6 DEF WithRpcPolicy, BuilderTypeOK, Builders, Of
<1>9. /\ builder'.policy_timeouts[c] = IF EndpointsOf(c) # {} THEN call.policy[c].rpc_timeout
                                       ELSE builder.policy_timeouts[c]
      /\ builder'.policy_min_delays[c] =
            IF EndpointsOf(c) # {}
            THEN Or(call.policy[c].rate_limit_delay, builder.policy_min_delays[c])
            ELSE builder.policy_min_delays[c]
  BY <1>6, <1>7 DEF WithRpcPolicy, BuilderTypeOK, Builders
<1>10. DelaysOf(c) \in SUBSET (1 .. n)
  BY <1>2 DEF DelaysOf
<1>11. DelaysOf(c)' = IF EndpointsOf(c) # {} /\ call.policy[c].rate_limit_delay # None
                     THEN DelaysOf(c) \cup {n + 1} ELSE DelaysOf(c)
  <2>1. \A i \in PoliciesOf(c) : setters'[i] = setters[i]
    BY <1>2, <1>4
  <2> QED
    BY <1>1, <1>4, <2>1 DEF DelaysOf
<1> HIDE DEF n
<1>12. builder'.policy_timeouts[c] =
         LastValue(PoliciesOf(c), LAMBDA s : s.policy[c].rpc_timeout)'
  BY <1>1, <1>2, <1>3, <1>5, <1>9 DEF ChainAsTold, LastValue
<1>13. builder'.policy_min_delays[c] =
         LastValue(DelaysOf(c), LAMBDA s : s.policy[c].rate_limit_delay)'
  BY <1>3, <1>5, <1>9, <1>10, <1>11 DEF ChainAsTold, LastValue, Or
<1>14. /\ Of(c)' = {} <=> EndpointsOf(c)' = {}
       /\ Of(c)' # {} => builder'.endpoints[Max(Of(c)')] = setters'[Max(EndpointsOf(c)')].endpoint
  BY <1>1, <1>2, <1>3, <1>5, <1>8 DEF ChainAsTold
<1> QED
  BY <1>12, <1>13, <1>14 DEF ChainAsTold

\* The endpoints are those that were added (add_endpoint).
LEMMA EndpointsStayAsTold ==
    ASSUME BuilderTypeOK, BuilderAsTold, NEW call \in BuilderCalls, Set(call)
    PROVE  EndpointsAsTold'
<1> DEFINE n == Len(setters)
<1>1. /\ setters'[n + 1] = call
      /\ \A i \in 1 .. n : setters'[i] = setters[i]
      /\ \A kind : /\ At(kind) \in SUBSET (1 .. n)
                   /\ At(kind)' = IF call.kind = kind THEN At(kind) \cup {n + 1} ELSE At(kind)
  BY PositionsGrow
<1> HIDE DEF n
<1>2. EndpointsAsTold
  BY DEF BuilderAsTold
<1>3. \A j \in At("endpoint") : j \in At("endpoint")' /\ setters'[j] = setters[j]
  BY <1>1
<1>4. CASE call.kind = "endpoint"
  <2> DEFINE es == builder.endpoints
  <2>1. builder'.endpoints = Append(es, call.endpoint) /\ es \in Seq(Endpoints)
    BY <1>4, PoolAssumption DEF Set, AddEndpoint, BuilderTypeOK, Builders
  <2>2. \A i \in DOMAIN builder'.endpoints :
          \/ i \in DOMAIN es /\ builder'.endpoints[i] = es[i]
          \/ builder'.endpoints[i] = call.endpoint
    BY <2>1
  <2>3. /\ \A i \in DOMAIN es : i \in DOMAIN builder'.endpoints /\ builder'.endpoints[i] = es[i]
        /\ \E i \in DOMAIN builder'.endpoints : builder'.endpoints[i] = call.endpoint
    <3>1. /\ Len(es) + 1 \in DOMAIN builder'.endpoints
          /\ builder'.endpoints[Len(es) + 1] = call.endpoint
      BY <2>1
    <3>2. \A i \in DOMAIN es : i \in DOMAIN builder'.endpoints /\ builder'.endpoints[i] = es[i]
      BY <2>1
    <3> QED
      BY <3>1, <3>2
  <2>4. At("endpoint")' = At("endpoint") \cup {n + 1}
    BY <1>1, <1>4
  <2>5. ASSUME NEW i \in DOMAIN builder'.endpoints
        PROVE  \E j \in At("endpoint")' : builder'.endpoints[i] = setters'[j].endpoint
    BY <1>1, <1>2, <1>3, <2>2, <2>4 DEF EndpointsAsTold
  <2>6. ASSUME NEW j \in At("endpoint")'
        PROVE  \E i \in DOMAIN builder'.endpoints : builder'.endpoints[i] = setters'[j].endpoint
    <3>1. CASE j = n + 1
      BY <1>1, <2>3, <3>1
    <3>2. CASE j \in At("endpoint")
      <4>1. setters'[j] = setters[j]
        BY <1>3, <3>2
      <4> QED
        BY <1>2, <2>3, <3>2, <4>1 DEF EndpointsAsTold
    <3> QED
      BY <2>4, <3>1, <3>2
  <2> QED
    BY <2>5, <2>6 DEF EndpointsAsTold
<1>5. CASE call.kind # "endpoint"
  <2>1. builder'.endpoints = builder.endpoints
    BY <1>5, PoolAssumption DEF Set, WithRpcPolicy, BuilderTypeOK, Builders
  <2>2. At("endpoint")' = At("endpoint")
    BY <1>1, <1>5
  <2> QED
    BY <1>2, <1>3, <2>1, <2>2 DEF EndpointsAsTold
<1> QED
  BY <1>4, <1>5

LEMMA SetAsTold ==
    ASSUME BuilderTypeOK, BuilderAsTold, NEW call \in BuilderCalls, Set(call)
    PROVE  BuilderAsTold'
<1>1. \A c \in Chains : ChainAsTold(c)'
  BY ChainStaysAsTold, EndpointAsTold, PolicyAsTold
<1> QED
  BY <1>1, DefaultsAsTold, EndpointsStayAsTold DEF BuilderAsTold

\* A new builder has been told nothing (ProviderPoolBuilder::new).
LEMMA NewBuilderAsTold == builder = NewBuilder /\ setters = <<>> => BuilderAsTold
<1> SUFFICES ASSUME builder = NewBuilder, setters = <<>> PROVE BuilderAsTold
  OBVIOUS
<1>1. \A kind : At(kind) = {}
  BY DEF At
<1>2. \A c \in Chains : EndpointsOf(c) = {} /\ PoliciesOf(c) = {} /\ DelaysOf(c) = {} /\ Of(c) = {}
  BY <1>1 DEF EndpointsOf, PoliciesOf, DelaysOf, Of, NewBuilder
<1> QED
  BY <1>1, <1>2 DEF BuilderAsTold, ChainAsTold, EndpointsAsTold, LastValue, NewBuilder

\* An endpoint gets the limits it was promised (build, add_inner).
LEMMA PromiseKept ==
    ASSUME BuilderTypeOK, BuilderAsTold, NEW e \in Endpoints
    PROVE  LET made == WithDefaults(Effective(e), NewDefaults)
           IN  /\ LimitsOf(made) = Promised(e)
               /\ made.url_parses = e.url_parses
               /\ HasBothLimits(made) <=> HasBothLimits(Promised(e))
               /\ made.rate_limit = Promised(e).rate_limit
               /\ made.min_delay = Promised(e).min_delay
<1> DEFINE made == WithDefaults(Effective(e), NewDefaults)
           c == e.chain
<1>1. e.chain \in Chains /\ e \in Endpoints
  BY DEF Endpoints
<1>2. ChainAsTold(c)
  BY <1>1 DEF BuilderAsTold
<1>3. /\ made.rate_limit = Or(Or(e.rate_limit, builder.rate_limit), builder.rate_limit)
      /\ made.min_delay = Or(e.min_delay, builder.policy_min_delays[c])
      /\ made.timeout = Or(Or(e.timeout, builder.policy_timeouts[c]), builder.timeout)
      /\ made.url_parses = e.url_parses
  BY DEF WithDefaults, Effective, NewDefaults, Endpoints
<1>4. /\ builder.rate_limit = LastValue(At("rate_limit"), LAMBDA s : s.value)
      /\ builder.timeout = LastValue(At("timeout"), LAMBDA s : s.value)
  BY DEF BuilderAsTold
<1>5. /\ Promised(e).rate_limit = Or(e.rate_limit, builder.rate_limit)
      /\ Promised(e).min_delay = Or(e.min_delay, builder.policy_min_delays[c])
      /\ Promised(e).timeout = Or(e.timeout, Or(builder.policy_timeouts[c], builder.timeout))
      /\ Promised(e) = [rate_limit |-> Promised(e).rate_limit,
                        min_delay |-> Promised(e).min_delay, timeout |-> Promised(e).timeout]
  BY <1>2, <1>4 DEF Promised, ChainAsTold, DelaysOf, LastValue
<1>6. /\ made.rate_limit = Promised(e).rate_limit
      /\ made.min_delay = Promised(e).min_delay
      /\ made.timeout = Promised(e).timeout
  BY <1>3, <1>5 DEF Or
<1> HIDE DEF made
<1>7. LimitsOf(made) = Promised(e)
  BY <1>5, <1>6 DEF LimitsOf
<1>8. HasBothLimits(made) <=> HasBothLimits(Promised(e))
  BY <1>6 DEF HasBothLimits
<1> QED
  BY <1>3, <1>6, <1>7, <1>8 DEF made

\* The first endpoint whose client cannot be made, if there is one (build).
LEMMA FirstBadIsBad ==
    ASSUME BuilderTypeOK
    PROVE  LET bad == {i \in DOMAIN Added : CannotBeMade(Added[i])}
           IN  /\ FirstBad = 0 => bad = {}
               /\ FirstBad # 0 => FirstBad \in bad /\ FirstBad > 0
<1> DEFINE bad == {i \in DOMAIN Added : CannotBeMade(Added[i])}
           R == OpToRel(<, Nat)
<1>1. bad \subseteq Nat /\ \A i \in bad : i > 0
  BY AddedType
<1>2. FirstBad = IF bad = {} THEN 0 ELSE Min(bad)
  BY DEF FirstBad
<1>3. ASSUME bad # {} PROVE Min(bad) \in bad
  <2>1. IsWellFoundedOn(R, Nat)
    BY NatLessThanWellFounded
  <2>2. \A x, y \in Nat : <<y, x>> \in R <=> y < x
    BY DEF OpToRel
  <2> HIDE DEF R, bad
  <2>3. PICK m \in bad : \A y \in bad : ~ (<<y, m>> \in R)
    BY <1>1, <1>3, <2>1, WFMin
  <2>4. \A y \in bad : y \in Nat /\ m \in Nat /\ ~ (y < m)
    BY <1>1, <2>2, <2>3
  <2>5. \A y \in bad : m <= y
    BY <2>4
  <2> QED
    BY <2>5 DEF Min
<1> HIDE DEF bad
<1> QED
  BY <1>1, <1>2, <1>3 DEF bad

\* build() keeps every promise, or names one that cannot be kept (build).
LEMMA BuildAsTold ==
    ASSUME BuilderTypeOK, BuilderAsTold, Build
    PROVE  BuiltAsConfigured'
<1> DEFINE es == builder.endpoints
           told == {setters[i].endpoint : i \in At("endpoint")}
           promises == {AsPromised(setters[i].endpoint) : i \in At("endpoint")}
           CanBeKept(e) == /\ e.url_parses /\ ~HasBothLimits(e)
                           /\ e.rate_limit # 0 /\ e.min_delay # 0
<1>1. UNCHANGED <<builder, setters>>
  BY DEF Build
<1>2. /\ \A i \in DOMAIN es : es[i] \in Endpoints /\ AsPromised(es[i]) \in promises
      /\ \A e \in promises : \E i \in DOMAIN es : e = AsPromised(es[i])
  <2>1. /\ \A i \in DOMAIN es : es[i] \in Endpoints /\ es[i] \in told
        /\ \A e \in told : \E i \in DOMAIN es : es[i] = e
    BY DEF BuilderTypeOK, Builders, BuilderAsTold, EndpointsAsTold
  <2> HIDE DEF es
  <2>2. promises = {AsPromised(e) : e \in told}
    OBVIOUS
  <2> HIDE DEF promises, told
  <2> QED
    BY <2>1, <2>2
<1>3. /\ Added \in Seq(Endpoints) /\ DOMAIN Added = DOMAIN es
      /\ \A i \in DOMAIN es : /\ LimitsOf(Added[i]) = Promised(es[i])
                              /\ Added[i].url_parses = es[i].url_parses
                              /\ Added[i].rate_limit = Promised(es[i]).rate_limit
                              /\ Added[i].min_delay = Promised(es[i]).min_delay
                              /\ Added[i].chain = es[i].chain
  BY <1>2, AddedType, PromiseKept
<1>4. \A i \in DOMAIN es : /\ AsPromised(es[i]).url_parses = Added[i].url_parses
                          /\ AsPromised(es[i]).rate_limit = Added[i].rate_limit
                          /\ AsPromised(es[i]).min_delay = Added[i].min_delay
  BY <1>2, <1>3 DEF AsPromised, Endpoints
<1>5. \A i \in DOMAIN es : HasBothLimits(AsPromised(es[i])) <=> HasBothLimits(Added[i])
  BY <1>4 DEF HasBothLimits
<1>6. /\ FirstBad = 0 => \A i \in DOMAIN es : ~CannotBeMade(Added[i])
      /\ FirstBad # 0 => /\ FirstBad > 0 /\ FirstBad \in DOMAIN es
                         /\ CannotBeMade(Added[FirstBad])
  BY <1>3, FirstBadIsBad
<1>7. ASSUME stage' = "built", NEW c \in Chains
      PROVE  IF EndpointsOf(c) = {} THEN providers'[c] = NoProvider
             ELSE providers'[c].limits = Promised(setters[Max(EndpointsOf(c))].endpoint)
  <2>1. FirstBad = 0 /\ providers' = PoolOf(Added)
    BY <1>6, <1>7 DEF Build
  <2>2. {i \in DOMAIN Added : Added[i].chain = c} = Of(c)
    BY <1>3 DEF Of
  <2>3. /\ Of(c) = {} => PoolOf(Added)[c] = NoProvider
        /\ Of(c) # {} => /\ Max(Of(c)) \in Of(c)
                         /\ PoolOf(Added)[c] = [id |-> Max(Of(c)),
                                                limits |-> LimitsOf(Added[Max(Of(c))])]
    BY <1>3, <2>2, PoolOfType
  <2>4. ChainAsTold(c)
    BY DEF BuilderAsTold
  <2>5. CASE Of(c) = {}
    BY <2>1, <2>3, <2>4, <2>5 DEF ChainAsTold
  <2>6. CASE Of(c) # {}
    <3> DEFINE i == Max(Of(c))
    <3>1. i \in DOMAIN es /\ es[i] = setters[Max(EndpointsOf(c))].endpoint /\ EndpointsOf(c) # {}
      BY <2>3, <2>4, <2>6 DEF ChainAsTold, Of
    <3>2. providers'[c].limits = Promised(es[i])
      BY <1>3, <2>1, <2>3, <2>6, <3>1
    <3> QED
      BY <3>1, <3>2
  <2> QED
    BY <2>5, <2>6
<1>8. ASSUME stage' = "built", NEW e \in promises PROVE CanBeKept(e)
  <2>1. PICK i \in DOMAIN es : e = AsPromised(es[i])
    BY <1>2
  <2>2. ~CannotBeMade(Added[i])
    BY <1>6, <1>8 DEF Build
  <2> QED
    BY <1>4, <1>5, <2>1, <2>2 DEF CannotBeMade, PanicsIn, IsRefused, DelayIsZero
<1>9. ASSUME stage' = "failed"
      PROVE  \E e \in promises : e.min_delay # 0 /\ (~e.url_parses \/ HasBothLimits(e))
  <2>1. FirstBad \in DOMAIN es /\ IsRefused(Added[FirstBad])
    BY <1>6, <1>9 DEF Build
  <2> QED
    BY <1>2, <1>4, <1>5, <2>1 DEF IsRefused, DelayIsZero
<1>10. ASSUME stage' = "panicked"
       PROVE  \E e \in promises : \/ e.min_delay = 0
                                  \/ e.rate_limit = 0 /\ e.min_delay = None /\ e.url_parses
  <2>1. FirstBad \in DOMAIN es /\ PanicsIn(Added[FirstBad])
    BY <1>6, <1>10 DEF Build, CannotBeMade
  <2>2. \/ Added[FirstBad].min_delay = 0
        \/ /\ Added[FirstBad].rate_limit = 0 /\ Added[FirstBad].url_parses
           /\ ~HasBothLimits(Added[FirstBad])
    BY <2>1 DEF PanicsIn, IsRefused, DelayIsZero
  <2>3. \/ Added[FirstBad].min_delay = 0
        \/ /\ Added[FirstBad].rate_limit = 0 /\ Added[FirstBad].min_delay = None
           /\ Added[FirstBad].url_parses
    BY <2>2, PoolAssumption DEF HasBothLimits
  <2> QED
    BY <1>2, <1>4, <2>1, <2>3
<1> HIDE DEF es
<1>11. /\ stage' = "built" =>
             /\ \A c \in Chains :
                   IF EndpointsOf(c) = {} THEN providers'[c] = NoProvider
                   ELSE providers'[c].limits = Promised(setters[Max(EndpointsOf(c))].endpoint)
             /\ \A e \in promises : CanBeKept(e)
       /\ stage' = "failed" =>
             \E e \in promises : e.min_delay # 0 /\ (~e.url_parses \/ HasBothLimits(e))
       /\ stage' = "panicked" =>
             \E e \in promises : \/ e.min_delay = 0
                                 \/ e.rate_limit = 0 /\ e.min_delay = None /\ e.url_parses
  BY <1>7, <1>8, <1>9, <1>10
<1>12. \A kind : At(kind)' = At(kind)
  BY <1>1 DEF At
<1>13. \A c : EndpointsOf(c)' = EndpointsOf(c)
  BY <1>1, <1>12 DEF EndpointsOf
<1>14. \A c : PoliciesOf(c)' = PoliciesOf(c)
  BY <1>1, <1>12, <1>13 DEF PoliciesOf
<1>15. \A e : Promised(e)' = Promised(e)
  BY <1>1, <1>12, <1>14 DEF Promised, LastValue
<1>16. promises' = promises
  BY <1>1, <1>12, <1>15 DEF AsPromised
<1> QED
  BY <1>1, <1>11, <1>13, <1>15, <1>16 DEF BuiltAsConfigured

\* What the builder was told depends on its calls alone.
LEMMA ToldStays ==
    ASSUME BuilderAsTold, UNCHANGED <<builder, setters>>
    PROVE  BuilderAsTold'
<1>1. \A kind : At(kind)' = At(kind)
  BY DEF At
<1>2. \A c \in Chains : EndpointsOf(c)' = EndpointsOf(c)
  BY <1>1 DEF EndpointsOf
<1>3. \A c \in Chains : PoliciesOf(c)' = PoliciesOf(c)
  BY <1>1, <1>2 DEF PoliciesOf
<1>4. \A c \in Chains : DelaysOf(c)' = DelaysOf(c) /\ Of(c)' = Of(c)
  BY <1>3 DEF DelaysOf, Of
<1>5. ASSUME NEW c \in Chains PROVE ChainAsTold(c)'
  <2>1. ChainAsTold(c)
    BY DEF BuilderAsTold
  <2> QED
    BY <1>2, <1>3, <1>4, <2>1 DEF ChainAsTold, LastValue
<1>6. EndpointsAsTold'
  BY <1>1 DEF BuilderAsTold, EndpointsAsTold
<1> QED
  BY <1>1, <1>5, <1>6 DEF BuilderAsTold, LastValue

LEMMA BuiltStays ==
    ASSUME BuiltAsConfigured, UNCHANGED <<stage, builder, setters, providers>>
    PROVE  BuiltAsConfigured'
<1>1. \A kind : At(kind)' = At(kind)
  BY DEF At
<1>2. \A c : EndpointsOf(c)' = EndpointsOf(c)
  BY <1>1 DEF EndpointsOf
<1>3. \A c : PoliciesOf(c)' = PoliciesOf(c)
  BY <1>1, <1>2 DEF PoliciesOf
<1>4. \A e : Promised(e)' = Promised(e)
  BY <1>1, <1>3 DEF Promised, LastValue
<1>5. {AsPromised(setters[i].endpoint) : i \in At("endpoint")}'
        = {AsPromised(setters[i].endpoint) : i \in At("endpoint")}
  BY <1>1, <1>4 DEF AsPromised
<1> QED
  BY <1>2, <1>4, <1>5 DEF BuiltAsConfigured

\* In whatever order a builder is filled, each chain of the pool has the limits
\* its last endpoint was promised, and build() fails or panics only over an
\* endpoint that was promised what cannot be kept (ProviderPoolBuilder::build).
THEOREM PoolsAreBuiltAsConfigured == PoolSpec => []BuiltAsConfigured
<1>1. PoolInit => BuilderAsTold /\ BuiltAsConfigured
  <2> SUFFICES ASSUME PoolInit PROVE BuilderAsTold /\ BuiltAsConfigured
    OBVIOUS
  <2>1. BuilderAsTold
    BY NewBuilderAsTold DEF PoolInit
  <2>2. stage = "building"
    BY DEF PoolInit
  <2>3. BuiltAsConfigured
    BY <2>2 DEF BuiltAsConfigured
  <2> QED
    BY <2>1, <2>3
<1>2. PoolInv /\ BuilderAsTold /\ BuiltAsConfigured /\ [PoolNext]_poolVars
         => BuilderAsTold' /\ BuiltAsConfigured'
  <2> SUFFICES ASSUME PoolInv, BuilderAsTold, BuiltAsConfigured, [PoolNext]_poolVars
               PROVE  BuilderAsTold' /\ BuiltAsConfigured'
    OBVIOUS
  <2>1. BuilderTypeOK
    BY DEF PoolInv
  <2>2. ASSUME NEW call \in BuilderCalls, Set(call)
        PROVE  BuilderAsTold' /\ BuiltAsConfigured'
    <3>1. BuilderAsTold'
      BY <2>1, <2>2, SetAsTold
    <3>2. stage' = "building"
      BY <2>2 DEF Set
    <3> QED
      BY <3>1, <3>2 DEF BuiltAsConfigured
  <2>3. CASE Build
    <3>1. BuilderAsTold'
      BY <2>3, ToldStays DEF Build
    <3> QED
      BY <2>1, <2>3, <3>1, BuildAsTold
  <2>4. CASE Share \/ StartOver
    <3>1. (builder = NewBuilder /\ setters = <<>>)' /\ stage' \in {"shared", "building"}
      BY <2>4 DEF Share, StartOver
    <3>2. BuilderAsTold'
      BY <3>1, NewBuilderAsTold, PTL
    <3> QED
      BY <3>1, <3>2 DEF BuiltAsConfigured
  <2>5. ASSUME UNCHANGED <<stage, builder, setters>>, stage = "shared" \/ UNCHANGED providers
        PROVE  BuilderAsTold' /\ BuiltAsConfigured'
    <3>1. BuilderAsTold'
      BY <2>5, ToldStays
    <3>2. CASE stage = "shared"
      BY <2>5, <3>1, <3>2 DEF BuiltAsConfigured
    <3>3. CASE UNCHANGED providers
      BY <2>5, <3>1, <3>3, BuiltStays
    <3> QED
      BY <2>5, <3>2, <3>3
  <2>6. ASSUME NEW t \in Tasks,
               (\E call \in PoolCalls : GetOrAdd(t, call) \/ Add(t, call))
                  \/ Create(t) \/ GetAgain(t) \/ EndCall(t)
        PROVE  BuilderAsTold' /\ BuiltAsConfigured'
    BY <2>5, <2>6 DEF GetOrAdd, Add, Create, GetAgain, EndCall
  <2>7. ASSUME NEW t \in Tasks, Insert(t) PROVE BuilderAsTold' /\ BuiltAsConfigured'
    <3>1. stage = "shared"
      BY <2>7 DEF Insert, PoolInv, TasksShare, Idle
    <3> QED
      BY <2>5, <2>7, <3>1 DEF Insert
  <2>8. CASE (\E c \in Chains : Remove(c)) \/ Clear
    BY <2>5, <2>8 DEF Remove, Clear
  <2>9. CASE UNCHANGED poolVars
    BY <2>5, <2>9 DEF poolVars
  <2> QED
    BY <2>2, <2>3, <2>4, <2>6, <2>7, <2>8, <2>9 DEF PoolNext
<1> QED
  BY <1>1, <1>2, PoolInvariant, PTL DEF PoolSpec
=============================================================================
