------------------------------ MODULE RateLimit ------------------------------
(***************************************************************************)
(* RateLimitLayer (src/transport/rate_limit.rs): callers of one provider    *)
(* share a token bucket behind a mutex.  A caller that finds no token       *)
(* sleeps outside the mutex for as long as one takes to come, and asks      *)
(* again, among all others.                                                *)
(*                                                                         *)
(* Time is in nanoseconds.  Tokens are counted in parts of one period, so   *)
(* that what comes in a nanosecond is a whole number: a request takes       *)
(* Period of them, and Requests of them come in a nanosecond.               *)
(***************************************************************************)
EXTENDS Integers

CONSTANTS
    Callers,   \* calls of a provider and its clones
    Requests,  \* requests
    Period,    \* period
    MaxAge     \* bound on the age of the window in which requests are counted

ASSUME RateLimitAssumption ==
    /\ Requests \in Nat \ {0} /\ Period \in Nat \ {0}
    /\ MaxAge \in Nat

VARIABLES
    pc,      \* where each call is
    tokens,  \* tokens at the last refill
    since,   \* the time since then, up to a period
    left,    \* how much longer each call sleeps
    age,     \* how long ago the counting of requests began
    seen     \* the requests that have been sent since then

bucket == <<tokens, since>>
window == <<age, seen>>

Capacity == Requests * Period

Init ==
    /\ pc = [c \in Callers |-> "idle"]
    /\ tokens = Capacity /\ since = 0
    /\ left = [c \in Callers |-> 0]
    /\ age = 0 /\ seen = 0

-----------------------------------------------------------------------------
(* RateLimitState *)

\* A bug: tokens come in whole, and what is left of the time is forgotten
AvailableInWhole ==
    LET sum == tokens + ((since * Requests) \div Period) * Period
    IN  IF sum < Capacity THEN sum ELSE Capacity

\* A bug: the bucket has no capacity
AvailableUncapped == tokens + since * Requests

\* refill
Available ==
    LET sum == tokens + since * Requests
    IN  IF sum < Capacity THEN sum ELSE Capacity

EnoughForOne == Available >= Period

\* The wait for what is missing, in whole nanoseconds
Wait == (Period - Available) \div Requests

-----------------------------------------------------------------------------
(* RateLimitService::call *)

Goto(c, l) == pc' = [pc EXCEPT ![c] = l]

Call(c) ==
    /\ pc[c] = "idle"
    /\ Goto(c, "asking")
    /\ UNCHANGED <<bucket, left, window>>

Acquire(c) ==
    /\ pc[c] = "asking" /\ EnoughForOne
    /\ tokens' = Available - Period /\ since' = 0
    /\ seen' = seen + 1
    /\ Goto(c, "sent")
    /\ UNCHANGED <<left, age>>

Sleep(c) ==
    /\ pc[c] = "asking" /\ ~EnoughForOne
    /\ tokens' = Available /\ since' = 0
    /\ left' = [left EXCEPT ![c] = Wait]
    /\ Goto(c, "sleeping")
    /\ UNCHANGED window

Wake(c) ==
    /\ pc[c] = "sleeping" /\ left[c] = 0
    /\ Goto(c, "asking")
    /\ UNCHANGED <<bucket, left, window>>

\* The inner service answers, or fails
Answer(c) ==
    /\ pc[c] = "sent"
    /\ Goto(c, "idle")
    /\ UNCHANGED <<bucket, left, window>>

\* The caller drops the future; a token that was taken stays taken
Drop(c) ==
    /\ pc[c] # "idle"
    /\ Goto(c, "idle")
    /\ left' = [left EXCEPT ![c] = 0]
    /\ UNCHANGED <<bucket, window>>

Elapsed(t) == IF t > 0 THEN t - 1 ELSE 0

\* A full window is followed by the next.  After a period the bucket is full.
Tick ==
    /\ since' = (IF since < Period THEN since + 1 ELSE since)
    /\ left' = [c \in Callers |-> Elapsed(left[c])]
    /\ \/ age < MaxAge /\ age' = age + 1 /\ seen' = seen
       \/ age = MaxAge /\ age' = 0 /\ seen' = 0
    /\ UNCHANGED <<pc, tokens>>

\* Requests are counted from now on
Observe ==
    /\ age' = 0 /\ seen' = 0
    /\ UNCHANGED <<pc, bucket, left>>

vars == <<pc, bucket, left, window>>

Next == \/ \E c \in Callers : Call(c) \/ Acquire(c) \/ Sleep(c) \/ Wake(c) \/ Answer(c) \/ Drop(c)
        \/ Tick \/ Observe

Spec == Init /\ [][Next]_vars

-----------------------------------------------------------------------------
(* Properties *)

\* Types of the bucket and of the window.
BucketTypeOK ==
    /\ tokens \in 0 .. Capacity /\ since \in 0 .. Period
    /\ age \in 0 .. MaxAge /\ seen \in Nat

\* In any stretch of time, no more requests are sent than the bucket holds and
\* than come in that time, however many callers there are and whenever they
\* wake, drop or sleep too long.
RateIsBounded == seen * Period <= Requests * (Period + age)

\* Its strengthening: what is in the bucket has not been sent.
Conserved == seen * Period + Available <= Capacity + Requests * age
==============================================================================
