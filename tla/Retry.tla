-------------------------------- MODULE Retry --------------------------------
(***************************************************************************)
(* RetryLayer (src/transport/retry.rs) around RateLimitLayer, the order     *)
(* that docs/PROVIDER_SETUP.md recommends: every attempt of a call takes a  *)
(* token of its own, and between two attempts it sleeps without one.        *)
(***************************************************************************)
EXTENDS RateLimit

CONSTANTS
    MaxRetries,  \* max_retries
    BaseDelay,   \* base_delay, in nanoseconds
    MaxDelay,    \* max_delay, in nanoseconds
    Milli,       \* nanoseconds in a millisecond
    Replies,     \* what the inner service may answer
    MaxCalls     \* bound on the calls of each caller

\* Ok(response), which may hold a JSON-RPC error ("limited": one that asks to
\* try again), or an error by its variant.  Of the transport's errors and the
\* error responses alloy says which may be retried.
Transient == {"transport", "error_response", "deserialization", "null_response"}
Permanent == {"transport_fatal", "error_response_fatal", "serialization", "other"}

ASSUME RetryAssumption ==
    /\ {MaxRetries, BaseDelay, MaxDelay, MaxCalls} \subseteq Nat
    /\ Milli \in Nat \ {0}
    /\ Replies \subseteq {"ok", "limited"} \cup Transient \cup Permanent

VARIABLES
    attempt,  \* attempt
    sends,    \* the requests each call has sent
    reply,    \* what it has returned
    calls     \* how often each caller has called

retries == <<attempt, sends, reply, calls>>

RetryInit ==
    /\ Init
    /\ attempt = [c \in Callers |-> 0]
    /\ sends = [c \in Callers |-> 0]
    /\ reply = [c \in Callers |-> "none"]
    /\ calls = [c \in Callers |-> 0]

\* calculate_backoff
Backoff(k) ==
    LET ms == (BaseDelay \div Milli) * 2 ^ k
        cap == MaxDelay \div Milli
    IN  Milli * (IF ms < cap THEN ms ELSE cap)

Begin(c) ==
    /\ Call(c) /\ calls[c] < MaxCalls
    /\ calls' = [calls EXCEPT ![c] = @ + 1]
    /\ attempt' = [attempt EXCEPT ![c] = 0]
    /\ sends' = [sends EXCEPT ![c] = 0]
    /\ reply' = [reply EXCEPT ![c] = "none"]

Send(c) ==
    /\ Acquire(c)
    /\ sends' = [sends EXCEPT ![c] = @ + 1]
    /\ UNCHANGED <<attempt, reply, calls>>

\* A bug: the last retry is one too early
MayRetryLess(c) == attempt[c] + 1 < MaxRetries

MayRetry(c) == attempt[c] < MaxRetries

\* is_retryable_error
IsRetryable(r) == r \in Transient

\* What is returned: any Ok, an error that is not to be retried, and the last
\* of the transient ones
Return(c) ==
    /\ Answer(c)
    /\ \E r \in Replies : /\ IsRetryable(r) => ~MayRetry(c)
                          /\ reply' = [reply EXCEPT ![c] = r]
    /\ UNCHANGED <<attempt, sends, calls>>

BackOff(c) ==
    /\ pc[c] = "sent" /\ MayRetry(c)
    /\ \E r \in Replies : IsRetryable(r)
    /\ Goto(c, "backoff")
    /\ left' = [left EXCEPT ![c] = Backoff(attempt[c])]
    /\ UNCHANGED <<bucket, window, retries>>

\* A bug: a retry is sent without a token
AgainUnpaced(c) ==
    /\ pc[c] = "backoff" /\ left[c] = 0
    /\ Goto(c, "sent")
    /\ attempt' = [attempt EXCEPT ![c] = @ + 1]
    /\ sends' = [sends EXCEPT ![c] = @ + 1]
    /\ seen' = seen + 1
    /\ UNCHANGED <<bucket, left, age, reply, calls>>

Again(c) ==
    /\ pc[c] = "backoff" /\ left[c] = 0
    /\ Goto(c, "asking")
    /\ attempt' = [attempt EXCEPT ![c] = @ + 1]
    /\ UNCHANGED <<bucket, left, window, sends, reply, calls>>

Progress(c) == \/ Send(c) \/ Return(c) \/ BackOff(c) \/ Again(c)
               \/ (Sleep(c) \/ Wake(c)) /\ UNCHANGED retries

RetryNext == \/ \E c \in Callers : \/ Begin(c) \/ Progress(c)
                                   \/ Drop(c) /\ UNCHANGED retries
             \/ (Tick \/ Observe) /\ UNCHANGED retries

RetrySpec == RetryInit /\ [][RetryNext]_<<vars, retries>>

\* The runtime polls every call, requests are answered, and time passes.
FairRetrySpec ==
    /\ RetrySpec
    /\ \A c \in Callers : WF_<<vars, retries>>(Progress(c))
    /\ WF_<<vars, retries>>(Tick /\ UNCHANGED retries)

-----------------------------------------------------------------------------
(* Properties *)

\* Types of the variables.
RetryTypeOK ==
    /\ pc \in [Callers -> {"idle", "asking", "sleeping", "sent", "backoff"}]
    /\ BucketTypeOK
    /\ left \in [Callers -> Nat]
    /\ attempt \in [Callers -> 0 .. MaxRetries]
    /\ sends \in [Callers -> 0 .. MaxRetries + 1]
    /\ reply \in [Callers -> Replies \cup {"none"}]
    /\ calls \in [Callers -> 0 .. MaxCalls]

\* "Automatically retries on transient failures": a call returns a failure that
\* asks to try again only when all its attempts have met one.
TransientIsRetried ==
    \A c \in Callers :
        pc[c] = "idle" /\ reply[c] \in Transient \cup {"limited"}
            => sends[c] = MaxRetries + 1

\* Every call returns, however many share the bucket, when they do not call
\* without end.
EveryCallReturns == \A c \in Callers : pc[c] # "idle" ~> pc[c] = "idle"

\* Retries are requests like any other: with the layers in this order the whole
\* is a RateLimit, where a call that backs off is not calling.
Paced == INSTANCE RateLimit
            WITH pc <- [c \in Callers |-> IF pc[c] = "backoff" THEN "idle" ELSE pc[c]],
                 left <- [c \in Callers |-> IF pc[c] = "backoff" THEN 0 ELSE left[c]]

RetriesArePaced == Paced!Spec
==============================================================================
