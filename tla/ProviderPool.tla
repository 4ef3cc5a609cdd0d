---------------------------- MODULE ProviderPool -----------------------------
(***************************************************************************)
(* ProviderPoolBuilder and ProviderPool (src/provider/pool.rs) with the     *)
(* client construction they share (factory.rs, config.rs).                  *)
(*                                                                         *)
(* A builder collects endpoints, defaults and the answers of an RpcPolicy,  *)
(* and build() turns them into a pool or into the first error.  The pool is *)
(* then shared: every method takes the RwLock of its map once, get_or_add   *)
(* takes it three times, and other tasks run in between.                    *)
(*                                                                         *)
(* A provider is the limits its transport was built with and the number of  *)
(* its insertion: the Arc is made there, so the number is its identity.     *)
(***************************************************************************)
EXTENDS Integers, Sequences, FiniteSets, FiniteSetsExt

CONSTANTS
    Tasks,         \* the tasks that share the pool
    Chains,
    BuilderCalls,  \* what may be called on the builder
    PoolCalls,     \* the add and get_or_add calls tasks may make
    None,          \* an Option that is None
    MaxSetters,    \* bound: calls on one builder
    MaxInserted    \* bound: providers inserted into one pool

\* Option<u32>, Option<Duration>; what an endpoint asks for
Limit == Nat \cup {None}
Endpoints == [chain : Chains, url_parses : BOOLEAN,
              rate_limit : Limit, min_delay : Limit, timeout : Limit]

\* What an RpcPolicy answers for each chain
Policies == [Chains -> [rate_limit_delay : Limit, rpc_timeout : Nat]]

ASSUME PoolAssumption ==
    /\ None \notin Nat
    /\ MaxSetters \in Nat /\ MaxInserted \in Nat
    /\ BuilderCalls \subseteq [kind : {"endpoint"}, endpoint : Endpoints]
                            \cup [kind : {"policy"}, policy : Policies]
                            \cup [kind : {"rate_limit", "timeout"}, value : Nat]
    /\ PoolCalls \subseteq [op : {"add", "get_or_add"}, endpoint : Endpoints]

VARIABLES
    stage,      \* "building", "built", "shared", "failed" or "panicked"
    builder,    \* the fields of ProviderPoolBuilder
    setters,    \* the calls made on it, in order
    defaults,   \* default_rate_limit and default_timeout of the pool
    providers,  \* the map under the lock
    inserted,   \* how many providers were inserted into it
    task        \* what each task is doing

poolVars == <<stage, builder, setters, defaults, providers, inserted, task>>

Or(option, other) == IF option # None THEN option ELSE other

NoProvider == [id |-> 0, limits |-> None]

NewBuilder ==
    [endpoints |-> <<>>, rate_limit |-> None, timeout |-> None,
     policy_timeouts |-> [c \in Chains |-> None],
     policy_min_delays |-> [c \in Chains |-> None]]

Idle == [pc |-> "idle"]

PoolInit ==
    /\ stage = "building" /\ builder = NewBuilder /\ setters = <<>>
    /\ defaults = [rate_limit |-> None, timeout |-> None]
    /\ providers = [c \in Chains |-> NoProvider] /\ inserted = 0
    /\ task = [t \in Tasks |-> Idle]

-----------------------------------------------------------------------------
(* create_pooled_provider and build_http_client *)

HasBothLimits(e) == e.rate_limit # None /\ e.min_delay # None

\* ProviderConfig::with_min_delay asserts, before anything else is looked at,
\* that a delay is not zero: an endpoint's own, or the one a policy supplies
DelayIsZero(e) == e.min_delay = 0

\* ProviderUrlInvalid, or ConflictingRateLimit
IsRefused(e) == ~DelayIsZero(e) /\ (~e.url_parses \/ HasBothLimits(e))

\* ... and RateLimitLayer::per_second that a budget is not
PanicsIn(e) == DelayIsZero(e) \/ (~IsRefused(e) /\ e.rate_limit = 0)

CannotBeMade(e) == IsRefused(e) \/ PanicsIn(e)

LimitsOf(e) == [rate_limit |-> e.rate_limit, min_delay |-> e.min_delay, timeout |-> e.timeout]

\* add_inner: what the call leaves open comes from the pool's defaults
WithDefaults(e, d) ==
    [e EXCEPT !.rate_limit = Or(@, d.rate_limit), !.timeout = Or(@, d.timeout)]

-----------------------------------------------------------------------------
(* The builder *)

ChainsOf(endpoints) == {endpoints[i].chain : i \in DOMAIN endpoints}

\* The policy is asked for the chains of the endpoints there are so far; a
\* delay it does not supply leaves the one an earlier policy supplied
WithRpcPolicy(policy) ==
    LET asked == ChainsOf(builder.endpoints)
    IN  builder' = [builder EXCEPT
            !.policy_timeouts =
                [c \in Chains |-> IF c \in asked THEN policy[c].rpc_timeout ELSE @[c]],
            !.policy_min_delays =
                [c \in Chains |-> IF c \in asked THEN Or(policy[c].rate_limit_delay, @[c])
                                  ELSE @[c]]]

AddEndpoint(e) == builder' = [builder EXCEPT !.endpoints = Append(@, e)]

Set(call) ==
    /\ stage = "building"
    /\ Len(setters) < MaxSetters
    /\ setters' = Append(setters, call)
    /\ CASE call.kind = "endpoint"   -> AddEndpoint(call.endpoint)
         [] call.kind = "policy"     -> WithRpcPolicy(call.policy)
         [] call.kind = "rate_limit" -> builder' = [builder EXCEPT !.rate_limit = call.value]
         [] call.kind = "timeout"    -> builder' = [builder EXCEPT !.timeout = call.value]
    /\ UNCHANGED <<stage, defaults, providers, inserted, task>>

\* A bug: the policy overrides what the endpoint asks for
EffectivePolicyFirst(e) ==
    [e EXCEPT !.rate_limit = Or(@, builder.rate_limit),
              !.timeout = Or(builder.policy_timeouts[e.chain], @),
              !.min_delay = Or(builder.policy_min_delays[e.chain], @)]

Effective(e) ==
    [e EXCEPT !.rate_limit = Or(@, builder.rate_limit),
              !.timeout = Or(@, builder.policy_timeouts[e.chain]),
              !.min_delay = Or(@, builder.policy_min_delays[e.chain])]

NewDefaults == [rate_limit |-> builder.rate_limit, timeout |-> builder.timeout]

\* What add_endpoint is called with, in order, the defaults filled in
Added == [i \in DOMAIN builder.endpoints |->
            WithDefaults(Effective(builder.endpoints[i]), NewDefaults)]

\* The first endpoint whose client cannot be made ends build()
FirstBad == LET bad == {i \in DOMAIN Added : CannotBeMade(Added[i])}
            IN  IF bad = {} THEN 0 ELSE Min(bad)

\* An endpoint replaces an earlier one of its chain
PoolOf(endpoints) ==
    [c \in Chains |->
        LET of == {i \in DOMAIN endpoints : endpoints[i].chain = c}
        IN  IF of = {} THEN NoProvider
            ELSE [id |-> Max(of), limits |-> LimitsOf(endpoints[Max(of)])]]

Build ==
    /\ stage = "building"
    /\ stage' = CASE FirstBad = 0 -> "built"
                  [] FirstBad > 0 /\ IsRefused(Added[FirstBad]) -> "failed"
                  [] OTHER -> "panicked"
    /\ IF FirstBad = 0
       THEN /\ defaults' = NewDefaults
            /\ providers' = PoolOf(Added) /\ inserted' = Len(Added)
       ELSE UNCHANGED <<defaults, providers, inserted>>
    /\ UNCHANGED <<builder, setters, task>>

\* The pool is handed to the tasks; the builder was consumed
Share ==
    /\ stage = "built"
    /\ stage' = "shared" /\ builder' = NewBuilder /\ setters' = <<>>
    /\ UNCHANGED <<defaults, providers, inserted, task>>

\* After an error the caller starts over
StartOver ==
    /\ stage \in {"failed", "panicked"}
    /\ stage' = "building" /\ builder' = NewBuilder /\ setters' = <<>>
    /\ UNCHANGED <<defaults, providers, inserted, task>>

-----------------------------------------------------------------------------
(* The shared pool *)

Calling(t, call, pc) ==
    [pc |-> pc, op |-> call.op, endpoint |-> WithDefaults(call.endpoint, defaults),
     provider |-> NoProvider, missed_at |-> inserted, emptied |-> FALSE]

Move(t, pc) == task' = [task EXCEPT ![t].pc = pc]

\* A bug: get_or_add does not look before it adds
GetOrAddBlindly(t, call) ==
    /\ stage = "shared" /\ task[t] = Idle /\ call.op = "get_or_add"
    /\ task' = [task EXCEPT ![t] = Calling(t, call, "creating")]
    /\ UNCHANGED <<stage, builder, setters, defaults, providers, inserted>>

\* The first get: the provider is returned, or the task goes on to add one
GetOrAdd(t, call) ==
    LET p == providers[call.endpoint.chain]
    IN  /\ stage = "shared" /\ task[t] = Idle /\ call.op = "get_or_add"
        /\ task' = [task EXCEPT ![t] =
                IF p = NoProvider THEN Calling(t, call, "creating")
                ELSE [Calling(t, call, "returned") EXCEPT !.provider = p]]
        /\ UNCHANGED <<stage, builder, setters, defaults, providers, inserted>>

\* add and add_endpoint
Add(t, call) ==
    /\ stage = "shared" /\ task[t] = Idle /\ call.op = "add"
    /\ task' = [task EXCEPT ![t] = Calling(t, call, "creating")]
    /\ UNCHANGED <<stage, builder, setters, defaults, providers, inserted>>

\* create_pooled_provider, before the lock is taken
Create(t) ==
    LET e == task[t].endpoint
    IN  /\ task[t].pc = "creating"
        /\ inserted < MaxInserted
        /\ Move(t, CASE IsRefused(e) -> "failed" [] PanicsIn(e) -> "panicked"
                     [] OTHER -> "created")
        /\ UNCHANGED <<stage, builder, setters, defaults, providers, inserted>>

\* insert under the write lock: whatever is there is replaced
Insert(t) ==
    LET e == task[t].endpoint
    IN  /\ task[t].pc = "created"
        /\ inserted' = inserted + 1
        /\ providers' = [providers EXCEPT ![e.chain] = [id |-> inserted', limits |-> LimitsOf(e)]]
        /\ Move(t, IF task[t].op = "add" THEN "returned" ELSE "inserted")
        /\ UNCHANGED <<stage, builder, setters, defaults>>

\* The second get: what is there now, or an error
GetAgain(t) ==
    LET p == providers[task[t].endpoint.chain]
    IN  /\ task[t].pc = "inserted"
        /\ task' = [task EXCEPT ![t].provider = p,
                                ![t].pc = IF p = NoProvider THEN "failed" ELSE "returned"]
        /\ UNCHANGED <<stage, builder, setters, defaults, providers, inserted>>

EndCall(t) ==
    /\ task[t].pc \in {"returned", "failed", "panicked"}
    /\ task' = [task EXCEPT ![t] = Idle]
    /\ UNCHANGED <<stage, builder, setters, defaults, providers, inserted>>

\* A task between its insert and its second get notices that its chain is emptied
Emptying(cs) ==
    task' = [t \in Tasks |->
        IF task[t].pc = "inserted" /\ task[t].endpoint.chain \in cs
        THEN [task[t] EXCEPT !.emptied = TRUE] ELSE task[t]]

\* A bug: remove empties the pool
RemoveEverything(c) ==
    /\ stage = "shared" /\ providers[c] # NoProvider
    /\ providers' = [d \in Chains |-> NoProvider]
    /\ Emptying({c})
    /\ UNCHANGED <<stage, builder, setters, defaults, inserted>>

Remove(c) ==
    /\ stage = "shared" /\ providers[c] # NoProvider
    /\ providers' = [providers EXCEPT ![c] = NoProvider]
    /\ Emptying({c})
    /\ UNCHANGED <<stage, builder, setters, defaults, inserted>>

Clear ==
    /\ stage = "shared"
    /\ providers' = [c \in Chains |-> NoProvider]
    /\ Emptying(Chains)
    /\ UNCHANGED <<stage, builder, setters, defaults, inserted>>

PoolNext ==
    \/ \E call \in BuilderCalls : Set(call)
    \/ Build \/ Share \/ StartOver
    \/ \E t \in Tasks :
          \/ \E call \in PoolCalls : GetOrAdd(t, call) \/ Add(t, call)
          \/ Create(t) \/ Insert(t) \/ GetAgain(t) \/ EndCall(t)
    \/ \E c \in Chains : Remove(c)
    \/ Clear

PoolSpec == PoolInit /\ [][PoolNext]_poolVars

-----------------------------------------------------------------------------
(* Properties *)

\* Types of the variables.
TypeOK ==
    /\ stage \in {"building", "built", "shared", "failed", "panicked"}
    /\ Len(setters) <= MaxSetters /\ inserted \in 0 .. MaxInserted + Cardinality(Tasks)
    /\ DOMAIN providers = Chains /\ DOMAIN task = Tasks
    /\ \A c \in Chains : providers[c].id \in 0 .. inserted

\* The last of the calls on the builder at positions S, or None
LastValue(S, Value(_)) == IF S = {} THEN None ELSE Value(setters[Max(S)])

At(kind) == {i \in DOMAIN setters : setters[i].kind = kind}

EndpointsOf(c) == {i \in At("endpoint") : setters[i].endpoint.chain = c}

\* The policies that were applied when the chain already had an endpoint
PoliciesOf(c) == {i \in At("policy") : \E j \in EndpointsOf(c) : j < i}

\* The limits an endpoint ends up with: its own, else the latest policy that
\* knew its chain and said something, else the builder's
Promised(e) ==
    LET Delay(call) == call.policy[e.chain].rate_limit_delay
    IN  [rate_limit |-> Or(e.rate_limit, LastValue(At("rate_limit"), LAMBDA s : s.value)),
         min_delay |-> Or(e.min_delay,
                          LastValue({i \in PoliciesOf(e.chain) : Delay(setters[i]) # None}, Delay)),
         timeout |-> Or(e.timeout,
                        Or(LastValue(PoliciesOf(e.chain), LAMBDA s : s.policy[e.chain].rpc_timeout),
                           LastValue(At("timeout"), LAMBDA s : s.value)))]

\* An endpoint with the limits it was promised
AsPromised(e) == [e EXCEPT !.rate_limit = Promised(e).rate_limit,
                           !.min_delay = Promised(e).min_delay, !.timeout = Promised(e).timeout]

\* In whatever order a builder is filled, each chain of the built pool has the
\* limits its last endpoint was promised, and no endpoint, also of the replaced
\* ones, was promised what cannot be kept.  build() fails or panics only over one
\* that was: two limits and a URL that does not parse are errors, a budget of
\* zero is a panic, and so is a pause of zero, whatever else is wrong with it.
BuiltAsConfigured ==
    LET promises == {AsPromised(setters[i].endpoint) : i \in At("endpoint")}
    IN  /\ stage = "built" =>
              /\ \A c \in Chains :
                    IF EndpointsOf(c) = {} THEN providers[c] = NoProvider
                    ELSE providers[c].limits = Promised(setters[Max(EndpointsOf(c))].endpoint)
              /\ \A e \in promises : /\ e.url_parses /\ ~HasBothLimits(e)
                                     /\ e.rate_limit # 0 /\ e.min_delay # 0
        /\ stage = "failed" =>
              \E e \in promises : e.min_delay # 0 /\ (~e.url_parses \/ HasBothLimits(e))
        /\ stage = "panicked" =>
              \E e \in promises :
                  \/ e.min_delay = 0
                  \/ e.rate_limit = 0 /\ e.min_delay = None /\ e.url_parses

\* A get_or_add whose client can be made fails only if its chain was removed or
\* the pool cleared between its insert and its second look: adding, replacing
\* and removing other chains never make it fail.
FailsOnlyIfEmptied ==
    \A t \in Tasks :
        task[t].pc = "failed" => IsRefused(task[t].endpoint) \/ task[t].emptied

Inserts(t) == task[t].pc = "created" /\ task'[t].pc # "created"

\* get_or_add replaces a provider, which other tasks may be using with a rate
\* limiter of its own, only if that one was inserted after get_or_add had looked:
\* a provider that was there is never replaced by it.
ReplacesOnlyNewcomers ==
    [][\A t \in Tasks : Inserts(t) /\ task[t].op = "get_or_add" =>
          LET p == providers[task[t].endpoint.chain]
          IN  p = NoProvider \/ p.id > task[t].missed_at]_poolVars

\* What pool.rs:250 says: "Get a provider for a chain, or add it if not present".
AddsOnlyIfAbsent ==
    [][\A t \in Tasks : Inserts(t) /\ task[t].op = "get_or_add" =>
          providers[task[t].endpoint.chain] = NoProvider]_poolVars
==============================================================================
