---------------------------- MODULE ProviderPoolMC ---------------------------
(* Two chains, endpoints with and without limits of their own, one with a URL *)
(* that does not parse, one with a budget of zero, one with both flaws: a      *)
(* pause of zero and that URL; and three policies: one paces a chain, one      *)
(* none, and one answers with a pause of zero.                                 *)
EXTENDS ProviderPool

CONSTANTS eth, base

Endpoint(chain, rate_limit, min_delay, timeout) ==
    [chain |-> chain, url_parses |-> TRUE, rate_limit |-> rate_limit,
     min_delay |-> min_delay, timeout |-> timeout]

Plain == Endpoint(eth, None, None, None)
Malformed == [Plain EXCEPT !.url_parses = FALSE]
Unpausing == [Malformed EXCEPT !.min_delay = 0]

Answer(delay, timeout) == [rate_limit_delay |-> delay, rpc_timeout |-> timeout]

Pacing == [c \in Chains |-> Answer(IF c = eth THEN 1 ELSE None, 30)]
Relaxed == [c \in Chains |-> Answer(None, 60)]
Zero == [c \in Chains |-> Answer(IF c = base THEN 0 ELSE None, 30)]

MCBuilderCalls ==
    {[kind |-> "endpoint", endpoint |-> e] :
        e \in {Plain, Malformed, Endpoint(base, 5, None, 10), Endpoint(eth, 0, None, None),
               Endpoint(eth, None, 2, None), Endpoint(base, None, None, None), Unpausing}}
    \cup {[kind |-> "policy", policy |-> p] : p \in {Pacing, Relaxed, Zero}}
    \cup {[kind |-> "rate_limit", value |-> 10], [kind |-> "timeout", value |-> 20]}

MCPoolCalls ==
    {[op |-> "get_or_add", endpoint |-> e] :
        e \in {Plain, Malformed, Endpoint(base, None, None, None)}}
    \cup {[op |-> "add", endpoint |-> e] :
        e \in {Endpoint(eth, None, 2, None), Endpoint(base, 0, None, None), Unpausing}}
==============================================================================
