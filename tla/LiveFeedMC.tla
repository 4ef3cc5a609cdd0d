------------------------------ MODULE LiveFeedMC ------------------------------
(* A chain of five blocks, the last of them the last block number there is:  *)
(* transfers of two tokens, one that does not decode, one to another address, *)
(* and amounts that exceed the largest TokenAmount together.                  *)
EXTENDS LiveFeed

CONSTANTS t1, t2, sender, router, other, plain, paced, broken, none, unset

Log(token, to, value, sound) ==
    [token |-> token, from |-> sender, to |-> to, value |-> value, sound |-> sound]

MCLogOf == 0 :> Log(t1, router, 2, TRUE) @@ 1 :> Log(t2, router, 1, FALSE)
            @@ 2 :> Log(t2, router, 1, TRUE) @@ 3 :> Log(t1, router, 2, TRUE)
            @@ 4 :> Log(t1, other, 1, TRUE)

\* broken: chain_max_blocks(chain, 0); paced: an override without a block range
MCConfig == [max_block_range |-> 2,
             chain_overrides |-> broken :> [max_block_range |-> 0]
                                 @@ paced :> [max_block_range |-> unset]]

All == [token |-> unset, from |-> unset, to |-> unset]
ToRouter == [All EXCEPT !.to = router]
Pair == [token |-> t1, from |-> sender, to |-> router]

CallOf(api, chain, size, filter, start, end) ==
    [api |-> api, chain |-> chain, chunk_size |-> size, filter |-> filter,
     start |-> start, end |-> end]

Numbers(lo, hi) == <<Included(lo), Included(hi)>>

MCCalls ==
    {CallOf("scan", chain, 0, All, r[1], r[2]) :
        chain \in {plain, broken}, r \in {Numbers(0, 4), Numbers(3, 1)}}
    \cup {CallOf("scan_range", paced, 0, ToRouter, r[1], r[2]) :
        r \in {<<Excluded(0), Included(4)>>, <<Included(0), Excluded(0)>>,
               <<Excluded(4), Included(4)>>, <<Included(1), Unbounded>>}}
    \cup {CallOf(api, plain, 0, ToRouter, Included(1), Included(3)) :
        api \in {"scan_with_handler", "scan_with_handler_range"}}
    \cup {CallOf("fetch_logs_chunked", none, size, All, Included(0), end) :
        size \in {0, 3}, end \in {Included(2), Unbounded}}
    \cup {CallOf("fetch_logs_chunked_range", none, 2, All, Included(1), Excluded(4))}
    \cup {CallOf("transfer_amount", plain, 0, Pair, Included(0), Included(4))}
    \cup {CallOf("transferred_tokens", plain, 0, ToRouter, Included(0), Included(4))}

FeedOf(api, filter, from) == [api |-> api, filter |-> filter, from_block |-> from]

MCFeeds == {FeedOf("subscribe_blocks", All, 0), FeedOf("subscribe_logs", ToRouter, 0),
            FeedOf("subscribe_logs_with_catchup", All, 1),
            FeedOf("subscribe_logs_with_catchup", All, 4)}
===============================================================================
