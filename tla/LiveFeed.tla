------------------------------- MODULE LiveFeed -------------------------------
(***************************************************************************)
(* RealtimeEventScanner (src/events/realtime.rs): the three subscriptions,  *)
(* next to the scans of EventScan on the same chain.                        *)
(*                                                                         *)
(* subscribe_logs_with_catchup awaits two RPCs one after the other: the     *)
(* history up to the latest block, then the live subscription.  The chain   *)
(* may grow between them.  The stream hands out the history first, then     *)
(* what the subscription has received since it was set up.  The library     *)
(* keeps that in a channel of bounded size, which is here as long as it has *)
(* to be: the consumer is one for whom the channel does not overflow.       *)
(***************************************************************************)
EXTENDS EventScan

CONSTANTS
    Feeds      \* the subscriptions the caller may ask for

ASSUME LiveFeedAssumption ==
    \A f \in Feeds :
        /\ f.api \in {"subscribe_blocks", "subscribe_logs", "subscribe_logs_with_catchup"}
        /\ f.from_block \in Blocks

VARIABLES
    feed,      \* the subscription asked for, or NoFeed
    stage,     \* "off", "fetched", "open" or "closed"
    stream,    \* what the stream still holds, in order
    got,       \* what the consumer has taken from it
    reads      \* the head at the history's answer and at the subscription's start

feedVars == <<feed, stage, stream, got, reads>>

vars == <<head, pc, call, cursor, found, skipped, answer, feed, stage, stream, got, reads>>

NoFeed == [api |-> Unset]

NoReads == [history |-> 0, live |-> 0]

Init ==
    /\ ScanInit
    /\ feed = NoFeed /\ stage = "off"
    /\ stream = <<>> /\ got = <<>> /\ reads = NoReads

\* What a new block puts on the stream: its header, or its log if it matches
Emits(f, b) == IF f.api = "subscribe_blocks" \/ Matches(f.filter, b) THEN <<b>> ELSE <<>>

-----------------------------------------------------------------------------

\* subscribe_blocks and subscribe_logs: nothing of the past
Subscribe(f) ==
    /\ stage = "off" /\ f.api \in {"subscribe_blocks", "subscribe_logs"}
    /\ feed' = f /\ stage' = "open"
    /\ reads' = [history |-> head, live |-> head]
    /\ UNCHANGED <<head, scanVars, stream, got>>

\* get_logs(from_block .. Latest)
FetchHistory(f) ==
    /\ stage = "off" /\ f.api = "subscribe_logs_with_catchup"
    /\ feed' = f /\ stage' = "fetched"
    /\ stream' = LogsIn(f.filter, f.from_block, head)
    /\ reads' = [history |-> head, live |-> head]
    /\ UNCHANGED <<head, scanVars, got>>

\* A bug: the live logs are put in front of the history
GoLiveFirst ==
    /\ stage = "fetched"
    /\ stage' = "open"
    /\ stream' = Reverse(stream)
    /\ reads' = [reads EXCEPT !.live = head]
    /\ UNCHANGED <<head, scanVars, feed, got>>

\* subscribe_logs(live_filter), chained behind the history
GoLive ==
    /\ stage = "fetched"
    /\ stage' = "open"
    /\ reads' = [reads EXCEPT !.live = head]
    /\ UNCHANGED <<head, scanVars, feed, stream, got>>

\* The second RPC fails: its error is returned and the history is dropped.  A
\* first RPC that fails changes nothing.
SubscribeFails ==
    /\ stage = "fetched"
    /\ feed' = NoFeed /\ stage' = "off" /\ stream' = <<>> /\ reads' = NoReads
    /\ UNCHANGED <<head, scanVars, got>>

Take ==
    /\ stage \in {"open", "closed"} /\ stream # <<>>
    /\ got' = Append(got, Head(stream))
    /\ stream' = Tail(stream)
    /\ UNCHANGED <<head, scanVars, feed, stage, reads>>

\* The connection is closed: nothing more arrives, what was received is kept
Disconnect ==
    /\ stage = "open"
    /\ stage' = "closed"
    /\ UNCHANGED <<head, scanVars, feed, stream, got, reads>>

\* The consumer drops the stream and may subscribe again
Unsubscribe ==
    /\ stage \in {"open", "closed"}
    /\ feed' = NoFeed /\ stage' = "off" /\ stream' = <<>> /\ got' = <<>> /\ reads' = NoReads
    /\ UNCHANGED <<head, scanVars>>

NewBlock ==
    /\ head < U64Max
    /\ head' = head + 1
    /\ stream' = IF stage = "open" THEN stream \o Emits(feed, head + 1) ELSE stream
    /\ UNCHANGED <<scanVars, feed, stage, got, reads>>

FeedStep == \/ \E f \in Feeds : Subscribe(f) \/ FetchHistory(f)
            \/ GoLive \/ SubscribeFails \/ Take \/ Disconnect \/ Unsubscribe

Next == \/ ScanStep /\ UNCHANGED feedVars
        \/ FeedStep
        \/ NewBlock

Spec == Init /\ [][Next]_vars

FairSpec == Spec /\ WF_vars(ScanProgress /\ UNCHANGED feedVars)

-----------------------------------------------------------------------------
(* Properties *)

\* Types of the feed's variables.
FeedTypeOK ==
    /\ stage \in {"off", "fetched", "open", "closed"}
    /\ stream \in Seq(Blocks) /\ got \in Seq(Blocks)
    /\ reads \in [history : Blocks, live : Blocks]

\* What the consumer has and will still get
Delivered == got \o stream

\* What a feed should cover now: every block after it was set up, and a catch-up
\* its history from from_block on.  The live filter has no first block: a
\* from_block the chain has not reached holds nothing back.
Covers ==
    {b \in Blocks :
        /\ b <= head /\ Emits(feed, b) # <<>>
        /\ \/ b > reads.live
           \/ feed.api = "subscribe_logs_with_catchup" /\ b >= feed.from_block}

\* The block appeared after the history was read and before the feed was live
InHandover(b) == reads.history < b /\ b <= reads.live

\* While a feed is open its consumer gets every block in order and once, the
\* history before what is live; the only blocks it never gets are those of the
\* handover, which are lost for good.  (A consumer so slow that the library's
\* channel overflows may lose more.)
OnlyTheHandoverIsLost ==
    stage = "open" =>
        /\ \A i, j \in DOMAIN Delivered : i < j => Delivered[i] < Delivered[j]
        /\ ToSet(Delivered) = {b \in Covers : ~InHandover(b)}

\* What realtime.rs:246 says of the catch-up: it "seamlessly transitions to
\* live streaming", so the consumer misses nothing.
NothingIsLost ==
    stage = "open" => Covers \subseteq ToSet(Delivered)
==============================================================================
