----------------------------- MODULE DpiSession -----------------------------
(***************************************************************************)
(* The streaming classifier: DpiSession::feed, the flow table it caches    *)
(* verdicts in, and the least-recently-used eviction that bounds the       *)
(* table (src/engine/streaming.rs).                                        *)
(*                                                                         *)
(* The HashMap from FlowKey to FlowState is decomposed: "tracked" is its   *)
(* key set and attempts, tag and lastSeen are the fields of the entries,   *)
(* with the values of a fresh entry for a flow that is not tracked.  A     *)
(* packet is what feed can tell of it: whether extract_l4_payload yields a *)
(* payload and which name the registry gives that payload.                 *)
(***************************************************************************)
EXTENDS Integers, FiniteSets

CONSTANTS
    FlowKey,               \* the 5-tuples
    Protocol,              \* the dissector names
    NoTag,                 \* Option::None
    MaxClassifyAttempts,   \* DpiSessionConfig::max_classify_attempts
    MaxFlows,              \* DpiSessionConfig::max_flows
    MaxTick                \* bound on the number of calls of feed

ASSUME ConfigAssumption ==
    /\ MaxClassifyAttempts \in Nat
    /\ MaxFlows \in Nat
    /\ MaxTick \in Nat
    /\ NoTag \notin Protocol

VARIABLES
    tick,       \* DpiSession::tick
    tracked,    \* the keys of DpiSession::flows
    attempts,   \* FlowState::attempts
    tag,        \* FlowState::classification
    lastSeen,   \* FlowState::last_seen
    lastFed,    \* history: the tick of the last feed of a flow, 0 if none
    answer      \* history: what the last feed of a flow returned

vars == <<tick, tracked, attempts, tag, lastSeen, lastFed, answer>>

Packet == [l4 : BOOLEAN, name : Protocol \cup {NoTag}]

Verdict == {"Silent", "NeedMore", "Classified", "Unknown"}

-----------------------------------------------------------------------------

Init ==
    /\ tick = 0
    /\ tracked = {}
    /\ attempts = [f \in FlowKey |-> 0]
    /\ tag = [f \in FlowKey |-> NoTag]
    /\ lastSeen = [f \in FlowKey |-> 0]
    /\ lastFed = [f \in FlowKey |-> 0]
    /\ answer = [f \in FlowKey |-> "Silent"]

\* The entries evict_lru may remove: those of the smallest last_seen.
Oldest == {f \in tracked : \A g \in tracked : lastSeen[f] <= lastSeen[g]}

\* Mutant: the capacity test lets one flow too many in.
VictimsLate(f) ==
    IF f \notin tracked /\ Cardinality(tracked) > MaxFlows /\ tracked # {}
    THEN {{o} : o \in Oldest}
    ELSE {{}}

\* The flows evict_lru removes when touch_flow is called for f: none when f
\* has an entry, when there is room, or when the table is empty.
Victims(f) ==
    IF f \notin tracked /\ Cardinality(tracked) >= MaxFlows /\ tracked # {}
    THEN {{o} : o \in Oldest}
    ELSE {{}}

\* touch_flow, and the assignments feed makes to the entry it returns: the
\* victim's entry is gone, f's entry carries n attempts and the tag t.
TouchFlow(f, n, t) ==
    \E gone \in Victims(f) :
        /\ tracked' = (tracked \ gone) \cup {f}
        /\ attempts' = [g \in FlowKey |->
                IF g = f THEN n ELSE IF g \in gone THEN 0 ELSE attempts[g]]
        /\ tag' = [g \in FlowKey |->
                IF g = f THEN t ELSE IF g \in gone THEN NoTag ELSE tag[g]]
        /\ lastSeen' = [g \in FlowKey |->
                IF g = f THEN tick + 1
                ELSE IF g \in gone THEN 0 ELSE lastSeen[g]]

\* What every call of feed does; the tick is 64 bits wide and wraps far
\* beyond MaxTick.
Call(f, verdict) ==
    /\ tick < MaxTick
    /\ tick' = tick + 1
    /\ lastFed' = [lastFed EXCEPT ![f] = tick + 1]
    /\ answer' = [answer EXCEPT ![f] = verdict]

\* Mutant: the attempts limit is not part of the cached verdict.
SettledByTagOnly(f) == f \in tracked /\ tag[f] # NoTag

\* The flow's verdict is cached: a tag, or attempts at the limit.
Settled(f) ==
    f \in tracked /\ (tag[f] # NoTag \/ attempts[f] >= MaxClassifyAttempts)

\* Mutant: the fast path does not refresh last_seen.
FeedCachedStale(f) ==
    /\ Settled(f)
    /\ Call(f, IF tag[f] # NoTag THEN "Classified" ELSE "Unknown")
    /\ UNCHANGED <<tracked, attempts, tag, lastSeen>>

FeedCached(f) ==
    /\ Settled(f)
    /\ Call(f, IF tag[f] # NoTag THEN "Classified" ELSE "Unknown")
    /\ lastSeen' = [lastSeen EXCEPT ![f] = tick + 1]
    /\ UNCHANGED <<tracked, attempts, tag>>

\* Mutant: the payload is extracted before the cache is looked at.
FeedUnextractableFirst(f, p) ==
    /\ ~p.l4
    /\ Call(f, "NeedMore")
    /\ TouchFlow(f, attempts[f] + 1, tag[f])

FeedUnextractable(f, p) ==
    /\ ~Settled(f)
    /\ ~p.l4
    /\ Call(f, "NeedMore")
    /\ TouchFlow(f, attempts[f] + 1, tag[f])

FeedClassified(f, p) ==
    /\ ~Settled(f)
    /\ p.l4 /\ p.name # NoTag
    /\ Call(f, "Classified")
    /\ TouchFlow(f, attempts[f], p.name)

\* Mutant: the flow is given up one attempt early.
FeedUnmatchedEarly(f, p) ==
    /\ ~Settled(f)
    /\ p.l4 /\ p.name = NoTag
    /\ Call(f, IF attempts[f] + 2 >= MaxClassifyAttempts
               THEN "Unknown" ELSE "NeedMore")
    /\ TouchFlow(f, attempts[f] + 1, tag[f])

FeedUnmatched(f, p) ==
    /\ ~Settled(f)
    /\ p.l4 /\ p.name = NoTag
    /\ Call(f, IF attempts[f] + 1 >= MaxClassifyAttempts
               THEN "Unknown" ELSE "NeedMore")
    /\ TouchFlow(f, attempts[f] + 1, tag[f])

Feed(f, p) ==
    \/ FeedCached(f)
    \/ FeedUnextractable(f, p)
    \/ FeedClassified(f, p)
    \/ FeedUnmatched(f, p)

Next == \E f \in FlowKey, p \in Packet : Feed(f, p)

Spec == Init /\ [][Next]_vars

-----------------------------------------------------------------------------

\* The variables hold values of their Rust types, and an untracked flow has
\* no leftover entry.
TypeOK ==
    /\ tick \in Nat
    /\ tracked \in SUBSET FlowKey
    /\ attempts \in [FlowKey -> Nat]
    /\ tag \in [FlowKey -> Protocol \cup {NoTag}]
    /\ lastSeen \in [FlowKey -> Nat]
    /\ lastFed \in [FlowKey -> Nat]
    /\ answer \in [FlowKey -> Verdict]

\* The flow table never outgrows max_flows, whatever the order of new and
\* known flows; a configured limit of zero still keeps the current flow.
FlowTableBounded ==
    /\ IsFiniteSet(tracked)
    /\ Cardinality(tracked) <= (IF MaxFlows = 0 THEN 1 ELSE MaxFlows)

\* Eviction by last_seen is true LRU: every tracked flow was fed more
\* recently than every flow that is not tracked, so a flow loses its verdict
\* only after max_flows other flows were fed since.
MostRecentlyFedKept ==
    \A f \in tracked, g \in FlowKey \ tracked : lastFed[g] < lastFed[f]

\* The answer the caller last got agrees with the cached entry: Classified
\* exactly when a tag is cached, Unknown only when the attempts are used up,
\* so a later cached answer never contradicts an earlier one.
AnswersMatchCache ==
    \A f \in tracked :
        /\ answer[f] = "Classified" <=> tag[f] # NoTag
        /\ answer[f] = "Unknown" => attempts[f] >= MaxClassifyAttempts

\* feed tries to classify a flow at most max_classify_attempts times while it
\* stays in the table, so the caller is told NeedMore at most that often; a
\* limit of zero still allows the first try.
AttemptsBounded ==
    \A f \in FlowKey :
        attempts[f] <= (IF MaxClassifyAttempts = 0 THEN 1
                        ELSE MaxClassifyAttempts)

\* A settled verdict is final while the flow stays in the table: neither a
\* later packet nor the eviction of another flow changes tag or attempts.
SettledIsFinal ==
    [][\A f \in FlowKey : Settled(f) /\ f \in tracked' =>
            tag'[f] = tag[f] /\ attempts'[f] = attempts[f]]_vars

=============================================================================
