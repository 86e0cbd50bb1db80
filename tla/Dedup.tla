------------------------------- MODULE Dedup --------------------------------
(***************************************************************************)
(* DedupEngine as the engine uses it: a stream of calls of is_duplicate    *)
(* whose timestamps are those of captured packets, so they may step back,  *)
(* by at most Skew.                                                        *)
(***************************************************************************)
EXTENDS DedupTable

CONSTANTS
    Record,     \* what a call says of an event besides its time
    Skew,       \* how far a timestamp may lag behind the latest one
    MaxTime,    \* bound on timestamps
    MaxCalls    \* bound on the number of calls

ASSUME StreamAssumption ==
    Skew \in Nat /\ MaxTime \in Nat /\ MaxCalls \in Nat

VARIABLES
    seen,       \* DedupEngine::seen
    latest,     \* history: the latest timestamp so far
    calls,      \* history: the number of calls so far
    admitted,   \* history: the calls answered false, the event is emitted
    dropped     \* history: the calls answered true, the event is dropped

dedupVars == <<seen, latest, calls, admitted, dropped>>

Time == 0 .. MaxTime

Request == [rec : Record, ts : Time, no : 1 .. MaxCalls]

DedupInit ==
    /\ seen = Empty
    /\ latest = 0
    /\ calls = 0
    /\ admitted = {}
    /\ dropped = {}

\* A call the stream may make next.
Arrives(r, ts) ==
    /\ calls < MaxCalls
    /\ ts + Skew >= latest
    /\ latest' = IF ts > latest THEN ts ELSE latest
    /\ calls' = calls + 1

Admit(r, ts) ==
    /\ Arrives(r, ts)
    /\ ~IsDuplicate(seen, ts, r)
    /\ seen' = After(seen, ts, r)
    /\ admitted' = admitted \cup {[rec |-> r, ts |-> ts, no |-> calls + 1]}
    /\ UNCHANGED dropped

Drop(r, ts) ==
    /\ Arrives(r, ts)
    /\ IsDuplicate(seen, ts, r)
    /\ seen' = After(seen, ts, r)
    /\ dropped' = dropped \cup {[rec |-> r, ts |-> ts, no |-> calls + 1]}
    /\ UNCHANGED admitted

DedupNext == \E r \in Record, ts \in Time : Admit(r, ts) \/ Drop(r, ts)

DedupSpec == DedupInit /\ [][DedupNext]_dedupVars

-----------------------------------------------------------------------------

\* The table maps hashes to timestamps; the histories hold calls.
DedupTypeOK ==
    /\ \A h \in DOMAIN seen : seen[h] \in Time
    /\ latest \in Time
    /\ calls \in 0 .. MaxCalls
    /\ admitted \subseteq Request
    /\ dropped \subseteq Request

\* What should_emit relies on: an event is emitted at most once per bucket,
\* even when timestamps step back, as long as the window outlasts a bucket
\* by the amount they may step back.
OncePerBucket ==
    \A a, b \in admitted :
        a.rec = b.rec /\ BucketOf(a.ts) = BucketOf(b.ts) => a = b

\* Two records that compute_hash cannot tell apart: the texts of source and
\* destination run together alike.
Alike(r, s) == r.src \o r.dst = s.src \o s.dst /\ r.rest = s.rest

\* Nothing is dropped without cause: is_duplicate answers true only when an
\* event was emitted before that agrees in bucket, ports and family, and in
\* the text of source and destination run together, as compute_hash feeds it.
DropsOnlyAlike ==
    \A d \in dropped : \E a \in admitted :
        a.no < d.no /\ Alike(a.rec, d.rec) /\ BucketOf(a.ts) = BucketOf(d.ts)

-----------------------------------------------------------------------------
(* What the documentation says and the code does not do.                   *)

\* The doc of dedup.rs: "hashing of (timestamp_bucket, src_ip, dst_ip,
\* src_port, dst_port, protocol) with a sliding time window to detect and
\* suppress duplicates".  What is dropped repeats that tuple.
DropsOnlyRepeats ==
    \A d \in dropped : \E a \in admitted :
        a.no < d.no /\ a.rec = d.rec /\ BucketOf(a.ts) = BucketOf(d.ts)

=============================================================================
