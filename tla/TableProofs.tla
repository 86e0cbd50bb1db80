---------------------------- MODULE TableProofs -----------------------------
(***************************************************************************)
(* Proofs about the two tables that stand alone, the flow table of         *)
(* DpiSession and the table of Dedup, and about Delivery, for every value  *)
(* of their constants.                                                     *)
(***************************************************************************)
EXTENDS DpiSession, Dedup, Lists

VARIABLES
    made, queue, delivered, lost    \* those of Delivery

Conduit == INSTANCE Delivery

-----------------------------------------------------------------------------
(* DpiSession, for every set of flows and protocols and every              *)
(* configuration of the limits.                                            *)

\* An entry exists only between its creation and its eviction.
FreshWhenUntracked ==
    \A f \in FlowKey \ tracked : attempts[f] = 0 /\ tag[f] = NoTag

\* last_seen is the tick of the last feed, ticks are never reused and the
\* current one is the largest.
TicksOrdered ==
    /\ \A f \in FlowKey : lastFed[f] <= tick
    /\ \A f \in tracked : lastSeen[f] = lastFed[f] /\ lastFed[f] > 0
    /\ \A f, g \in tracked : lastFed[f] = lastFed[g] => f = g

FlowsKept ==
    /\ TypeOK
    /\ FreshWhenUntracked
    /\ TicksOrdered
    /\ FlowTableBounded
    /\ MostRecentlyFedKept
    /\ AnswersMatchCache
    /\ AttemptsBounded

\* feed's victim set holds at most one flow, it is a tracked one other than
\* the flow being fed, and there is one whenever the table is full.
LEMMA VictimsFacts ==
    ASSUME FlowsKept, NEW f \in FlowKey, NEW gone \in Victims(f)
    PROVE  /\ gone \subseteq tracked
           /\ f \notin gone
           /\ \A o \in gone : gone = {o} /\ o \in Oldest
           /\ gone # {} => f \notin tracked
           /\ (f \notin tracked /\ gone = {}) =>
                  (Cardinality(tracked) < MaxFlows \/ tracked = {})
<1>. IsFiniteSet(tracked) /\ Cardinality(tracked) \in Nat /\ MaxFlows \in Nat
  BY FS_CardinalityType, ConfigAssumption DEF FlowsKept, FlowTableBounded
<1>1. CASE f \notin tracked /\ Cardinality(tracked) >= MaxFlows /\ tracked # {}
  <2>. PICK o \in Oldest : gone = {o}
    BY <1>1 DEF Victims
  <2>. QED
    BY <1>1 DEF Oldest
<1>2. CASE ~(f \notin tracked /\ Cardinality(tracked) >= MaxFlows /\ tracked # {})
  <2>. gone = {}
    BY <1>2 DEF Victims
  <2>. QED
    BY <1>2
<1>. QED
  BY <1>1, <1>2

\* A call of feed that goes past the cache keeps the invariant, whatever it
\* leaves in the entry, as long as the entry agrees with the answer.
LEMMA TouchFlowStep ==
    ASSUME FlowsKept,
           NEW f \in FlowKey, NEW n \in Nat,
           NEW t \in Protocol \cup {NoTag}, NEW v \in Verdict,
           n <= (IF MaxClassifyAttempts = 0 THEN 1 ELSE MaxClassifyAttempts),
           v = "Classified" <=> t # NoTag,
           v = "Unknown" => n >= MaxClassifyAttempts,
           Call(f, v), TouchFlow(f, n, t)
    PROVE  FlowsKept'
<1>. PICK gone \in Victims(f) :
        /\ tracked' = (tracked \ gone) \cup {f}
        /\ attempts' = [g \in FlowKey |->
                IF g = f THEN n ELSE IF g \in gone THEN 0 ELSE attempts[g]]
        /\ tag' = [g \in FlowKey |->
                IF g = f THEN t ELSE IF g \in gone THEN NoTag ELSE tag[g]]
        /\ lastSeen' = [g \in FlowKey |->
                IF g = f THEN tick + 1
                ELSE IF g \in gone THEN 0 ELSE lastSeen[g]]
  BY DEF TouchFlow
<1>. /\ gone \subseteq tracked
     /\ f \notin gone
     /\ \A o \in gone : gone = {o} /\ o \in Oldest
     /\ gone # {} => f \notin tracked
     /\ (f \notin tracked /\ gone = {}) =>
            (Cardinality(tracked) < MaxFlows \/ tracked = {})
  BY VictimsFacts
<1>. /\ tick' = tick + 1
     /\ lastFed' = [lastFed EXCEPT ![f] = tick + 1]
     /\ answer' = [answer EXCEPT ![f] = v]
  BY DEF Call
<1>1. TypeOK'
  BY DEF FlowsKept, TypeOK
<1>2. FreshWhenUntracked'
  BY DEF FlowsKept, TypeOK, FreshWhenUntracked
<1>3. TicksOrdered'
  BY DEF FlowsKept, TypeOK, TicksOrdered
<1>4. FlowTableBounded'
  <2>. DEFINE rest == tracked \ gone
  <2>. IsFiniteSet(tracked) /\ Cardinality(tracked) \in Nat /\ MaxFlows \in Nat
    BY FS_CardinalityType, ConfigAssumption DEF FlowsKept, FlowTableBounded
  <2>0. /\ tracked = {} => Cardinality(tracked) = 0
        /\ Cardinality(tracked) <= (IF MaxFlows = 0 THEN 1 ELSE MaxFlows)
    BY FS_EmptySet DEF FlowsKept, FlowTableBounded
  <2>1. CASE gone = {}
    <3>1. tracked' = tracked \cup {f}
      BY <2>1
    <3>2. /\ IsFiniteSet(tracked \cup {f})
          /\ Cardinality(tracked \cup {f}) =
                IF f \in tracked THEN Cardinality(tracked)
                ELSE Cardinality(tracked) + 1
      BY FS_AddElement
    <3>. QED
      BY <2>0, <2>1, <3>1, <3>2 DEF FlowTableBounded
  <2>2. CASE gone # {}
    <3>. PICK o \in gone : gone = {o} /\ o \in tracked
      BY <2>2
    <3>1. IsFiniteSet(rest) /\ Cardinality(rest) = Cardinality(tracked) - 1
      BY FS_RemoveElement
    <3>2. f \notin rest
      BY <2>2
    <3>3. /\ IsFiniteSet(rest \cup {f})
          /\ Cardinality(rest \cup {f}) = Cardinality(rest) + 1
      BY <3>1, <3>2, FS_AddElement, Zenon
    <3>. HIDE DEF rest
    <3>4. IsFiniteSet(tracked') /\ Cardinality(tracked') = Cardinality(tracked)
      BY <3>1, <3>3 DEF rest
    <3>. QED
      BY <2>0, <3>4 DEF FlowTableBounded
  <2>. QED
    BY <2>1, <2>2
<1>5. MostRecentlyFedKept'
  <2>. SUFFICES ASSUME NEW h \in tracked', NEW g \in FlowKey \ tracked'
                PROVE  lastFed'[g] < lastFed'[h]
    BY DEF MostRecentlyFedKept
  <2>. g # f /\ lastFed'[g] = lastFed[g] /\ lastFed[g] \in Nat /\ tick \in Nat
    BY DEF FlowsKept, TypeOK
  <2>1. CASE h = f
    BY <2>1 DEF FlowsKept, TypeOK, TicksOrdered
  <2>2. CASE h # f
    <3>. h \in tracked /\ h \notin gone /\ lastFed'[h] = lastFed[h]
         /\ lastFed[h] \in Nat
      BY <2>2 DEF FlowsKept, TypeOK
    <3>1. CASE g \in gone
      BY <3>1 DEF FlowsKept, TypeOK, TicksOrdered, Oldest
    <3>2. CASE g \notin gone
      BY <3>2 DEF FlowsKept, TypeOK, MostRecentlyFedKept
    <3>. QED
      BY <3>1, <3>2
  <2>. QED
    BY <2>1, <2>2
<1>6. AnswersMatchCache'
  BY DEF FlowsKept, TypeOK, AnswersMatchCache, Verdict
<1>7. AttemptsBounded'
  BY ConfigAssumption DEF FlowsKept, TypeOK, AttemptsBounded
<1>. QED
  BY <1>1, <1>2, <1>3, <1>4, <1>5, <1>6, <1>7 DEF FlowsKept

\* A call answered from the cache keeps the invariant.
LEMMA CachedStep ==
    ASSUME FlowsKept, NEW f \in FlowKey, FeedCached(f)
    PROVE  FlowsKept'
<1>. /\ f \in tracked
     /\ tag[f] # NoTag \/ attempts[f] >= MaxClassifyAttempts
     /\ tick' = tick + 1
     /\ lastFed' = [lastFed EXCEPT ![f] = tick + 1]
     /\ answer' = [answer EXCEPT ![f] =
                       IF tag[f] # NoTag THEN "Classified" ELSE "Unknown"]
     /\ lastSeen' = [lastSeen EXCEPT ![f] = tick + 1]
     /\ UNCHANGED <<tracked, attempts, tag>>
  BY DEF FeedCached, Call, Settled
<1>1. TypeOK'
  BY DEF FlowsKept, TypeOK, Verdict
<1>2. FreshWhenUntracked' /\ FlowTableBounded' /\ AttemptsBounded'
  BY DEF FlowsKept, FreshWhenUntracked, FlowTableBounded, AttemptsBounded
<1>3. TicksOrdered'
  BY DEF FlowsKept, TypeOK, TicksOrdered
<1>4. MostRecentlyFedKept'
  BY DEF FlowsKept, TypeOK, TicksOrdered, MostRecentlyFedKept
<1>5. AnswersMatchCache'
  BY DEF FlowsKept, TypeOK, AnswersMatchCache
<1>. QED
  BY <1>1, <1>2, <1>3, <1>4, <1>5 DEF FlowsKept

\* Every call of feed keeps the invariant: one case per exit of the function.
LEMMA NextKeepsFlows == FlowsKept /\ [Next]_vars => FlowsKept'
<1>. SUFFICES ASSUME FlowsKept, [Next]_vars PROVE FlowsKept'
  OBVIOUS
<1>. MaxClassifyAttempts \in Nat /\ NoTag \notin Protocol
  BY ConfigAssumption
<1>1. CASE Next
  <2>. PICK f \in FlowKey, p \in Packet : Feed(f, p)
    BY <1>1 DEF Next
  <2>. attempts[f] \in Nat /\ p.name \in Protocol \cup {NoTag}
    BY DEF FlowsKept, TypeOK, Packet
  <2>0. ~Settled(f) =>
            /\ tag[f] = NoTag
            /\ attempts[f] + 1 <=
                   (IF MaxClassifyAttempts = 0 THEN 1 ELSE MaxClassifyAttempts)
    BY DEF FlowsKept, FreshWhenUntracked, Settled
  <2>1. CASE FeedCached(f)
    BY <2>1, CachedStep
  <2>2. CASE FeedUnextractable(f, p)
    BY <2>0, <2>2, TouchFlowStep DEF FeedUnextractable, Verdict
  <2>3. CASE FeedClassified(f, p)
    BY <2>0, <2>3, TouchFlowStep DEF FeedClassified, Verdict
  <2>4. CASE FeedUnmatched(f, p)
    <3>1. CASE attempts[f] + 1 >= MaxClassifyAttempts
      BY <2>0, <2>4, <3>1, TouchFlowStep DEF FeedUnmatched, Verdict
    <3>2. CASE ~(attempts[f] + 1 >= MaxClassifyAttempts)
      BY <2>0, <2>4, <3>2, TouchFlowStep DEF FeedUnmatched, Verdict
    <3>. QED
      BY <3>1, <3>2
  <2>. QED
    BY <2>1, <2>2, <2>3, <2>4 DEF Feed
<1>2. CASE UNCHANGED vars
  BY <1>2 DEF vars, FlowsKept, TypeOK, FreshWhenUntracked, TicksOrdered,
              FlowTableBounded, MostRecentlyFedKept, AnswersMatchCache,
              AttemptsBounded
<1>. QED
  BY <1>1, <1>2

LEMMA InitFlowsKept == Init => FlowsKept
<1>. SUFFICES ASSUME Init PROVE FlowsKept
  OBVIOUS
<1>1. IsFiniteSet(tracked) /\ Cardinality(tracked) = 0
  BY FS_EmptySet DEF Init
<1>. QED
  BY <1>1, ConfigAssumption
     DEF Init, FlowsKept, TypeOK, FreshWhenUntracked, TicksOrdered,
         FlowTableBounded, MostRecentlyFedKept, AnswersMatchCache,
         AttemptsBounded, Verdict

\* The inductive invariant holds in every state feed can reach.
THEOREM FlowsInvariant == Spec => []FlowsKept
  BY InitFlowsKept, NextKeepsFlows, PTL DEF Spec

\* The session state keeps the types of its Rust fields.
THEOREM TypeCorrect == Spec => []TypeOK
<1>1. FlowsKept => TypeOK
  BY DEF FlowsKept
<1>. QED
  BY <1>1, FlowsInvariant, PTL

\* touch_flow keeps the flow table within max_flows (one when it is zero).
THEOREM TableBounded == Spec => []FlowTableBounded
<1>1. FlowsKept => FlowTableBounded
  BY DEF FlowsKept
<1>. QED
  BY <1>1, FlowsInvariant, PTL

\* evict_lru always removes the flow that was fed longest ago: whatever is
\* in the table was fed after everything that is not.
THEOREM EvictionIsLru == Spec => []MostRecentlyFedKept
<1>1. FlowsKept => MostRecentlyFedKept
  BY DEF FlowsKept
<1>. QED
  BY <1>1, FlowsInvariant, PTL

\* The last answer feed gave for a tracked flow agrees with its entry.
THEOREM AnswersAgree == Spec => []AnswersMatchCache
<1>1. FlowsKept => AnswersMatchCache
  BY DEF FlowsKept
<1>. QED
  BY <1>1, FlowsInvariant, PTL

\* feed never tries a flow more often than max_classify_attempts.
THEOREM AttemptsStayBounded == Spec => []AttemptsBounded
<1>1. FlowsKept => AttemptsBounded
  BY DEF FlowsKept
<1>. QED
  BY <1>1, FlowsInvariant, PTL

\* While a flow stays in the table, its settled verdict never changes.
THEOREM VerdictFinal == Spec => SettledIsFinal
<1>. DEFINE Final == \A f \in FlowKey : Settled(f) /\ f \in tracked' =>
                         tag'[f] = tag[f] /\ attempts'[f] = attempts[f]
<1>1. FlowsKept /\ [Next]_vars => [Final]_vars
  <2>. SUFFICES ASSUME FlowsKept, Next, NEW f \in FlowKey, Settled(f),
                       f \in tracked'
                PROVE  tag'[f] = tag[f] /\ attempts'[f] = attempts[f]
    OBVIOUS
  <2>. PICK h \in FlowKey, p \in Packet : Feed(h, p)
    BY DEF Next
  <2>1. CASE FeedCached(h)
    BY <2>1 DEF FeedCached
  <2>2. ASSUME NEW n, NEW t, h # f, TouchFlow(h, n, t)
        PROVE  tag'[f] = tag[f] /\ attempts'[f] = attempts[f]
    <3>. PICK gone \in Victims(h) :
            /\ tracked' = (tracked \ gone) \cup {h}
            /\ attempts' = [g \in FlowKey |->
                  IF g = h THEN n ELSE IF g \in gone THEN 0 ELSE attempts[g]]
            /\ tag' = [g \in FlowKey |->
                  IF g = h THEN t ELSE IF g \in gone THEN NoTag ELSE tag[g]]
      BY <2>2 DEF TouchFlow
    <3>. f \notin gone
      BY <2>2
    <3>. QED
      BY <2>2
  <2>3. CASE \/ FeedUnextractable(h, p)
             \/ FeedClassified(h, p)
             \/ FeedUnmatched(h, p)
    <3>1. h # f
      BY <2>3 DEF FeedUnextractable, FeedClassified, FeedUnmatched
    <3>. QED
      BY <2>2, <2>3, <3>1 DEF FeedUnextractable, FeedClassified, FeedUnmatched
  <2>. QED
    BY <2>1, <2>3 DEF Feed
<1>. QED
  BY <1>1, FlowsInvariant, PTL DEF Spec, SettledIsFinal
-----------------------------------------------------------------------------
(* Dedup, for every set of records and every stream whose timestamps step  *)
(* back by at most Skew.                                                   *)

\* Two timestamps of one bucket are less than a bucket apart.
LEMMA SameBucketIsClose ==
    ASSUME NEW s \in Nat, NEW t \in Nat, BucketOf(s) = BucketOf(t)
    PROVE  t <= s + (IF Bucket = 0 THEN 0 ELSE Bucket - 1)
<1>. Bucket \in Nat
  BY DedupAssumption
<1>1. CASE Bucket = 0
  BY <1>1 DEF BucketOf
<1>2. CASE Bucket > 0
  BY <1>2 DEF BucketOf
<1>. QED
  BY <1>1, <1>2

\* The table still remembers every event emitted within the window before
\* the latest timestamp.
Remembered ==
    \A a \in admitted :
        \/ a.ts + Window < latest
        \/ /\ Hash(a.ts, a.rec) \in DOMAIN seen
           /\ seen[Hash(a.ts, a.rec)] = a.ts

\* Whatever the table remembers was emitted, in an earlier call.
Justified ==
    /\ \A h \in DOMAIN seen : \E a \in admitted : h = Hash(a.ts, a.rec)
    /\ \A a \in admitted : a.no <= calls

SeenKept ==
    /\ DedupTypeOK
    /\ Remembered
    /\ Justified

LEMMA InitSeenKept == DedupInit => SeenKept
  BY StreamAssumption DEF DedupInit, SeenKept, DedupTypeOK, Remembered, Justified, Empty, Time

\* A call evicts what is older than the window, and enters the hash of the
\* event it lets through; one call cannot lose what the window still covers.
LEMMA RequestKeepsSeen ==
    ASSUME SeenKept, NEW r \in Record, NEW ts \in Time, Admit(r, ts) \/ Drop(r, ts)
    PROVE  SeenKept'
<1>. DEFINE new == [rec |-> r, ts |-> ts, no |-> calls + 1]
<1>. /\ Window \in Nat /\ Skew \in Nat /\ MaxTime \in Nat /\ MaxCalls \in Nat
     /\ ts \in Nat /\ ts <= MaxTime
     /\ latest \in Nat /\ latest <= MaxTime /\ calls \in Nat
  BY DedupAssumption, StreamAssumption DEF SeenKept, DedupTypeOK, Time
<1>0. /\ calls < MaxCalls /\ calls' = calls + 1
      /\ latest' = IF ts > latest THEN ts ELSE latest
      /\ seen' = [h \in Kept(seen, ts) \cup {Hash(ts, r)} |->
                    IF h \in Kept(seen, ts) THEN seen[h] ELSE ts]
      /\ admitted \subseteq admitted'
      /\ admitted' \subseteq admitted \cup {new}
      /\ dropped' \subseteq dropped \cup {new}
      /\ Hash(ts, r) \notin Kept(seen, ts) => admitted' = admitted \cup {new}
      /\ Hash(ts, r) \in Kept(seen, ts) => admitted' = admitted
  BY DEF Admit, Drop, Arrives, IsDuplicate, After
<1>. new \in Request
  BY <1>0 DEF Request
<1>1. DedupTypeOK'
  BY <1>0 DEF SeenKept, DedupTypeOK, Kept, Time
<1>2. Remembered'
  <2>. SUFFICES ASSUME NEW a \in admitted', ~(a.ts + Window < latest')
                PROVE  /\ Hash(a.ts, a.rec) \in DOMAIN seen'
                       /\ seen'[Hash(a.ts, a.rec)] = a.ts
    BY DEF Remembered
  <2>1. CASE a \in admitted
    <3>. a.ts \in Nat
      BY <2>1 DEF SeenKept, DedupTypeOK, Request, Time
    <3>1. /\ Hash(a.ts, a.rec) \in DOMAIN seen
          /\ seen[Hash(a.ts, a.rec)] = a.ts
      BY <1>0, <2>1 DEF SeenKept, Remembered
    <3>2. Hash(a.ts, a.rec) \in Kept(seen, ts)
      BY <1>0, <3>1 DEF Kept, Cutoff
    <3>. QED
      BY <1>0, <3>1, <3>2
  <2>2. CASE a \notin admitted
    BY <1>0, <2>2
  <2>. QED
    BY <2>1, <2>2
<1>3. Justified'
  <2>1. \A a \in admitted' : a.no <= calls'
    BY <1>0 DEF SeenKept, Justified, DedupTypeOK, Request
  <2>2. ASSUME NEW h \in DOMAIN seen'
        PROVE  \E a \in admitted' : h = Hash(a.ts, a.rec)
    <3>1. CASE h \in Kept(seen, ts)
      BY <1>0, <3>1 DEF SeenKept, Justified, Kept
    <3>2. CASE h \notin Kept(seen, ts)
      <4>1. h = Hash(ts, r) /\ new \in admitted'
        BY <1>0, <2>2, <3>2
      <4>. QED
        BY <4>1
    <3>. QED
      BY <3>1, <3>2
  <2>. QED
    BY <2>1, <2>2 DEF Justified
<1>. QED
  BY <1>1, <1>2, <1>3 DEF SeenKept

LEMMA NextKeepsSeen == SeenKept /\ [DedupNext]_dedupVars => SeenKept'
<1>1. SeenKept /\ DedupNext => SeenKept'
  BY RequestKeepsSeen DEF DedupNext
<1>2. SeenKept /\ UNCHANGED dedupVars => SeenKept'
  BY DEF dedupVars, SeenKept, DedupTypeOK, Remembered, Justified
<1>. QED
  BY <1>1, <1>2

THEOREM SeenInvariant == DedupSpec => []SeenKept
  BY InitSeenKept, NextKeepsSeen, PTL DEF DedupSpec

\* The dedup table and the timestamps in it keep their types.
THEOREM DedupTypeCorrect == DedupSpec => []DedupTypeOK
<1>1. SeenKept => DedupTypeOK
  BY DEF SeenKept
<1>. QED
  BY <1>1, SeenInvariant, PTL

\* The window outlasts a bucket by the disorder of the timestamps; the
\* engine's five seconds and one second tolerate four seconds of it.
WindowOutlastsBucket == (IF Bucket = 0 THEN 0 ELSE Bucket - 1) + Skew <= Window

\* is_duplicate lets an event through at most once per bucket, however its
\* repeats interleave with other events and however disordered (up to Skew)
\* their timestamps are.
THEOREM EmittedOncePerBucket ==
    ASSUME WindowOutlastsBucket
    PROVE  DedupSpec => []OncePerBucket
<1>1. DedupInit => OncePerBucket
  BY DEF DedupInit, OncePerBucket
<1>2. SeenKept /\ OncePerBucket /\ [DedupNext]_dedupVars => OncePerBucket'
  <2>. SUFFICES ASSUME SeenKept, OncePerBucket, DedupNext PROVE OncePerBucket'
    BY DEF OncePerBucket, dedupVars
  <2>. PICK r \in Record, ts \in Time : Admit(r, ts) \/ Drop(r, ts)
    BY DEF DedupNext
  <2>. DEFINE new == [rec |-> r, ts |-> ts, no |-> calls + 1]
  <2>1. CASE Drop(r, ts)
    BY <2>1 DEF Drop, OncePerBucket
  <2>2. CASE Admit(r, ts)
    <3>. admitted' = admitted \cup {new} /\ ts + Skew >= latest
         /\ Hash(ts, r) \notin Kept(seen, ts)
      BY <2>2 DEF Admit, Arrives, IsDuplicate
    <3>1. ASSUME NEW a \in admitted, a.rec = r, BucketOf(a.ts) = BucketOf(ts)
          PROVE  FALSE
      <4>. /\ a.ts \in Nat /\ ts \in Nat /\ latest \in Nat
           /\ Window \in Nat /\ Skew \in Nat /\ Bucket \in Nat
        BY DedupAssumption, StreamAssumption DEF SeenKept, DedupTypeOK, Request, Time
      <4>1. ts <= a.ts + (IF Bucket = 0 THEN 0 ELSE Bucket - 1)
        BY <3>1, SameBucketIsClose
      <4>2. ts + Skew <= a.ts + Window
        BY <4>1 DEF WindowOutlastsBucket
      <4>3. Hash(a.ts, a.rec) \in DOMAIN seen /\ seen[Hash(a.ts, a.rec)] = a.ts
        BY <4>2 DEF SeenKept, Remembered
      <4>4. Hash(a.ts, a.rec) = Hash(ts, r)
        BY <3>1 DEF Hash
      <4>5. a.ts >= Cutoff(ts)
        BY <4>2 DEF Cutoff
      <4>. QED
        BY <4>3, <4>4, <4>5 DEF Kept
    <3>. QED
      BY <3>1 DEF OncePerBucket
  <2>. QED
    BY <2>1, <2>2
<1>. QED
  BY <1>1, <1>2, SeenInvariant, PTL DEF DedupSpec

\* is_duplicate drops an event only when one was emitted before, in the same
\* bucket, that it cannot be told from: same ports and family, and addresses
\* whose texts run together alike.
THEOREM DropsAreAlike == DedupSpec => []DropsOnlyAlike
<1>1. DedupInit => DropsOnlyAlike
  BY DEF DedupInit, DropsOnlyAlike
<1>2. SeenKept /\ DropsOnlyAlike /\ [DedupNext]_dedupVars => DropsOnlyAlike'
  <2>. SUFFICES ASSUME SeenKept, DropsOnlyAlike, DedupNext PROVE DropsOnlyAlike'
    BY DEF DropsOnlyAlike, dedupVars
  <2>. PICK r \in Record, ts \in Time : Admit(r, ts) \/ Drop(r, ts)
    BY DEF DedupNext
  <2>. DEFINE new == [rec |-> r, ts |-> ts, no |-> calls + 1]
  <2>1. CASE Admit(r, ts)
    BY <2>1 DEF Admit, DropsOnlyAlike
  <2>2. CASE Drop(r, ts)
    <3>. /\ dropped' = dropped \cup {new} /\ admitted' = admitted
         /\ Hash(ts, r) \in DOMAIN seen
      BY <2>2 DEF Drop, IsDuplicate, Kept
    <3>. PICK a \in admitted : Hash(ts, r) = Hash(a.ts, a.rec)
      BY DEF SeenKept, Justified
    <3>1. BucketOf(a.ts) = BucketOf(ts) /\ Alike(a.rec, r)
      BY Zenon DEF Hash, Alike
    <3>2. a.no < new.no
      BY DEF SeenKept, Justified, DedupTypeOK, Request
    <3>. QED
      BY <3>1, <3>2 DEF DropsOnlyAlike
  <2>. QED
    BY <2>1, <2>2
<1>. QED
  BY <1>1, <1>2, SeenInvariant, PTL DEF DedupSpec
-----------------------------------------------------------------------------
(* What Delivery promises follows from how it moves events.                *)

\* The consumer's events and the queue after them are one increasing
\* sequence of events that were made, and none of them is lost.
Lined == InLine(made, delivered, queue, lost)

LEMMA LinedStep ==
    ASSUME Lined, [Conduit!Next]_Conduit!vars
    PROVE  Lined'
<1>1. CASE UNCHANGED Conduit!vars
  BY <1>1 DEF Conduit!vars, Lined
<1>2. CASE Conduit!Next
  <2>1. made' \in Nat /\ made' >= made
    BY <1>2 DEF Conduit!Next
  <2>2. \/ Continued(queue', queue, made, made') /\ delivered' = delivered /\ lost' = lost
        \/ /\ Continued(delivered', delivered \o queue, made, made')
           /\ queue' = <<>> /\ lost' = lost
        \/ /\ lost' \subseteq lost \cup Members(queue) \cup (made + 1 .. made')
           /\ queue' = <<>> /\ delivered' = delivered
    BY <1>2 DEF Conduit!Next, Conduit!Keep, Conduit!HandOver, Conduit!Lose,
                Conduit!Continues, Conduit!Elements, Continued, Members
  <2> QED BY <2>1, <2>2, InLineStep, Zenon DEF Lined
<1> QED BY <1>1, <1>2

LEMMA LinedInvariant == Conduit!Spec => []Lined
<1>1. Conduit!Init => Lined
  BY DEF Conduit!Init, Lined, InLine, Rising
<1>2. Lined /\ [Conduit!Next]_Conduit!vars => Lined'
  BY LinedStep
<1> QED BY <1>1, <1>2, PTL DEF Conduit!Spec

\* Whatever keeps to Delivery hands events over in the order they were made,
\* none of them twice, also across refused batches and abandoned streams.
THEOREM ArrivesInOrder == Conduit!Spec => []Conduit!InOrder
<1>1. Lined => Conduit!InOrder
  BY InLineApart DEF Lined, Rising, Conduit!InOrder, Conduit!Increasing
<1> QED BY <1>1, LinedInvariant, PTL

\* No event is at two places: one that was handed over is neither waiting nor
\* lost, and one that was lost never arrives.
THEOREM StaysApart == Conduit!Spec => []Conduit!Apart
<1>1. Lined => Conduit!Apart
  BY InLineApart DEF Lined, Members, Conduit!Apart, Conduit!Elements
<1> QED BY <1>1, LinedInvariant, PTL
=============================================================================
