----------------------------- MODULE DedupTable -----------------------------
(***************************************************************************)
(* The table of DedupEngine (src/dedup.rs) and its operations, as          *)
(* operators on the table's value.  SHA-256 is taken to be injective, so a *)
(* hash is the tuple of the byte strings fed to the hasher: source and     *)
(* destination run together, since the code feeds them one after the other *)
(* without a separator.  An address is a sequence of text fragments.       *)
(***************************************************************************)
EXTENDS Integers, Sequences

CONSTANTS
    Window,     \* DedupEngine::window_ns
    Bucket      \* DedupEngine::bucket_ns

ASSUME DedupAssumption == Window \in Nat /\ Bucket \in Nat

\* Timestamps of one bucket count as simultaneous.
BucketOf(ts) == IF Bucket > 0 THEN ts \div Bucket ELSE ts

\* Mutant: the two directions of a conversation hash alike.
HashUndirected(ts, r) == <<BucketOf(ts), {r.src, r.dst}, r.rest>>

\* compute_hash; r.rest stands for the two ports and the family key.
Hash(ts, r) == <<BucketOf(ts), r.src \o r.dst, r.rest>>

\* now_ns.saturating_sub(window_ns)
Cutoff(now) == IF now > Window THEN now - Window ELSE 0

\* Mutant: an entry exactly as old as the window is evicted.
KeptStrict(seen, now) == {h \in DOMAIN seen : seen[h] > Cutoff(now)}

\* evict: the hashes of the entries that outlive a call at time now.
Kept(seen, now) == {h \in DOMAIN seen : seen[h] >= Cutoff(now)}

\* The answer of is_duplicate; expired entries are evicted first.
IsDuplicate(seen, ts, r) == Hash(ts, r) \in Kept(seen, ts)

\* The table after is_duplicate: a vacant hash is entered with the time of
\* this call, an occupied one keeps the time of its first sighting.
After(seen, ts, r) ==
    [h \in Kept(seen, ts) \cup {Hash(ts, r)} |->
        IF h \in Kept(seen, ts) THEN seen[h] ELSE ts]

Empty == [h \in {} |-> 0]

=============================================================================
