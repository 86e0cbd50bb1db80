---------------------------- MODULE RateCounter -----------------------------
(***************************************************************************)
(* The sliding windows of src/bilgepump/state.rs: RateCounter and          *)
(* MacFlapTracker.  A window is the sequence of its entries, oldest        *)
(* arrival first; an entry is a record with a time field ts.  Entries are  *)
(* removed from the front only, as the code does.                          *)
(***************************************************************************)
EXTENDS Integers, Sequences, FiniteSets

\* RateCounter::prune: pop the front while it is older than the cutoff.
Prune(q, cutoff) ==
    LET k == CHOOSE n \in 1 .. Len(q) + 1 :
                /\ \A i \in 1 .. n - 1 : q[i].ts < cutoff
                /\ n \in DOMAIN q => q[n].ts >= cutoff
    IN  SubSeq(q, k, Len(q))

\* RateCounter::record and the recording half of MacFlapTracker::record.
\* (In the caller the count is the length of the result.)
Record(q, entry, window) == Prune(Append(q, entry), entry.ts - window)

\* Mutant: every observation counts.
DistinctIpsAll(q) == Len(q)

\* MacFlapTracker::record: the number of distinct addresses in the window.
DistinctIps(q) == Cardinality({q[i].ip : i \in DOMAIN q})

\* An absent HashMap entry is the default, empty window.
WindowOf(table, key) == IF key \in DOMAIN table THEN table[key] ELSE <<>>

=============================================================================
