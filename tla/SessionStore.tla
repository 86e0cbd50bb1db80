---------------------------- MODULE SessionStore ----------------------------
(***************************************************************************)
(* The table of Sparkplug B sessions (src/sparkplug/state.rs): per session *)
(* key, the names that the session's aliases are bound to, the bdSeq of    *)
(* the last BIRTH, whether the unresolvable-alias anomaly has been raised, *)
(* and the time of the last touch.  The operators here are the methods of  *)
(* SessionState and SessionStore as functions of the table.                *)
(***************************************************************************)
EXTENDS Integers, FiniteSets, Sequences

CONSTANTS
    None,           \* the Option::None of names, aliases, bdSeq
    Ttl,            \* EvictionConfig::ttl_us
    MaxSessions     \* EvictionConfig::max_sessions

ASSUME StoreAssumption == Ttl \in Nat /\ MaxSessions \in Nat

\* The function with no argument: an empty HashMap.
Empty == [x \in {} |-> x]

\* SessionState::default().
Fresh == [aliases |-> Empty, bdSeq |-> None, gap |-> FALSE, touched |-> 0]

-----------------------------------------------------------------------------
(* The aliases of one session. *)

\* SessionState::resolve.
Resolve(aliases, alias) ==
    IF alias \in DOMAIN aliases THEN aliases[alias] ELSE None

\* The metrics that carry both a name and an alias.
Binding(metric) == metric.name # None /\ metric.alias # None

Binders(metrics) == {i \in DOMAIN metrics : Binding(metrics[i])}

\* The last metric that binds alias.
LastBinder(metrics, alias) ==
    CHOOSE i \in Binders(metrics) :
        /\ metrics[i].alias = alias
        /\ \A j \in Binders(metrics) : metrics[j].alias = alias => j <= i

\* A call of SessionState::bind for each binding metric, in order: the last one
\* for an alias stays.
BindAll(aliases, metrics) ==
    LET bound == {metrics[i].alias : i \in Binders(metrics)}
    IN  [a \in DOMAIN aliases \cup bound |->
            IF a \in bound THEN metrics[LastBinder(metrics, a)].name ELSE aliases[a]]

\* Mutant: every other bdSeq supersedes, not only a later one.
SupersedesOther(session, bdSeq) ==
    session.bdSeq = None \/ bdSeq = None \/ bdSeq # session.bdSeq

\* SessionState::record_birth's verdict.
Supersedes(session, bdSeq) ==
    \/ session.bdSeq = None
    \/ bdSeq = None
    \/ bdSeq >= session.bdSeq

-----------------------------------------------------------------------------
(* The table. *)

\* SessionStore::evict_expired: the subtraction saturates at zero.
EvictExpired(sessions, now) ==
    LET idle(k) == IF now >= sessions[k].touched THEN now - sessions[k].touched ELSE 0
        kept    == {k \in DOMAIN sessions : idle(k) < Ttl}
    IN  [k \in kept |-> sessions[k]]

\* The keys that min_by_key in evict_lru_one may return: a hash map has no
\* order, so any of those touched the longest ago.
LeastTouched(sessions) ==
    {k \in DOMAIN sessions :
        \A j \in DOMAIN sessions : sessions[k].touched <= sessions[j].touched}

\* Mutant: the cap is exceeded by one.
MakeRoomLate(sessions, key) ==
    IF key \in DOMAIN sessions \/ Cardinality(DOMAIN sessions) <= MaxSessions
    THEN {sessions}
    ELSE {[k \in DOMAIN sessions \ {victim} |-> sessions[k]] :
             victim \in LeastTouched(sessions)}

\* The tables that entry_mut may leave before it inserts key.
MakeRoom(sessions, key) ==
    IF key \in DOMAIN sessions \/ Cardinality(DOMAIN sessions) < MaxSessions
          \/ DOMAIN sessions = {}
    THEN {sessions}
    ELSE {[k \in DOMAIN sessions \ {victim} |-> sessions[k]] :
             victim \in LeastTouched(sessions)}

\* The session that entry_mut returns, touched.
Entry(sessions, key, now) ==
    LET session == IF key \in DOMAIN sessions THEN sessions[key] ELSE Fresh
    IN  [session EXCEPT !.touched = now]

\* The table with key's session replaced.
Put(sessions, key, session) ==
    [k \in DOMAIN sessions \cup {key} |-> IF k = key THEN session ELSE sessions[k]]
=============================================================================
