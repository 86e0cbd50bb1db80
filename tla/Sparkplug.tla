------------------------------ MODULE Sparkplug ------------------------------
(***************************************************************************)
(* The MQTT decoder (src/engine/decoders/it_app/mqtt.rs) and the Sparkplug *)
(* B payload decoder it hands PUBLISH payloads to (src/sparkplug).  A      *)
(* BIRTH binds aliases to metric names, DATA messages refer to metrics by  *)
(* alias, a DEATH ends the session; the table of sessions is bounded by a  *)
(* cap with least-recently-touched eviction and by a time-to-live sweep    *)
(* that runs once every SweepEvery publishes.                              *)
(*                                                                         *)
(* Packets arrive in capture order but with arbitrary capture times.  The  *)
(* log keeps what every packet was and what was reported for it; it is the *)
(* only history the properties refer to.                                   *)
(***************************************************************************)
EXTENDS SessionStore

CONSTANTS
    Endpoint,       \* addresses with ports
    Brokers,        \* the endpoints whose port is 1883 or 8883
    Node,           \* group, edge node and optional device of a topic
    Name, Alias,    \* of metrics
    Packets,        \* the decoded MQTT packets that may be seen, and calls
    Times,          \* the capture times, in microseconds
    SweepEvery,     \* TTL_SWEEP_EVERY_N_PUBLISHES
    MaxLog          \* bound on the number of packets

Births == {"NBIRTH", "DBIRTH"}
Datas == {"NDATA", "DDATA"}
Deaths == {"NDEATH", "DDEATH"}
\* Messages that are reported and touch no session; "garbage" stands for a
\* Sparkplug topic whose payload is no protobuf message.
Passing == {"NCMD", "DCMD", "STATE", "garbage"}
\* MQTT packets that are no publish on a Sparkplug topic.
Foreign == {"CONNECT", "other", "malformed"}
\* A caller's explicit sweep, which is logged like a packet.
Calls == {"evict_expired"}

Metric == [name : Name \cup {None}, alias : Alias \cup {None}]

Packet ==
    [src : Endpoint, dst : Endpoint, node : Node,
     kind : Births \cup Datas \cup Deaths \cup Passing \cup Foreign \cup Calls,
     bdSeq : Nat \cup {None}, metrics : Seq(Metric)]

\* One end of every flow is a broker: the decoder is registered for those ports.
ASSUME PacketAssumption ==
    /\ Packets \subseteq Packet
    /\ \A p \in Packets : p.src \in Brokers <=> p.dst \notin Brokers
    /\ None \notin Nat \cup Name \cup Alias

ASSUME SparkplugAssumption ==
    /\ SweepEvery \in Nat \ {0}
    /\ Times \subseteq Nat
    /\ MaxLog \in Nat

VARIABLES
    sessions,       \* SessionStore::sessions
    sinceSweep,     \* SessionStore::publishes_since_sweep
    log             \* the packets so far, with what was reported for each

vars == <<sessions, sinceSweep, log>>

\* build_mqtt_publish_context: the end of the flow with an MQTT port.
BrokerEndpoint(src, dst) ==
    IF dst \in Brokers THEN dst ELSE IF src \in Brokers THEN src ELSE dst

\* SparkplugBDecoder::session_key.
SessionKey(packet) == <<BrokerEndpoint(packet.src, packet.dst), packet.node>>

-----------------------------------------------------------------------------
(* What a message does to its session, and the readings it is reported by. *)

\* emit_metrics: one reading per metric.  A named metric is reported by its name,
\* and build_reading binds its alias before the next metric is looked at.
Readings(aliases, metrics) ==
    [i \in DOMAIN metrics |->
        IF metrics[i].name # None THEN metrics[i].name
        ELSE IF metrics[i].alias = None THEN None
        ELSE Resolve(BindAll(aliases, SubSeq(metrics, 1, i)), metrics[i].alias)]

\* handle_birth, when the BIRTH supersedes what is known of the session.
Born(session, packet) ==
    [session EXCEPT !.aliases = BindAll(Empty, packet.metrics),
                    !.bdSeq = packet.bdSeq, !.gap = FALSE]

\* The pre-check of handle_data: some metric has only an alias, unknown so far.
AnyUnresolvable(session, packet) ==
    \E i \in DOMAIN packet.metrics :
        /\ packet.metrics[i].name = None
        /\ packet.metrics[i].alias # None
        /\ Resolve(session.aliases, packet.metrics[i].alias) = None

\* Mutant: the anomaly is not remembered.
UpdatedUnmarked(session, packet) ==
    [session EXCEPT !.aliases = BindAll(@, packet.metrics)]

\* handle_data.
Updated(session, packet) ==
    [session EXCEPT !.aliases = BindAll(@, packet.metrics),
                    !.gap = @ \/ AnyUnresolvable(session, packet)]

\* Mutant: record_death forgets to clear.
DeadLingering(session) == session

\* handle_death: record_death clears the aliases, the session stays.
Dead(session) == [session EXCEPT !.aliases = Empty]

-----------------------------------------------------------------------------
(* The steps. *)

\* What is remembered of a packet: whether it was a BIRTH that took effect, its
\* readings, whether the gap anomaly was raised for it, the sessions evicted.
Entered(packet, at, took, readings, gap, evicted) ==
    [packet |-> packet, at |-> at, took |-> took, readings |-> readings,
     gap |-> gap, evicted |-> evicted]

\* Mutant: the counter is reset before it reaches the limit.
SweptLate(at) ==
    IF sinceSweep + 1 > SweepEvery THEN EvictExpired(sessions, at) ELSE sessions

\* should_sweep and, when it says so, evict_expired: the table a publish starts
\* from.
Swept(at) ==
    IF sinceSweep + 1 >= SweepEvery THEN EvictExpired(sessions, at) ELSE sessions

\* should_sweep's counter.
CountPublish ==
    sinceSweep' = IF sinceSweep + 1 >= SweepEvery THEN 0 ELSE sinceSweep + 1

\* try_decode up to the handler, for the messages that have a session: the sweep,
\* then entry_mut makes room for the key.
Rooms(packet, at) == MakeRoom(Swept(at), SessionKey(packet))

\* The session a handler works on and what it leaves, reported and stored.
Handle(packet, at, room, session, took, readings, gap) ==
    /\ sessions' = Put(room, SessionKey(packet), session)
    /\ log' = Append(log, Entered(packet, at, took, readings, gap,
                                  DOMAIN sessions \ DOMAIN room))

\* NBIRTH and DBIRTH.  One that does not supersede is dropped, after the touch.
Birth(packet, at) ==
    /\ packet.kind \in Births
    /\ CountPublish
    /\ \E room \in Rooms(packet, at) :
          LET session == Entry(room, SessionKey(packet), at)
              born    == Born(session, packet)
          IN  IF Supersedes(session, packet.bdSeq)
              THEN Handle(packet, at, room, born, TRUE,
                          Readings(born.aliases, packet.metrics), FALSE)
              ELSE Handle(packet, at, room, session, FALSE, <<>>, FALSE)

\* NDATA and DDATA.
Data(packet, at) ==
    /\ packet.kind \in Datas
    /\ CountPublish
    /\ \E room \in Rooms(packet, at) :
          LET session == Entry(room, SessionKey(packet), at)
          IN  Handle(packet, at, room, Updated(session, packet), FALSE,
                     Readings(session.aliases, packet.metrics),
                     AnyUnresolvable(session, packet) /\ ~session.gap)

\* NDEATH and DDEATH.
Death(packet, at) ==
    /\ packet.kind \in Deaths
    /\ CountPublish
    /\ \E room \in Rooms(packet, at) :
          Handle(packet, at, room, Dead(Entry(room, SessionKey(packet), at)),
                 FALSE, <<>>, FALSE)

\* NCMD, DCMD, STATE and undecodable payloads: counted and swept, nothing more.
Pass(packet, at) ==
    /\ packet.kind \in Passing
    /\ CountPublish
    /\ sessions' = Swept(at)
    /\ log' = Append(log, Entered(packet, at, FALSE, <<>>, FALSE,
                                  DOMAIN sessions \ DOMAIN Swept(at)))

\* MqttDecoder::on_stream_chunk on anything else: the payload decoder is not asked
\* or returns at the topic gate.
Skip(packet, at) ==
    /\ packet.kind \in Foreign
    /\ UNCHANGED <<sessions, sinceSweep>>
    /\ log' = Append(log, Entered(packet, at, FALSE, <<>>, FALSE, {}))

\* SparkplugBDecoder::evict_expired, a sweep on demand.
Purge(packet, at) ==
    /\ packet.kind \in Calls
    /\ sessions' = EvictExpired(sessions, at)
    /\ log' = Append(log, Entered(packet, at, FALSE, <<>>, FALSE,
                                  DOMAIN sessions \ DOMAIN EvictExpired(sessions, at)))
    /\ UNCHANGED sinceSweep

Init ==
    /\ sessions = Empty
    /\ sinceSweep = 0
    /\ log = <<>>

Next ==
    /\ Len(log) < MaxLog
    /\ \E packet \in Packets, at \in Times :
          \/ Birth(packet, at)
          \/ Data(packet, at)
          \/ Death(packet, at)
          \/ Pass(packet, at)
          \/ Skip(packet, at)
          \/ Purge(packet, at)

Spec == Init /\ [][Next]_vars

-----------------------------------------------------------------------------
(* Properties. *)

Key == Endpoint \X Node

AliasTable == UNION {[A -> Name] : A \in SUBSET Alias}

Session ==
    [aliases : AliasTable, bdSeq : Nat \cup {None}, gap : BOOLEAN, touched : Nat]

Logged ==
    [packet : Packets, at : Times, took : BOOLEAN, readings : Seq(Name \cup {None}),
     gap : BOOLEAN, evicted : SUBSET Key]

\* The session table, the sweep counter and the log have their types.
TypeOK ==
    /\ DOMAIN sessions \subseteq Key
    /\ sessions \in [DOMAIN sessions -> Session]
    /\ sinceSweep \in 0 .. SweepEvery - 1
    /\ log \in Seq(Logged)

\* The broker and the node that an entry of the log is about: the end of the flow
\* that is a broker, whichever way the packet went.
Owner(entry) ==
    <<CHOOSE b \in {entry.packet.src, entry.packet.dst} : b \in Brokers,
      entry.packet.node>>

\* Entry i is a message that may name aliases of the session k: a DEATH may not.
Names(i, k) ==
    Owner(log[i]) = k /\ (log[i].took \/ log[i].packet.kind \in Datas)

\* Entry i starts the session k anew: it was evicted, or a BIRTH took effect.
Reopens(i, k) ==
    k \in log[i].evicted \/ (Owner(log[i]) = k /\ log[i].took)

\* Entry i makes the session k forget its aliases.
Forgets(i, k) ==
    Reopens(i, k) \/ (Owner(log[i]) = k /\ log[i].packet.kind \in Deaths)

\* The places <<entry, metric>> before metric m of entry i where alias was given a
\* name that the session k has not had to forget since.
Announcements(k, alias, i, m) ==
    {p \in UNION {{j} \X DOMAIN log[j].packet.metrics : j \in 1 .. i} :
        LET metric == log[p[1]].packet.metrics[p[2]]
        IN  /\ Names(p[1], k)
            /\ p[1] = i => p[2] < m
            /\ metric.alias = alias /\ metric.name # None
            /\ \A l \in p[1] + 1 .. i : ~Forgets(l, k)}

\* An alias in a DATA message is reported under the name it was last given, by the
\* BIRTH or by a DATA message, in the session of the broker and node it belongs to
\* since that session was last born, died or was evicted, and under no name when
\* it was given none: never under the name of an earlier session, of another
\* broker's session, or of a BIRTH that was dropped.
ResolvesWithinSession ==
    \A i \in 1 .. Len(log) :
        log[i].packet.kind \in Datas =>
            \A m \in DOMAIN log[i].packet.metrics :
                LET metric == log[i].packet.metrics[m]
                    places == Announcements(Owner(log[i]), metric.alias, i, m)
                IN  metric.name = None /\ metric.alias # None =>
                        \/ places = {} /\ log[i].readings[m] = None
                        \/ \E p \in places :
                              /\ \A q \in places : q[1] < p[1]
                                                   \/ (q[1] = p[1] /\ q[2] <= p[2])
                              /\ log[i].readings[m]
                                     = log[p[1]].packet.metrics[p[2]].name

\* The anomaly that asks for a rebirth is raised at most once until the session is
\* born again or evicted, and an alias reported without a name is never silent:
\* the anomaly has been raised for it or before it in the same session.
GapOncePerEpoch ==
    \A i \in 1 .. Len(log) :
        LET k     == Owner(log[i])
            since == {j \in 1 .. i : /\ Owner(log[j]) = k /\ log[j].gap
                                     /\ \A l \in j + 1 .. i : ~Reopens(l, k)}
        IN  /\ log[i].gap => since = {i}
            /\ log[i].packet.kind \in Datas =>
                  \A m \in DOMAIN log[i].packet.metrics :
                      log[i].readings[m] = None /\ log[i].packet.metrics[m].alias # None
                          => since # {}

\* The BIRTH in effect in the session when packet i comes, if there is one.
InEffect(i) ==
    LET k == Owner(log[i]) IN
    {j \in 1 .. i - 1 : /\ Owner(log[j]) = k /\ log[j].took
                        /\ \A l \in j + 1 .. i : k \notin log[l].evicted
                        /\ \A l \in j + 1 .. i - 1 : ~Reopens(l, k)}

\* Packet i or j has no bdSeq, or that of i is the later, or the same.
Newer(i, j) ==
    LET m == log[i].packet.bdSeq
        n == log[j].packet.bdSeq
    IN  m = None \/ n = None \/ m > n
NotOlder(i, j) ==
    LET m == log[i].packet.bdSeq
        n == log[j].packet.bdSeq
    IN  m = None \/ n = None \/ m >= n

\* A BIRTH whose bdSeq is older than that of the BIRTH in effect is ignored, and
\* one whose bdSeq is newer takes effect: a replayed BIRTH does not bring old
\* names back, and a current one is not lost, whatever happened to the session in
\* between.  Of an equal bdSeq nothing is said here, see EqualBirthsIgnored.
StaleBirthsDropped ==
    \A i \in 1 .. Len(log) : log[i].packet.kind \in Births =>
        /\ log[i].took => \A j \in InEffect(i) : NotOlder(i, j)
        /\ (\A j \in InEffect(i) : Newer(i, j)) => log[i].took

\* The table never holds more sessions than its cap (one, if the cap is zero).
SessionsBounded ==
    Cardinality(DOMAIN sessions) <= IF MaxSessions = 0 THEN 1 ELSE MaxSessions

\* A Sparkplug publish, which counts towards the sweep.
Publishes(i) == log[i].packet.kind \notin Foreign \cup Calls

\* A session that nobody speaks for is gone after SweepEvery Sparkplug publishes at
\* or after the end of its time to live: should_sweep counts every publish, so that
\* no SweepEvery of them in a row pass without evict_expired.
IdleSessionsSwept ==
    \A k \in DOMAIN sessions, n \in 0 .. Len(log) :
        LET recent == {i \in n + 1 .. Len(log) : Publishes(i)}
        IN  Cardinality(recent) >= SweepEvery =>
                \E i \in recent :
                    \/ Owner(log[i]) = k /\ log[i].packet.kind \notin Passing
                    \/ log[i].at < sessions[k].touched + Ttl

-----------------------------------------------------------------------------
(* What the documentation says and the code does not do. *)

\* state.rs: "A BIRTH with a strictly-newer bdSeq supersedes prior state."
\* handle_birth: "Older or equal bdSeq when we already have a newer one - ignore."
\* (After a DEATH a test lets the same bdSeq take effect again.)
EqualBirthsIgnored ==
    \A i \in 1 .. Len(log) :
        log[i].packet.kind \in Births /\ log[i].took =>
            \A j \in InEffect(i) :
                \/ Newer(i, j)
                \/ \E l \in j + 1 .. i : /\ Owner(log[l]) = Owner(log[i])
                                         /\ log[l].packet.kind \in Deaths

=============================================================================
