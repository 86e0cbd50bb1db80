--------------------------- MODULE SparkplugProofs ---------------------------
(***************************************************************************)
(* Proofs about the Sparkplug B decoder, for any packets, limits and       *)
(* times.  A session that is not in the table is as good as a fresh one,   *)
(* so that the argument is about the view of every key, and a step is one  *)
(* logged entry that changes the view of one key and resets the view of    *)
(* the keys it evicts.                                                     *)
(***************************************************************************)
EXTENDS Sparkplug, Lists

-----------------------------------------------------------------------------
(* Aliases and readings. *)

LEMMA GreatestIndex ==
    ASSUME NEW n \in Nat, NEW T \in SUBSET (1 .. n), T # {}
    PROVE  \E x \in T : \A y \in T : y <= x
<1> DEFINE D == {n - x : x \in T}
<1>1. ASSUME NEW x \in T PROVE n - x \in Nat
  OBVIOUS
<1>2. D \in SUBSET Nat /\ D # {}
  BY <1>1, Zenon
<1>3. PICK d \in D : \A e \in D : d <= e
  BY <1>2, LeastNat, Zenon
<1>4. PICK x \in T : d = n - x
  BY <1>3, Zenon
<1>5. ASSUME NEW y \in T PROVE y <= x
  <2>1. n - y \in D
    BY Zenon
  <2> QED BY <1>3, <1>4, <2>1
<1> QED BY <1>5, Zenon

LEMMA LastBinderBinds ==
    ASSUME NEW metrics \in Seq(Metric), NEW alias,
           \E i \in Binders(metrics) : metrics[i].alias = alias
    PROVE  /\ LastBinder(metrics, alias) \in Binders(metrics)
           /\ metrics[LastBinder(metrics, alias)].alias = alias
           /\ \A j \in Binders(metrics) :
                metrics[j].alias = alias => j <= LastBinder(metrics, alias)
<1> DEFINE T == {i \in Binders(metrics) : metrics[i].alias = alias}
<1>1. T \in SUBSET (1 .. Len(metrics)) /\ T # {} /\ Len(metrics) \in Nat
  BY DEF Binders
<1>2. PICK x \in T : \A y \in T : y <= x
  BY <1>1, GreatestIndex, Zenon
<1>3. \E i \in Binders(metrics) :
          /\ metrics[i].alias = alias
          /\ \A j \in Binders(metrics) : metrics[j].alias = alias => j <= i
  BY <1>2, Zenon
<1> QED BY <1>3, Zenon DEF LastBinder

LEMMA MetricType ==
    ASSUME NEW metrics \in Seq(Metric), NEW i \in DOMAIN metrics
    PROVE  metrics[i].alias \in Alias \cup {None} /\ metrics[i].name \in Name \cup {None}
<1>1. metrics[i] \in Metric
  OBVIOUS
<1> QED BY <1>1, Zenon DEF Metric

LEMMA BindAllType ==
    ASSUME NEW aliases \in AliasTable, NEW metrics \in Seq(Metric)
    PROVE  BindAll(aliases, metrics) \in AliasTable
<1> DEFINE bound == {metrics[i].alias : i \in Binders(metrics)}
<1>1. PICK A \in SUBSET Alias : aliases \in [A -> Name]
  BY Zenon DEF AliasTable
<1>2. \A i \in Binders(metrics) : metrics[i].alias \in Alias /\ metrics[i].name \in Name
  BY MetricType, Zenon DEF Binders, Binding
<1>3. bound \in SUBSET Alias
  BY <1>2, Zenon
<1>4. ASSUME NEW a \in bound PROVE metrics[LastBinder(metrics, a)].name \in Name
  BY <1>2, LastBinderBinds, Zenon
<1>5. BindAll(aliases, metrics) \in [A \cup bound -> Name]
  BY <1>1, <1>4, Zenon DEF BindAll
<1> QED BY <1>3, <1>5, Zenon DEF AliasTable

LEMMA ResolveType ==
    ASSUME NEW aliases \in AliasTable, NEW alias
    PROVE  Resolve(aliases, alias) \in Name \cup {None}
BY DEF Resolve, AliasTable

LEMMA ReadingsType ==
    ASSUME NEW aliases \in AliasTable, NEW metrics \in Seq(Metric)
    PROVE  Readings(aliases, metrics) \in Seq(Name \cup {None})
<1>1. ASSUME NEW i \in 1 .. Len(metrics)
      PROVE  SubSeq(metrics, 1, i) \in Seq(Metric)
  OBVIOUS
<1>2. ASSUME NEW i \in 1 .. Len(metrics)
      PROVE  Resolve(BindAll(aliases, SubSeq(metrics, 1, i)), metrics[i].alias)
                \in Name \cup {None}
  BY <1>1, BindAllType, ResolveType, Zenon
<1>3. \A i \in 1 .. Len(metrics) : metrics[i].name \in Name \cup {None}
  BY MetricType
<1>4. Readings(aliases, metrics) \in [1 .. Len(metrics) -> Name \cup {None}]
  BY <1>2, <1>3 DEF Readings
<1> QED BY <1>4

-----------------------------------------------------------------------------
(* Sessions. *)

LEMMA EmptyIsTable == Empty \in AliasTable
<1>1. Empty \in [{} -> Name]
  BY Zenon DEF Empty
<1> QED BY <1>1, Zenon DEF AliasTable

LEMMA FreshType == Fresh \in Session
BY EmptyIsTable, Zenon DEF Fresh, Session

LEMMA HandlersType ==
    ASSUME NEW session \in Session, NEW packet \in Packets
    PROVE  /\ Born(session, packet) \in Session
           /\ Updated(session, packet) \in Session
           /\ Dead(session) \in Session
           /\ packet.metrics \in Seq(Metric)
           /\ session.aliases \in AliasTable
<1>1. /\ packet.metrics \in Seq(Metric) /\ packet.bdSeq \in Nat \cup {None}
      /\ session.aliases \in AliasTable
  BY PacketAssumption, Zenon DEF Packet, Session
<1>2. /\ BindAll(Empty, packet.metrics) \in AliasTable
      /\ BindAll(session.aliases, packet.metrics) \in AliasTable
  BY <1>1, BindAllType, EmptyIsTable, Zenon
<1>3. AnyUnresolvable(session, packet) \in BOOLEAN
  BY Zenon DEF AnyUnresolvable
<1>4. Born(session, packet) \in Session
  BY <1>1, <1>2, Zenon DEF Born, Session
<1>5. Updated(session, packet) \in Session
  BY <1>1, <1>2, <1>3, Zenon DEF Updated, Session
<1>6. Dead(session) \in Session
  BY EmptyIsTable, Zenon DEF Dead, Session
<1> QED BY <1>1, <1>4, <1>5, <1>6, Zenon

\* A broker is at one end of the flow, so the session is that of the owner.
LEMMA OwnerIsKey ==
    ASSUME NEW e \in Logged
    PROVE  Owner(e) = SessionKey(e.packet) /\ Owner(e) \in Key
<1>1. /\ e.packet \in Packets /\ e.packet.src \in Endpoint /\ e.packet.dst \in Endpoint
      /\ e.packet.node \in Node /\ (e.packet.src \in Brokers <=> e.packet.dst \notin Brokers)
  BY PacketAssumption, Zenon DEF Logged, Packet
<1>2. CASE e.packet.src \in Brokers
  <2>1. (CHOOSE b \in {e.packet.src, e.packet.dst} : b \in Brokers) = e.packet.src
    BY <1>1, <1>2, Zenon
  <2>2. BrokerEndpoint(e.packet.src, e.packet.dst) = e.packet.src
    BY <1>1, <1>2, Zenon DEF BrokerEndpoint
  <2> QED BY <1>1, <2>1, <2>2 DEF Owner, SessionKey, Key
<1>3. CASE e.packet.dst \in Brokers
  <2>1. (CHOOSE b \in {e.packet.src, e.packet.dst} : b \in Brokers) = e.packet.dst
    BY <1>1, <1>3, Zenon
  <2>2. BrokerEndpoint(e.packet.src, e.packet.dst) = e.packet.dst
    BY <1>1, <1>3, Zenon DEF BrokerEndpoint
  <2> QED BY <1>1, <2>1, <2>2 DEF Owner, SessionKey, Key
<1> QED BY <1>1, <1>2, <1>3, Zenon

-----------------------------------------------------------------------------
(* Steps. *)

\* The session of key k in table t, fresh if there is none.
ViewIn(t, k) == IF k \in DOMAIN t THEN t[k] ELSE Fresh

\* The session that entry e found for k, once the evictions were done.
Base(e, k) == IF k \in e.evicted THEN Fresh ELSE ViewIn(sessions, k)

\* The same but for the time of the last touch.
Same(s, t) == s.aliases = t.aliases /\ s.bdSeq = t.bdSeq /\ s.gap = t.gap

\* t is a part of s.
Part(t, s) == DOMAIN t \subseteq DOMAIN s /\ t = [k \in DOMAIN t |-> s[k]]

\* What the handlers of messages with a session make of it.
Effect(e, base, after) ==
    /\ e.packet.kind \in Births =>
          /\ e.took = Supersedes(base, e.packet.bdSeq)
          /\ ~e.gap
          /\ Same(after, IF e.took THEN Born(base, e.packet) ELSE base)
    /\ e.packet.kind \in Datas =>
          /\ ~e.took
          /\ e.gap = (AnyUnresolvable(base, e.packet) /\ ~base.gap)
          /\ e.readings = Readings(base.aliases, e.packet.metrics)
          /\ Same(after, Updated(base, e.packet))
    /\ e.packet.kind \in Deaths =>
          /\ ~e.took /\ ~e.gap
          /\ Same(after, Dead(base))

Sessional == Births \cup Datas \cup Deaths

\* Entry e is logged: it changes its own session and those it evicts.
StepOf(e) ==
    /\ e \in Logged
    /\ log' = Append(log, e)
    /\ e.packet.kind \notin Sessional => ~e.took /\ ~e.gap
    /\ \A k : k # SessionKey(e.packet) \/ e.packet.kind \notin Sessional
                 => Same(ViewIn(sessions', k), Base(e, k))
    /\ e.packet.kind \in Sessional =>
          Effect(e, Base(e, SessionKey(e.packet)), ViewIn(sessions', SessionKey(e.packet)))

LEMMA SweepIsPart ==
    ASSUME TypeOK, NEW at
    PROVE  Part(EvictExpired(sessions, at), sessions) /\ Part(Swept(at), sessions)
<1>1. Part(sessions, sessions)
  BY Zenon DEF TypeOK, Part
<1>2. Part(EvictExpired(sessions, at), sessions)
  BY Zenon DEF EvictExpired, Part
<1> QED BY <1>1, <1>2, Zenon DEF Swept

LEMMA RoomIsPart ==
    ASSUME TypeOK, NEW packet, NEW at, NEW room \in Rooms(packet, at)
    PROVE  Part(room, sessions)
<1> DEFINE swept == Swept(at)
           key == SessionKey(packet)
<1>1. Part(swept, sessions)
  BY SweepIsPart, Zenon
<1>2. \/ room = swept
      \/ \E victim : room = [k \in DOMAIN swept \ {victim} |-> swept[k]]
  BY Zenon DEF Rooms, MakeRoom
<1> HIDE DEF swept
<1>3. CASE room = swept
  BY <1>1, <1>3, Zenon
<1>4. CASE \E victim : room = [k \in DOMAIN swept \ {victim} |-> swept[k]]
  <2>1. PICK victim : room = [k \in DOMAIN swept \ {victim} |-> swept[k]]
    BY <1>4, Zenon
  <2> QED BY <1>1, <2>1, Zenon DEF Part
<1> QED BY <1>2, <1>3, <1>4, Zenon

LEMMA PartType ==
    ASSUME TypeOK, NEW room, Part(room, sessions)
    PROVE  /\ DOMAIN room \subseteq Key
           /\ room \in [DOMAIN room -> Session]
           /\ DOMAIN sessions \ DOMAIN room \in SUBSET Key
BY Zenon DEF TypeOK, Part

LEMMA PartView ==
    ASSUME NEW room, Part(room, sessions), NEW k
    PROVE  ViewIn(room, k) = IF k \in DOMAIN sessions \ DOMAIN room THEN Fresh
                             ELSE ViewIn(sessions, k)
BY Zenon DEF Part, ViewIn

LEMMA ViewType ==
    ASSUME TypeOK, NEW e, NEW k
    PROVE  ViewIn(sessions, k) \in Session /\ Base(e, k) \in Session
BY FreshType, Zenon DEF TypeOK, ViewIn, Base

\* The handlers do not look at the time of the last touch.
LEMMA SameEffect ==
    ASSUME NEW s \in Session, NEW t \in Session, Same(s, t), NEW packet \in Packets
    PROVE  /\ Supersedes(s, packet.bdSeq) <=> Supersedes(t, packet.bdSeq)
           /\ AnyUnresolvable(s, packet) <=> AnyUnresolvable(t, packet)
           /\ s.gap <=> t.gap
           /\ s.aliases = t.aliases
           /\ Same(Born(s, packet), Born(t, packet))
           /\ Same(Updated(s, packet), Updated(t, packet))
           /\ Same(Dead(s), Dead(t))
<1>1. AnyUnresolvable(s, packet) <=> AnyUnresolvable(t, packet)
  BY Zenon DEF Same, AnyUnresolvable
<1>2. Supersedes(s, packet.bdSeq) <=> Supersedes(t, packet.bdSeq)
  BY Zenon DEF Same, Supersedes
<1>3. Same(Born(s, packet), Born(t, packet))
  BY Zenon DEF Same, Born, Session
<1>4. Same(Updated(s, packet), Updated(t, packet))
  BY <1>1, Zenon DEF Same, Updated, Session
<1>5. Same(Dead(s), Dead(t))
  BY Zenon DEF Same, Dead, Session
<1> QED BY <1>1, <1>2, <1>3, <1>4, <1>5, Zenon DEF Same

\* Entry e is logged and session stored, once the table was cut down to room.
Stored(e, packet, room, session, took, readings, gap) ==
    /\ e \in Logged
    /\ e.packet = packet /\ e.took = took /\ e.gap = gap /\ e.readings = readings
    /\ log' = Append(log, e)
    /\ DOMAIN sessions' \subseteq Key
    /\ sessions' \in [DOMAIN sessions' -> Session]
    /\ \A k : Base(e, k) = ViewIn(room, k)
    /\ \A k : k # SessionKey(packet) => ViewIn(sessions', k) = Base(e, k)
    /\ ViewIn(sessions', SessionKey(packet)) = session

\* A session is stored and the entry is logged.
LEMMA HandleStep ==
    ASSUME TypeOK, NEW packet \in Packets, NEW at \in Times,
           NEW room, Part(room, sessions), NEW session \in Session,
           NEW took \in BOOLEAN, NEW readings \in Seq(Name \cup {None}), NEW gap \in BOOLEAN,
           Handle(packet, at, room, session, took, readings, gap)
    PROVE  \E e : Stored(e, packet, room, session, took, readings, gap)
<1> DEFINE e == Entered(packet, at, took, readings, gap, DOMAIN sessions \ DOMAIN room)
           key == SessionKey(packet)
<1>1. DOMAIN room \subseteq Key /\ room \in [DOMAIN room -> Session]
  BY PartType, Zenon
<1>2. e \in Logged
  BY PartType, Zenon DEF Logged, Entered
<1>3. e.packet = packet /\ e.took = took /\ e.gap = gap /\ e.readings = readings
      /\ e.evicted = DOMAIN sessions \ DOMAIN room
  BY Zenon DEF Entered
<1>4. log' = Append(log, e)
  BY Zenon DEF Handle
<1>5. key \in Key
  BY OwnerIsKey, <1>2, <1>3, Zenon
<1> HIDE DEF e, key
<1>6. sessions' = [k \in DOMAIN room \cup {key} |-> IF k = key THEN session ELSE room[k]]
  BY Zenon DEF Handle, Put, key
<1>7. DOMAIN sessions' \subseteq Key /\ sessions' \in [DOMAIN sessions' -> Session]
  BY <1>1, <1>5, <1>6, Zenon
<1>8. \A k : Base(e, k) = ViewIn(room, k)
  BY <1>3, PartView, Zenon DEF Base
<1>9. \A k : k # key => ViewIn(sessions', k) = ViewIn(room, k)
  BY <1>6, Zenon DEF ViewIn
<1>10. ViewIn(sessions', key) = session
  BY <1>6, Zenon DEF ViewIn
<1> QED BY <1>2, <1>3, <1>4, <1>7, <1>8, <1>9, <1>10, Zenon DEF key, Stored

LEMMA EntryType ==
    ASSUME TypeOK, NEW room, Part(room, sessions), NEW key, NEW at \in Times
    PROVE  /\ Entry(room, key, at) \in Session
           /\ ViewIn(room, key) \in Session
           /\ Same(Entry(room, key, at), ViewIn(room, key))
<1>1. ViewIn(room, key) \in Session
  BY PartType, FreshType, Zenon DEF ViewIn
<1>2. Entry(room, key, at) = [ViewIn(room, key) EXCEPT !.touched = at]
  BY Zenon DEF Entry, ViewIn
<1>3. at \in Nat
  BY SparkplugAssumption, Zenon
<1> QED BY <1>1, <1>2, <1>3, Zenon DEF Session, Same

\* What every step does to the table and the log.
StepType ==
    /\ DOMAIN sessions' \subseteq Key
    /\ sessions' \in [DOMAIN sessions' -> Session]

LEMMA BirthStep ==
    ASSUME TypeOK, NEW packet \in Packets, NEW at \in Times, Birth(packet, at)
    PROVE  StepType /\ \E e : StepOf(e)
<1> DEFINE key == SessionKey(packet)
<1>1. PICK room \in Rooms(packet, at) :
        LET session == Entry(room, key, at)
            born    == Born(session, packet)
        IN  IF Supersedes(session, packet.bdSeq)
            THEN Handle(packet, at, room, born, TRUE,
                        Readings(born.aliases, packet.metrics), FALSE)
            ELSE Handle(packet, at, room, session, FALSE, <<>>, FALSE)
  BY Zenon DEF Birth
<1>2. Part(room, sessions)
  BY RoomIsPart, Zenon
<1> DEFINE session == Entry(room, key, at)
           born == Born(session, packet)
           base == ViewIn(room, key)
<1>3. packet.kind \in Births /\ packet.kind \notin Datas /\ packet.kind \notin Deaths
  BY Zenon DEF Birth, Births, Datas, Deaths
<1>4. session \in Session /\ base \in Session /\ Same(session, base)
  BY <1>2, EntryType, Zenon
<1>5. born \in Session /\ packet.metrics \in Seq(Metric) /\ born.aliases \in AliasTable
  BY <1>4, HandlersType, Zenon
<1>6. Readings(born.aliases, packet.metrics) \in Seq(Name \cup {None})
  BY <1>5, ReadingsType, Zenon
<1>7. /\ Supersedes(session, packet.bdSeq) <=> Supersedes(base, packet.bdSeq)
      /\ Same(born, Born(base, packet))
  BY <1>4, SameEffect, Zenon
<1>8. /\ Supersedes(base, packet.bdSeq) \in BOOLEAN
      /\ TRUE \in BOOLEAN /\ FALSE \in BOOLEAN
      /\ <<>> \in Seq(Name \cup {None})
  BY DEF Supersedes
<1> HIDE DEF session, born, base, key
<1>9. CASE Supersedes(session, packet.bdSeq)
  <2>1. Handle(packet, at, room, born, TRUE, Readings(born.aliases, packet.metrics), FALSE)
    BY <1>1, <1>9, Zenon DEF session, born, key
  <2>2. PICK e : Stored(e, packet, room, born, TRUE,
                           Readings(born.aliases, packet.metrics), FALSE)
    BY <1>2, <1>5, <1>6, <1>8, <2>1, HandleStep, Zenon
  <2>3. Effect(e, Base(e, key), ViewIn(sessions', key))
    BY <1>3, <1>7, <1>8, <1>9, <2>2, Zenon DEF Stored, Effect, base, key
  <2> QED BY <1>3, <2>2, <2>3, Zenon DEF Stored, StepOf, StepType, Sessional, Same, key
<1>10. CASE ~Supersedes(session, packet.bdSeq)
  <2>1. Handle(packet, at, room, session, FALSE, <<>>, FALSE)
    BY <1>1, <1>10, Zenon DEF session, key
  <2>2. PICK e : Stored(e, packet, room, session, FALSE, <<>>, FALSE)
    BY <1>2, <1>4, <1>8, <2>1, HandleStep, Zenon
  <2>3. Effect(e, Base(e, key), ViewIn(sessions', key))
    BY <1>3, <1>4, <1>7, <1>8, <1>10, <2>2, Zenon DEF Stored, Effect, base, key
  <2> QED BY <1>3, <2>2, <2>3, Zenon DEF Stored, StepOf, StepType, Sessional, Same, key
<1> QED BY <1>9, <1>10, Zenon

LEMMA DataStep ==
    ASSUME TypeOK, NEW packet \in Packets, NEW at \in Times, Data(packet, at)
    PROVE  StepType /\ \E e : StepOf(e)
<1> DEFINE key == SessionKey(packet)
<1>1. PICK room \in Rooms(packet, at) :
        LET session == Entry(room, key, at)
        IN  Handle(packet, at, room, Updated(session, packet), FALSE,
                   Readings(session.aliases, packet.metrics),
                   AnyUnresolvable(session, packet) /\ ~session.gap)
  BY Zenon DEF Data
<1>2. Part(room, sessions)
  BY RoomIsPart, Zenon
<1> DEFINE session == Entry(room, key, at)
           base == ViewIn(room, key)
           after == Updated(session, packet)
           readings == Readings(session.aliases, packet.metrics)
           gap == AnyUnresolvable(session, packet) /\ ~session.gap
<1>3. packet.kind \in Datas /\ packet.kind \notin Births /\ packet.kind \notin Deaths
  BY Zenon DEF Data, Births, Datas, Deaths
<1>4. session \in Session /\ base \in Session /\ Same(session, base)
  BY <1>2, EntryType, Zenon
<1>5. after \in Session /\ readings \in Seq(Name \cup {None})
  BY <1>4, HandlersType, ReadingsType, Zenon
<1>6. gap \in BOOLEAN /\ FALSE \in BOOLEAN
  BY Zenon
<1>7. /\ gap = (AnyUnresolvable(base, packet) /\ ~base.gap)
      /\ readings = Readings(base.aliases, packet.metrics)
      /\ Same(after, Updated(base, packet))
  BY <1>4, SameEffect, Zenon
<1>8. Handle(packet, at, room, after, FALSE, readings, gap)
  BY <1>1, Zenon
<1> HIDE DEF session, base, after, readings, gap, key
<1>9. PICK e : Stored(e, packet, room, after, FALSE, readings, gap)
  BY <1>2, <1>5, <1>6, <1>8, HandleStep, Zenon
<1>10. Effect(e, Base(e, key), ViewIn(sessions', key))
  BY <1>3, <1>7, <1>9, Zenon DEF Stored, Effect, base, key
<1> QED BY <1>3, <1>9, <1>10, Zenon DEF Stored, StepOf, StepType, Sessional, Same, key

LEMMA DeathStep ==
    ASSUME TypeOK, NEW packet \in Packets, NEW at \in Times, Death(packet, at)
    PROVE  StepType /\ \E e : StepOf(e)
<1> DEFINE key == SessionKey(packet)
<1>1. PICK room \in Rooms(packet, at) :
        Handle(packet, at, room, Dead(Entry(room, key, at)), FALSE, <<>>, FALSE)
  BY Zenon DEF Death
<1>2. Part(room, sessions)
  BY RoomIsPart, Zenon
<1> DEFINE session == Entry(room, key, at)
           base == ViewIn(room, key)
           after == Dead(session)
<1>3. packet.kind \in Deaths /\ packet.kind \notin Births /\ packet.kind \notin Datas
  BY Zenon DEF Death, Births, Datas, Deaths
<1>4. session \in Session /\ base \in Session /\ Same(session, base)
  BY <1>2, EntryType, Zenon
<1>5. after \in Session /\ Same(after, Dead(base))
  BY <1>4, HandlersType, SameEffect, Zenon
<1>6. FALSE \in BOOLEAN /\ <<>> \in Seq(Name \cup {None})
  OBVIOUS
<1>7. Handle(packet, at, room, after, FALSE, <<>>, FALSE)
  BY <1>1, Zenon
<1> HIDE DEF session, base, after, key
<1>8. PICK e : Stored(e, packet, room, after, FALSE, <<>>, FALSE)
  BY <1>2, <1>5, <1>6, <1>7, HandleStep, Zenon
<1>9. Effect(e, Base(e, key), ViewIn(sessions', key))
  BY <1>3, <1>5, <1>8, Zenon DEF Stored, Effect, base, key
<1> QED BY <1>3, <1>8, <1>9, Zenon DEF Stored, StepOf, StepType, Sessional, Same, key

\* A step that only cuts the table down to a part of it.
LEMMA CutStep ==
    ASSUME TypeOK, NEW packet \in Packets, packet.kind \notin Sessional,
           NEW at \in Times, Part(sessions', sessions),
           log' = Append(log, Entered(packet, at, FALSE, <<>>, FALSE,
                                      DOMAIN sessions \ DOMAIN sessions'))
    PROVE  StepType /\ \E e : StepOf(e)
<1> DEFINE e == Entered(packet, at, FALSE, <<>>, FALSE, DOMAIN sessions \ DOMAIN sessions')
<1>1. /\ StepType
      /\ DOMAIN sessions \ DOMAIN sessions' \in SUBSET Key
  BY PartType, Zenon DEF StepType
<1>2. e \in Logged
  BY <1>1 DEF Logged, Entered
<1>3. /\ e.packet = packet /\ ~e.took /\ ~e.gap
      /\ e.evicted = DOMAIN sessions \ DOMAIN sessions'
  BY Zenon DEF Entered
<1>4. log' = Append(log, e)
  BY Zenon
<1> HIDE DEF e
<1>5. \A k : ViewIn(sessions', k) = Base(e, k)
  BY <1>3, PartView, Zenon DEF Base
<1>6. StepOf(e)
  BY <1>2, <1>3, <1>4, <1>5, Zenon DEF StepOf, Same
<1> QED BY <1>1, <1>6, Zenon

LEMMA PassStep ==
    ASSUME TypeOK, NEW packet \in Packets, NEW at \in Times,
           Pass(packet, at) \/ Skip(packet, at) \/ Purge(packet, at)
    PROVE  StepType /\ \E e : StepOf(e)
<1>1. packet.kind \notin Sessional
  BY Zenon DEF Pass, Skip, Purge, Sessional, Births, Datas, Deaths, Passing, Foreign, Calls
<1>2. CASE Pass(packet, at)
  BY <1>1, <1>2, SweepIsPart, CutStep, Zenon DEF Pass
<1>3. CASE Skip(packet, at)
  <2>1. Part(sessions', sessions) /\ DOMAIN sessions \ DOMAIN sessions' = {}
    BY <1>3, Zenon DEF Skip, TypeOK, Part
  <2> QED BY <1>1, <1>3, <2>1, CutStep, Zenon DEF Skip
<1>4. CASE Purge(packet, at)
  BY <1>1, <1>4, SweepIsPart, CutStep, Zenon DEF Purge
<1> QED BY <1>2, <1>3, <1>4, Zenon

\* Every step logs one entry.
LEMMA NextStep ==
    ASSUME TypeOK, Next
    PROVE  TypeOK' /\ \E e : StepOf(e)
<1>1. PICK packet \in Packets, at \in Times :
          \/ Birth(packet, at) \/ Data(packet, at) \/ Death(packet, at)
          \/ Pass(packet, at) \/ Skip(packet, at) \/ Purge(packet, at)
  BY Zenon DEF Next
<1>2. StepType /\ \E e : StepOf(e)
  BY <1>1, BirthStep, DataStep, DeathStep, PassStep, Zenon
<1>3. CountPublish \/ UNCHANGED sinceSweep
  BY <1>1, Zenon DEF Birth, Data, Death, Pass, Skip, Purge
<1>4. sinceSweep' \in 0 .. SweepEvery - 1
  BY <1>3, SparkplugAssumption DEF CountPublish, TypeOK
<1>5. log' \in Seq(Logged)
  BY <1>2 DEF StepOf, TypeOK
<1> QED BY <1>2, <1>4, <1>5, Zenon DEF TypeOK, StepType

\* The session table, the sweep counter and the log keep their types.
THEOREM TypeCorrect == Spec => []TypeOK
<1>1. Init => TypeOK
  BY SparkplugAssumption DEF Init, TypeOK, Empty
<1>2. TypeOK /\ [Next]_vars => TypeOK'
  <2>1. TypeOK /\ Next => TypeOK'
    BY NextStep, Zenon
  <2>2. TypeOK /\ UNCHANGED vars => TypeOK'
    BY Zenon DEF vars, TypeOK
  <2> QED BY <2>1, <2>2, Zenon
<1> QED BY <1>1, <1>2, PTL DEF Spec

-----------------------------------------------------------------------------
(* The cap. *)

Bounded == IsFiniteSet(DOMAIN sessions) /\ SessionsBounded

Cap == IF MaxSessions = 0 THEN 1 ELSE MaxSessions

LEMMA PartBounded ==
    ASSUME Bounded, NEW t, Part(t, sessions)
    PROVE  /\ IsFiniteSet(DOMAIN t) /\ Cardinality(DOMAIN t) \in Nat
           /\ Cardinality(DOMAIN t) <= Cap
<1>1. DOMAIN t \in SUBSET DOMAIN sessions /\ IsFiniteSet(DOMAIN sessions)
  BY Zenon DEF Part, Bounded
<1>2. IsFiniteSet(DOMAIN t) /\ Cardinality(DOMAIN t) <= Cardinality(DOMAIN sessions)
  BY <1>1, FS_Subset, Zenon
<1>3. Cardinality(DOMAIN t) \in Nat /\ Cardinality(DOMAIN sessions) \in Nat
  BY <1>1, <1>2, FS_CardinalityType, Zenon
<1> QED BY <1>2, <1>3, StoreAssumption DEF Bounded, SessionsBounded, Cap

\* Once entry_mut has made room, the key fits.
LEMMA RoomFits ==
    ASSUME Bounded, NEW t, Part(t, sessions), NEW key, NEW room \in MakeRoom(t, key)
    PROVE  /\ IsFiniteSet(DOMAIN room \cup {key})
           /\ Cardinality(DOMAIN room \cup {key}) <= Cap
<1> DEFINE D == DOMAIN t
<1>1. IsFiniteSet(D) /\ Cardinality(D) \in Nat /\ Cardinality(D) <= Cap
  BY PartBounded, Zenon
<1>2. CASE key \in D \/ Cardinality(D) < MaxSessions \/ D = {}
  <2>1. room = t
    BY <1>2, Zenon DEF MakeRoom
  <2>2. /\ IsFiniteSet(D \cup {key})
        /\ Cardinality(D \cup {key}) = IF key \in D THEN Cardinality(D) ELSE Cardinality(D) + 1
    BY <1>1, FS_AddElement, Zenon
  <2>3. D = {} => Cardinality(D) = 0
    BY FS_EmptySet, Zenon
  <2> HIDE DEF D
  <2>4. Cardinality(D \cup {key}) <= Cap
    BY <1>1, <1>2, <2>2, <2>3, StoreAssumption DEF Cap
  <2> QED BY <2>1, <2>2, <2>4, Zenon DEF D
<1>3. CASE ~(key \in D \/ Cardinality(D) < MaxSessions \/ D = {})
  <2>1. PICK victim \in LeastTouched(t) : room = [k \in D \ {victim} |-> t[k]]
    BY <1>3, Zenon DEF MakeRoom
  <2>2. victim \in D /\ key \notin D \ {victim} /\ DOMAIN room = D \ {victim}
    BY <1>3, <2>1, Zenon DEF LeastTouched
  <2>3. IsFiniteSet(D \ {victim}) /\ Cardinality(D \ {victim}) = Cardinality(D) - 1
    BY <1>1, <2>2, FS_RemoveElement, Zenon
  <2>4. /\ IsFiniteSet((D \ {victim}) \cup {key})
        /\ Cardinality((D \ {victim}) \cup {key}) = Cardinality(D \ {victim}) + 1
    BY <2>2, <2>3, FS_AddElement, Zenon
  <2> HIDE DEF D
  <2> QED BY <1>1, <2>2, <2>3, <2>4
<1> QED BY <1>2, <1>3, Zenon

LEMMA BoundedStep ==
    ASSUME TypeOK, Bounded, Next
    PROVE  Bounded'
<1>1. PICK packet \in Packets, at \in Times :
          \/ Birth(packet, at) \/ Data(packet, at) \/ Death(packet, at)
          \/ Pass(packet, at) \/ Skip(packet, at) \/ Purge(packet, at)
  BY Zenon DEF Next
<1>2. CASE Birth(packet, at) \/ Data(packet, at) \/ Death(packet, at)
  <2>1. PICK room \in Rooms(packet, at) : \E session :
            sessions' = Put(room, SessionKey(packet), session)
    BY <1>2, Zenon DEF Birth, Data, Death, Handle
  <2>2. DOMAIN sessions' = DOMAIN room \cup {SessionKey(packet)}
    BY <2>1, Zenon DEF Put
  <2>3. IsFiniteSet(DOMAIN sessions') /\ Cardinality(DOMAIN sessions') <= Cap
    BY <2>1, <2>2, SweepIsPart, RoomFits, Zenon DEF Rooms
  <2> QED BY <2>3, Zenon DEF Bounded, SessionsBounded, Cap
<1>3. CASE Pass(packet, at) \/ Skip(packet, at) \/ Purge(packet, at)
  <2>1. Part(sessions', sessions)
    <3>1. Part(sessions, sessions)
      BY Zenon DEF TypeOK, Part
    <3> QED BY <1>3, <3>1, SweepIsPart, Zenon DEF Pass, Skip, Purge
  <2> QED BY <2>1, PartBounded, Zenon DEF Bounded, SessionsBounded, Cap
<1> QED BY <1>1, <1>2, <1>3, Zenon

\* The table of sessions never outgrows its cap, whatever the packets, the limits
\* and the order of the capture times.
THEOREM SessionsAreBounded == Spec => []SessionsBounded
<1>1. Init => Bounded
  <2>1. Init => DOMAIN sessions = {}
    BY Zenon DEF Init, Empty
  <2> QED BY <2>1, FS_EmptySet, StoreAssumption DEF Bounded, SessionsBounded
<1>2. TypeOK /\ Bounded /\ [Next]_vars => Bounded'
  <2>1. TypeOK /\ Bounded /\ Next => Bounded'
    BY BoundedStep, Zenon
  <2>2. Bounded /\ UNCHANGED vars => Bounded'
    BY Zenon DEF vars, Bounded, SessionsBounded
  <2> QED BY <2>1, <2>2, Zenon
<1>3. Bounded => SessionsBounded
  BY Zenon DEF Bounded
<1> QED BY <1>1, <1>2, <1>3, TypeCorrect, PTL DEF Spec

-----------------------------------------------------------------------------
(* The history of a session. *)

\* The entries that have been logged do not change.
LEMMA LogGrows ==
    ASSUME TypeOK, NEW e \in Logged, log' = Append(log, e)
    PROVE  /\ Len(log) \in Nat /\ Len(log') = Len(log) + 1
           /\ log'[Len(log) + 1] = e
           /\ \A i \in 1 .. Len(log) :
                 /\ log'[i] = log[i]
                 /\ \A k : Reopens(i, k)' <=> Reopens(i, k)
                 /\ \A k : Forgets(i, k)' <=> Forgets(i, k)
                 /\ \A k : Names(i, k)' <=> Names(i, k)
           /\ \A n \in Nat, k \in Key : n = Len(log) + 1 =>
                 (Reopens(n, k)' <=> k \in e.evicted \/ (Owner(e) = k /\ e.took))
<1>1. /\ Len(log) \in Nat /\ Len(log') = Len(log) + 1
      /\ log'[Len(log) + 1] = e
      /\ \A i \in 1 .. Len(log) : log'[i] = log[i]
  BY DEF TypeOK
<1>2. \A i \in 1 .. Len(log) : \A k :
         /\ Reopens(i, k)' <=> Reopens(i, k)
         /\ Forgets(i, k)' <=> Forgets(i, k)
         /\ Names(i, k)' <=> Names(i, k)
  BY <1>1, Zenon DEF Reopens, Forgets, Names
<1>3. \A n \in Nat, k \in Key : n = Len(log) + 1 =>
         (Reopens(n, k)' <=> k \in e.evicted \/ (Owner(e) = k /\ e.took))
  BY <1>1, Zenon DEF Reopens
<1> QED BY <1>1, <1>2, <1>3, Zenon

\* What a step does to the bdSeq and the mark of the session of k.
LEMMA ViewStep ==
    ASSUME TypeOK, NEW e, StepOf(e), NEW k \in Key
    PROVE  /\ ViewIn(sessions', k).bdSeq
                = IF Owner(e) = k /\ e.took THEN e.packet.bdSeq ELSE Base(e, k).bdSeq
           /\ ViewIn(sessions', k).gap
                <=> IF Owner(e) = k /\ e.took THEN FALSE
                    ELSE Base(e, k).gap \/ (Owner(e) = k /\ e.gap)
           /\ e.took => e.packet.kind \in Births /\ ~e.gap
<1> DEFINE base == Base(e, k)
           after == ViewIn(sessions', k)
<1>1. base \in Session
  BY ViewType, Zenon
<1>2. Owner(e) = SessionKey(e.packet) /\ e \in Logged /\ e.took \in BOOLEAN /\ e.gap \in BOOLEAN
  BY OwnerIsKey, Zenon DEF StepOf, Logged
<1>3. e.took => e.packet.kind \in Births /\ ~e.gap
  BY Zenon DEF StepOf, Effect, Sessional
<1>4. CASE Owner(e) # k \/ e.packet.kind \notin Sessional
  <2>1. Same(after, base) /\ (Owner(e) = k => ~e.took /\ ~e.gap)
    BY <1>2, <1>4, Zenon DEF StepOf
  <2> QED BY <1>2, <1>3, <2>1, Zenon DEF Same
<1>5. CASE Owner(e) = k /\ e.packet.kind \in Sessional
  <2>1. Effect(e, base, after)
    BY <1>2, <1>5, Zenon DEF StepOf
  <2> HIDE DEF base, after
  <2>2. ASSUME e.packet.kind \in Births
        PROVE  /\ after.bdSeq = IF e.took THEN e.packet.bdSeq ELSE base.bdSeq
               /\ after.gap = IF e.took THEN FALSE ELSE base.gap
               /\ ~e.gap
    BY <1>1, <2>1, <2>2, Zenon DEF Effect, Same, Born, Session
  <2>3. ASSUME e.packet.kind \in Datas
        PROVE  /\ after.bdSeq = base.bdSeq
               /\ after.gap <=> base.gap \/ e.gap
               /\ ~e.took
    BY <1>1, <2>1, <2>3, Zenon DEF Effect, Same, Updated, Session
  <2>4. ASSUME e.packet.kind \in Deaths
        PROVE  after.bdSeq = base.bdSeq /\ after.gap = base.gap /\ ~e.took /\ ~e.gap
    BY <1>1, <2>1, <2>4, Zenon DEF Effect, Same, Dead, Session
  <2>5. /\ after.bdSeq = IF e.took THEN e.packet.bdSeq ELSE base.bdSeq
        /\ after.gap <=> IF e.took THEN FALSE ELSE base.gap \/ e.gap
    BY <1>2, <1>5, <2>2, <2>3, <2>4, Zenon DEF Sessional
  <2> QED BY <1>3, <1>5, <2>5, Zenon DEF base, after
<1> QED BY <1>4, <1>5, Zenon

-----------------------------------------------------------------------------
(* Stale BIRTHs. *)

\* The BIRTHs that took effect in the session that k has now: at most one.
Current(k) ==
    {j \in 1 .. Len(log) : /\ Owner(log[j]) = k /\ log[j].took
                           /\ \A l \in j + 1 .. Len(log) : ~Reopens(l, k)}

\* The table knows the bdSeq of that BIRTH.
BirthKnown ==
    \A k \in Key :
        /\ \A j \in Current(k) : ViewIn(sessions, k).bdSeq = log[j].packet.bdSeq
        /\ Current(k) = {} => ViewIn(sessions, k).bdSeq = None

\* A step leaves the current BIRTH, replaces it, or drops it with the session.
LEMMA CurrentStep ==
    ASSUME TypeOK, NEW e \in Logged, log' = Append(log, e), NEW k \in Key
    PROVE  Current(k)' = IF Owner(e) = k /\ e.took THEN {Len(log) + 1}
                         ELSE IF k \in e.evicted THEN {} ELSE Current(k)
<1> DEFINE n == Len(log) + 1
<1>1. /\ Len(log) \in Nat /\ n \in Nat /\ Len(log') = n /\ log'[n] = e
      /\ \A i \in 1 .. Len(log) : log'[i] = log[i] /\ (Reopens(i, k)' <=> Reopens(i, k))
  BY LogGrows
<1>2. PICK m \in Nat : m = n
  BY <1>1, Zenon
<1>3. Reopens(m, k)' <=> k \in e.evicted \/ (Owner(e) = k /\ e.took)
  BY <1>2, LogGrows, Zenon
<1>4. Current(k)' = {j \in 1 .. n : /\ Owner(log'[j]) = k /\ log'[j].took
                                    /\ \A l \in j + 1 .. n : ~Reopens(l, k)'}
  BY <1>1, Zenon DEF Current
<1> HIDE DEF n
<1>5. ASSUME NEW j \in 1 .. n
      PROVE  j \in Current(k)' <=>
                \/ j = n /\ Owner(e) = k /\ e.took
                \/ j \in Current(k) /\ ~(k \in e.evicted \/ (Owner(e) = k /\ e.took))
  <2>1. CASE j = n
    <3>1. j \in Current(k)' <=> Owner(e) = k /\ e.took
      BY <1>1, <1>4, <2>1
    <3>2. j \notin Current(k)
      BY <1>1, <2>1 DEF Current, n
    <3> QED BY <2>1, <3>1, <3>2, Zenon
  <2>2. CASE j # n
    <3>1. j \in 1 .. Len(log) /\ log'[j] = log[j]
      BY <1>1, <2>2 DEF n
    <3>2. (\A l \in j + 1 .. n : ~Reopens(l, k)')
             <=> (\A l \in j + 1 .. Len(log) : ~Reopens(l, k)) /\ ~Reopens(m, k)'
      BY <1>1, <1>2, <3>1 DEF n
    <3> QED BY <1>3, <1>4, <2>2, <3>1, <3>2, Zenon DEF Current
  <2> QED BY <2>1, <2>2, Zenon
<1>6. Current(k) \subseteq 1 .. n /\ Current(k)' \subseteq 1 .. n /\ n \in 1 .. n
  BY <1>1, <1>4 DEF Current, n
<1> QED BY <1>5, <1>6, Zenon DEF n

LEMMA BirthKnownStep ==
    ASSUME TypeOK, BirthKnown, NEW e, StepOf(e)
    PROVE  BirthKnown'
<1> DEFINE n == Len(log) + 1
<1>1. e \in Logged /\ log' = Append(log, e)
  BY Zenon DEF StepOf
<1>2. /\ log'[n] = e /\ \A i \in 1 .. Len(log) : log'[i] = log[i]
  BY <1>1, LogGrows, Zenon
<1>3. ASSUME NEW k \in Key
      PROVE  /\ \A j \in Current(k)' : ViewIn(sessions', k).bdSeq = log'[j].packet.bdSeq
             /\ Current(k)' = {} => ViewIn(sessions', k).bdSeq = None
  <2>1. ViewIn(sessions', k).bdSeq
           = IF Owner(e) = k /\ e.took THEN e.packet.bdSeq ELSE Base(e, k).bdSeq
    BY ViewStep
  <2>2. Current(k)' = IF Owner(e) = k /\ e.took THEN {n}
                      ELSE IF k \in e.evicted THEN {} ELSE Current(k)
    BY <1>1, CurrentStep, Zenon
  <2>3. Base(e, k).bdSeq = IF k \in e.evicted THEN None ELSE ViewIn(sessions, k).bdSeq
    BY Zenon DEF Base, Fresh
  <2>4. /\ \A j \in Current(k) : /\ ViewIn(sessions, k).bdSeq = log[j].packet.bdSeq
                                 /\ log'[j] = log[j]
        /\ Current(k) = {} => ViewIn(sessions, k).bdSeq = None
    BY <1>2, Zenon DEF BirthKnown, Current
  <2> HIDE DEF n
  <2> QED BY <1>2, <2>1, <2>2, <2>3, <2>4, Zenon
<1> QED BY <1>3, Zenon DEF BirthKnown

\* The properties are about the log; here they are for any log.
ReopensIn(lg, i, k) == k \in lg[i].evicted \/ (Owner(lg[i]) = k /\ lg[i].took)

OlderIn(lg, i, k) ==
    {j \in 1 .. i - 1 : /\ Owner(lg[j]) = k /\ lg[j].took
                        /\ \A l \in j + 1 .. i : k \notin lg[l].evicted
                        /\ \A l \in j + 1 .. i - 1 : ~ReopensIn(lg, l, k)}

StaleIn(lg, i) ==
    lg[i].packet.kind \in Births =>
        (lg[i].took <=>
            \A j \in OlderIn(lg, i, Owner(lg[i])) :
                \/ lg[i].packet.bdSeq = None
                \/ lg[j].packet.bdSeq = None
                \/ lg[i].packet.bdSeq >= lg[j].packet.bdSeq)

\* What is said of an entry depends on the log up to it only.
LEMMA StaleOfPrefix ==
    ASSUME NEW lg, NEW lh, NEW i \in Nat, \A j \in 1 .. i : lg[j] = lh[j],
           i >= 1, StaleIn(lg, i)
    PROVE  StaleIn(lh, i)
<1>1. ASSUME NEW k PROVE OlderIn(lh, i, k) = OlderIn(lg, i, k)
  <2>1. ASSUME NEW j \in 1 .. i - 1
        PROVE  /\ lg[j] = lh[j]
               /\ \A l \in j + 1 .. i : lg[l] = lh[l]
               /\ \A l \in j + 1 .. i - 1 : lg[l] = lh[l]
    OBVIOUS
  <2> QED BY <2>1, Zenon DEF OlderIn, ReopensIn
<1>2. lg[i] = lh[i] /\ \A k : \A j \in OlderIn(lg, i, k) : lg[j] = lh[j]
  BY DEF OlderIn
<1> QED BY <1>1, <1>2 DEF StaleIn

\* The entry just logged.
LEMMA StaleNow ==
    ASSUME TypeOK, BirthKnown, NEW e, StepOf(e), NEW n \in Nat, n = Len(log) + 1
    PROVE  StaleIn(log', n)
<1> DEFINE k == Owner(e)
           older == OlderIn(log', n, k)
<1>1. e \in Logged /\ log' = Append(log, e)
  BY Zenon DEF StepOf
<1>2. /\ Len(log) \in Nat /\ log'[n] = e
      /\ \A i \in 1 .. Len(log) : log'[i] = log[i]
  BY <1>1, LogGrows, Zenon
<1>3. k \in Key /\ k = SessionKey(e.packet)
  BY <1>1, OwnerIsKey, Zenon
<1> HIDE DEF k
<1>4. ASSUME NEW j \in 1 .. Len(log)
      PROVE  j \in older <=> j \in Current(k) /\ k \notin e.evicted
  <2>1. \A l \in j .. Len(log) : log'[l] = log[l]
    BY <1>2
  <2>2. (\A l \in j + 1 .. n : k \notin log'[l].evicted)
           <=> (\A l \in j + 1 .. Len(log) : k \notin log[l].evicted) /\ k \notin e.evicted
    BY <1>2, <2>1
  <2>3. (\A l \in j + 1 .. n - 1 : ~ReopensIn(log', l, k))
           <=> (\A l \in j + 1 .. Len(log) : ~Reopens(l, k))
    BY <1>2, <2>1 DEF ReopensIn, Reopens
  <2>4. log'[j] = log[j]
    BY <1>2, Zenon
  <2>5. j \in older <=> /\ Owner(log[j]) = k /\ log[j].took
                        /\ \A l \in j + 1 .. Len(log) : k \notin log[l].evicted
                        /\ k \notin e.evicted
                        /\ \A l \in j + 1 .. Len(log) : ~Reopens(l, k)
    BY <1>2, <2>2, <2>3, <2>4 DEF OlderIn
  <2> QED BY <2>5, Zenon DEF Current, Reopens
<1>5. older \subseteq 1 .. Len(log) /\ Current(k) \subseteq 1 .. Len(log)
  BY <1>2 DEF OlderIn, Current
<1>6. older = IF k \in e.evicted THEN {} ELSE Current(k)
  BY <1>4, <1>5, Zenon
<1>7. e.packet.kind \in Births => e.took = Supersedes(Base(e, k), e.packet.bdSeq)
  BY <1>3, Zenon DEF StepOf, Effect, Sessional
<1>8. Base(e, k).bdSeq = IF k \in e.evicted THEN None ELSE ViewIn(sessions, k).bdSeq
  BY Zenon DEF Base, Fresh
<1>9. /\ \A j \in Current(k) : ViewIn(sessions, k).bdSeq = log'[j].packet.bdSeq
      /\ Current(k) = {} => ViewIn(sessions, k).bdSeq = None
  BY <1>2, <1>3, <1>5 DEF BirthKnown
<1> HIDE DEF older
<1>10. e.packet.kind \in Births =>
          (e.took <=> \A j \in older : \/ e.packet.bdSeq = None
                                       \/ log'[j].packet.bdSeq = None
                                       \/ e.packet.bdSeq >= log'[j].packet.bdSeq)
  BY <1>6, <1>7, <1>8, <1>9, Zenon DEF Supersedes
<1> QED BY <1>2, <1>10, Zenon DEF StaleIn, older, k

\* A BIRTH that is older than the BIRTH in effect is ignored and a newer one
\* takes effect, for any packets, evictions and repetitions.
THEOREM StaleBirthsAreDropped == Spec => []StaleBirthsDropped
<1> DEFINE Inv == BirthKnown /\ \A i \in 1 .. Len(log) : StaleIn(log, i)
<1>1. Init => Inv
  <2>1. Init => Len(log) = 0 /\ \A k : ViewIn(sessions, k) = Fresh
    BY Zenon DEF Init, ViewIn, Empty
  <2> QED BY <2>1 DEF BirthKnown, Current, Fresh
<1>2. TypeOK /\ Inv /\ [Next]_vars => Inv'
  <2>1. ASSUME TypeOK, Inv, Next PROVE Inv'
    <3>1. PICK e : StepOf(e)
      BY <2>1, NextStep, Zenon
    <3>2. BirthKnown'
      BY <2>1, <3>1, BirthKnownStep, ZenonT(30)
    <3>3. /\ Len(log) \in Nat /\ Len(log') = Len(log) + 1
          /\ \A i \in 1 .. Len(log) : log'[i] = log[i]
      BY <2>1, <3>1, LogGrows, Zenon DEF StepOf
    <3>4. ASSUME NEW i \in 1 .. Len(log') PROVE StaleIn(log', i)
      <4>1. CASE i = Len(log) + 1
        BY <2>1, <3>1, <3>3, <4>1, StaleNow
      <4>2. CASE i # Len(log) + 1
        <5>1. i \in Nat /\ i >= 1 /\ i \in 1 .. Len(log)
          BY <3>3, <4>2
        <5>2. \A j \in 1 .. i : log[j] = log'[j]
          BY <3>3, <5>1
        <5>3. StaleIn(log, i)
          BY <2>1, <5>1, Zenon
        <5> QED BY <5>1, <5>2, <5>3, StaleOfPrefix, Zenon
      <4> QED BY <4>1, <4>2, Zenon
    <3> QED BY <3>2, <3>4, Zenon
  <2>2. Inv /\ UNCHANGED vars => Inv'
    BY DEF vars, BirthKnown, Current, Reopens
  <2> QED BY <2>1, <2>2, Zenon
<1>3. TypeOK /\ Inv => StaleBirthsDropped
  <2> SUFFICES ASSUME TypeOK, Inv, NEW i \in 1 .. Len(log), log[i].packet.kind \in Births
               PROVE  /\ log[i].took => \A j \in InEffect(i) : NotOlder(i, j)
                      /\ (\A j \in InEffect(i) : Newer(i, j)) => log[i].took
    BY Zenon DEF StaleBirthsDropped
  <2>1. InEffect(i) = OlderIn(log, i, Owner(log[i]))
    BY Zenon DEF InEffect, OlderIn, Reopens, ReopensIn
  <2>2. log[i].took <=> \A j \in InEffect(i) : NotOlder(i, j)
    BY <2>1, Zenon DEF StaleIn, NotOlder
  <2>3. ASSUME NEW j \in InEffect(i), Newer(i, j) PROVE NotOlder(i, j)
    <3>1. j \in 1 .. Len(log)
      <4>1. j \in 1 .. i - 1
        BY Zenon DEF InEffect
      <4>2. Len(log) \in Nat
        BY DEF TypeOK
      <4> QED BY <4>1, <4>2
    <3>2. \A n \in 1 .. Len(log) : log[n].packet \in Packets
      <4>1. log \in Seq(Logged)
        BY Zenon DEF TypeOK
      <4>2. \A n \in 1 .. Len(log) : log[n] \in Logged
        BY <4>1
      <4> QED BY <4>2, Zenon DEF Logged
    <3>3. \A p \in Packets : p.bdSeq \in Nat \cup {None}
      BY PacketAssumption, Zenon DEF Packet
    <3>4. ASSUME NEW m \in Nat, NEW n \in Nat, m > n PROVE m >= n
      BY <3>4
    <3> QED BY <2>3, <3>1, <3>2, <3>3, <3>4, Zenon DEF Newer, NotOlder
  <2> QED BY <2>2, <2>3, Zenon
<1> QED BY <1>1, <1>2, <1>3, TypeCorrect, PTL DEF Spec

-----------------------------------------------------------------------------
(* Gaps. *)

\* The entries since the session of k was last opened that raised the anomaly.
GapsIn(lg, i, k) ==
    {j \in 1 .. i : /\ Owner(lg[j]) = k /\ lg[j].gap
                    /\ \A l \in j + 1 .. i : ~ReopensIn(lg, l, k)}

\* The table knows whether there is one.
GapKnown ==
    \A k \in Key : ViewIn(sessions, k).gap <=> GapsIn(log, Len(log), k) # {}

GapOnceIn(lg, i) ==
    LET since == GapsIn(lg, i, Owner(lg[i]))
    IN  /\ lg[i].gap => since = {i}
        /\ lg[i].packet.kind \in Datas =>
              \A m \in DOMAIN lg[i].packet.metrics :
                  lg[i].readings[m] = None /\ lg[i].packet.metrics[m].alias # None
                      => since # {}

LEMMA GapOfPrefix ==
    ASSUME NEW lg, NEW lh, NEW i \in Nat, \A j \in 1 .. i : lg[j] = lh[j]
    PROVE  /\ \A k : GapsIn(lh, i, k) = GapsIn(lg, i, k)
           /\ i >= 1 /\ GapOnceIn(lg, i) => GapOnceIn(lh, i)
<1>1. ASSUME NEW k PROVE GapsIn(lh, i, k) = GapsIn(lg, i, k)
  <2>1. ASSUME NEW j \in 1 .. i
        PROVE  lg[j] = lh[j] /\ \A l \in j + 1 .. i : lg[l] = lh[l]
    OBVIOUS
  <2> QED BY <2>1, Zenon DEF GapsIn, ReopensIn
<1>2. i >= 1 => lg[i] = lh[i]
  OBVIOUS
<1> QED BY <1>1, <1>2, Zenon DEF GapOnceIn

LEMMA GapsStep ==
    ASSUME TypeOK, NEW e \in Logged, log' = Append(log, e), NEW k \in Key,
           NEW n \in Nat, n = Len(log) + 1
    PROVE  GapsIn(log', n, k)
              = (IF k \in e.evicted \/ (Owner(e) = k /\ e.took) THEN {}
                 ELSE GapsIn(log, Len(log), k))
                \cup (IF Owner(e) = k /\ e.gap THEN {n} ELSE {})
<1>1. /\ Len(log) \in Nat /\ log'[n] = e
      /\ \A i \in 1 .. Len(log) : log'[i] = log[i]
  BY LogGrows, Zenon
<1>2. ReopensIn(log', n, k) <=> k \in e.evicted \/ (Owner(e) = k /\ e.took)
  BY <1>1, Zenon DEF ReopensIn
<1>3. ASSUME NEW j \in 1 .. Len(log)
      PROVE  j \in GapsIn(log', n, k) <=>
                j \in GapsIn(log, Len(log), k) /\ ~ReopensIn(log', n, k)
  <2>1. \A l \in j .. Len(log) : log'[l] = log[l]
    BY <1>1
  <2>2. (\A l \in j + 1 .. n : ~ReopensIn(log', l, k))
           <=> (\A l \in j + 1 .. Len(log) : ~ReopensIn(log', l, k)) /\ ~ReopensIn(log', n, k)
    BY <1>1
  <2>3. (\A l \in j + 1 .. Len(log) : ~ReopensIn(log', l, k))
           <=> (\A l \in j + 1 .. Len(log) : ~ReopensIn(log, l, k))
    BY <1>1, <2>1 DEF ReopensIn
  <2> QED BY <1>1, <2>1, <2>2, <2>3 DEF GapsIn
<1>4. n \in GapsIn(log', n, k) <=> Owner(e) = k /\ e.gap
  BY <1>1 DEF GapsIn
<1>5. /\ GapsIn(log', n, k) \subseteq 1 .. n
      /\ GapsIn(log, Len(log), k) \subseteq 1 .. Len(log)
      /\ \A j \in 1 .. n : j = n \/ j \in 1 .. Len(log)
      /\ n \notin 1 .. Len(log)
  BY <1>1 DEF GapsIn
<1> QED BY <1>2, <1>3, <1>4, <1>5, Zenon

LEMMA GapKnownStep ==
    ASSUME TypeOK, GapKnown, NEW e, StepOf(e)
    PROVE  GapKnown'
<1>1. e \in Logged /\ log' = Append(log, e)
  BY Zenon DEF StepOf
<1>2. PICK n \in Nat : n = Len(log) + 1 /\ Len(log') = n
  BY <1>1, LogGrows
<1>3. ASSUME NEW k \in Key
      PROVE  ViewIn(sessions', k).gap <=> GapsIn(log', n, k) # {}
  <2>1. /\ ViewIn(sessions', k).gap
              <=> IF Owner(e) = k /\ e.took THEN FALSE
                  ELSE Base(e, k).gap \/ (Owner(e) = k /\ e.gap)
        /\ e.took => ~e.gap
    BY ViewStep, Zenon
  <2>2. GapsIn(log', n, k)
           = (IF k \in e.evicted \/ (Owner(e) = k /\ e.took) THEN {}
              ELSE GapsIn(log, Len(log), k))
             \cup (IF Owner(e) = k /\ e.gap THEN {n} ELSE {})
    BY <1>1, <1>2, GapsStep, Zenon
  <2>3. Base(e, k).gap = IF k \in e.evicted THEN FALSE ELSE ViewIn(sessions, k).gap
    BY Zenon DEF Base, Fresh
  <2>4. ViewIn(sessions, k).gap <=> GapsIn(log, Len(log), k) # {}
    BY Zenon DEF GapKnown
  <2> QED BY <2>1, <2>2, <2>3, <2>4, Zenon
<1> QED BY <1>2, <1>3, Zenon DEF GapKnown

\* A reading without a name is that of an alias the session does not know.
LEMMA NamelessIsUnresolvable ==
    ASSUME NEW session \in Session, NEW packet \in Packets,
           NEW m \in DOMAIN packet.metrics,
           Readings(session.aliases, packet.metrics)[m] = None,
           packet.metrics[m].alias # None
    PROVE  AnyUnresolvable(session, packet)
<1> DEFINE metrics == packet.metrics
           aliases == session.aliases
           alias == metrics[m].alias
           bound == BindAll(aliases, SubSeq(metrics, 1, m))
<1>1. metrics \in Seq(Metric) /\ aliases \in AliasTable
  BY HandlersType, Zenon
<1>2. metrics[m].name = None /\ Resolve(bound, alias) = None
  BY Zenon DEF Readings
<1>3. bound \in AliasTable
  <2>1. SubSeq(metrics, 1, m) \in Seq(Metric)
    BY <1>1
  <2> QED BY <1>1, <2>1, BindAllType, Zenon
<1>4. alias \notin DOMAIN bound
  <2> HIDE DEF bound, alias
  <2> QED BY <1>2, <1>3, PacketAssumption DEF Resolve, AliasTable
<1>5. alias \notin DOMAIN aliases
  BY <1>4, Zenon DEF BindAll
<1>6. Resolve(aliases, alias) = None
  BY <1>5, Zenon DEF Resolve
<1> QED BY <1>2, <1>6, Zenon DEF AnyUnresolvable

LEMMA GapNow ==
    ASSUME TypeOK, GapKnown, NEW e, StepOf(e), NEW n \in Nat, n = Len(log) + 1
    PROVE  GapOnceIn(log', n)
<1> DEFINE k == Owner(e)
           since == GapsIn(log', n, k)
           base == Base(e, k)
<1>1. e \in Logged /\ log' = Append(log, e)
  BY Zenon DEF StepOf
<1>2. log'[n] = e
  BY <1>1, LogGrows, Zenon
<1>3. k \in Key /\ k = SessionKey(e.packet) /\ e.packet \in Packets
  BY <1>1, OwnerIsKey, Zenon DEF Logged
<1>4. base \in Session
  BY ViewType, Zenon
<1>5. e.packet.kind \in Datas =>
         /\ ~e.took
         /\ e.gap = (AnyUnresolvable(base, e.packet) /\ ~base.gap)
         /\ e.readings = Readings(base.aliases, e.packet.metrics)
  BY <1>3, Zenon DEF StepOf, Effect, Sessional
<1>6. e.gap => e.packet.kind \in Datas
  BY <1>3, Zenon DEF StepOf, Effect, Sessional
<1> HIDE DEF k
<1>7. since = (IF k \in e.evicted \/ e.took THEN {} ELSE GapsIn(log, Len(log), k))
              \cup (IF e.gap THEN {n} ELSE {})
  BY <1>1, <1>3, GapsStep, Zenon DEF k
<1>8. base.gap <=> k \notin e.evicted /\ GapsIn(log, Len(log), k) # {}
  BY <1>3, Zenon DEF Base, Fresh, GapKnown
<1> HIDE DEF since
<1>9. e.gap => since = {n}
  BY <1>5, <1>6, <1>7, <1>8, Zenon
<1>10. ASSUME e.packet.kind \in Datas, NEW m \in DOMAIN e.packet.metrics,
              e.readings[m] = None, e.packet.metrics[m].alias # None
       PROVE  since # {}
  <2>1. AnyUnresolvable(base, e.packet)
    BY <1>3, <1>4, <1>5, <1>10, NamelessIsUnresolvable, ZenonT(30)
  <2> HIDE DEF base
  <2> QED BY <1>5, <1>7, <1>8, <1>10, <2>1, Zenon
<1> QED BY <1>2, <1>9, <1>10, Zenon DEF GapOnceIn, since, k

\* The anomaly that asks for a rebirth is raised once in the life of a session, and
\* no nameless reading goes without it.
THEOREM GapsAreAnnouncedOnce == Spec => []GapOncePerEpoch
<1> DEFINE Inv == GapKnown /\ \A i \in 1 .. Len(log) : GapOnceIn(log, i)
<1>1. Init => Inv
  <2>1. Init => Len(log) = 0 /\ \A k : ViewIn(sessions, k) = Fresh
    BY Zenon DEF Init, ViewIn, Empty
  <2> QED BY <2>1 DEF GapKnown, GapsIn, Fresh
<1>2. TypeOK /\ Inv /\ [Next]_vars => Inv'
  <2>1. ASSUME TypeOK, Inv, Next PROVE Inv'
    <3>1. PICK e : StepOf(e)
      BY <2>1, NextStep, Zenon
    <3>2. GapKnown'
      BY <2>1, <3>1, GapKnownStep, Zenon
    <3>3. /\ Len(log) \in Nat /\ Len(log') = Len(log) + 1
          /\ \A i \in 1 .. Len(log) : log'[i] = log[i]
      BY <2>1, <3>1, LogGrows, Zenon DEF StepOf
    <3>4. ASSUME NEW i \in 1 .. Len(log') PROVE GapOnceIn(log', i)
      <4>1. CASE i = Len(log) + 1
        BY <2>1, <3>1, <3>3, <4>1, GapNow
      <4>2. CASE i # Len(log) + 1
        <5>1. i \in Nat /\ i >= 1 /\ i \in 1 .. Len(log)
          BY <3>3, <4>2
        <5>2. \A j \in 1 .. i : log[j] = log'[j]
          BY <3>3, <5>1
        <5>3. GapOnceIn(log, i)
          BY <2>1, <5>1, Zenon
        <5> QED BY <5>1, <5>2, <5>3, GapOfPrefix, ZenonT(30)
      <4> QED BY <4>1, <4>2, Zenon
    <3> QED BY <3>2, <3>4, Zenon
  <2>2. Inv /\ UNCHANGED vars => Inv'
    BY Zenon DEF vars, GapKnown
  <2> QED BY <2>1, <2>2, Zenon
<1>3. Inv => GapOncePerEpoch
  BY Zenon DEF GapOncePerEpoch, GapOnceIn, GapsIn, Reopens, ReopensIn
<1> QED BY <1>1, <1>2, <1>3, TypeCorrect, PTL DEF Spec

-----------------------------------------------------------------------------
(* Names. *)

NamesIn(lg, i, k) == Owner(lg[i]) = k /\ (lg[i].took \/ lg[i].packet.kind \in Datas)

ForgetsIn(lg, i, k) ==
    ReopensIn(lg, i, k) \/ (Owner(lg[i]) = k /\ lg[i].packet.kind \in Deaths)

\* Metric x of an entry gives alias a name.
Gives(entry, x, alias) ==
    /\ entry.packet.metrics[x].alias = alias
    /\ entry.packet.metrics[x].name # None

PlacesIn(lg, i) == UNION {{j} \X DOMAIN lg[j].packet.metrics : j \in 1 .. i}

\* The places up to entry i where alias was given a name not forgotten since.
GivenIn(lg, i, k, alias) ==
    {p \in PlacesIn(lg, i) : /\ NamesIn(lg, p[1], k)
                             /\ Gives(lg[p[1]], p[2], alias)
                             /\ \A l \in p[1] + 1 .. i : ~ForgetsIn(lg, l, k)}

\* The name given at the last of these places, None if there is none.
LastOf(S, lg, name) ==
    \/ S = {} /\ name = None
    \/ \E p \in S : /\ \A q \in S : q[1] < p[1] \/ (q[1] = p[1] /\ q[2] <= p[2])
                    /\ name = lg[p[1]].packet.metrics[p[2]].name

\* The table knows it.
NameKnown ==
    \A k \in Key, alias \in Alias :
        LastOf(GivenIn(log, Len(log), k, alias), log,
               Resolve(ViewIn(sessions, k).aliases, alias))

LEMMA GivenMember ==
    ASSUME NEW lg, NEW i \in Nat, NEW k, NEW alias, NEW p
    PROVE  p \in GivenIn(lg, i, k, alias) <=>
              \E j \in 1 .. i : \E x \in DOMAIN lg[j].packet.metrics :
                 /\ p = <<j, x>>
                 /\ NamesIn(lg, j, k) /\ Gives(lg[j], x, alias)
                 /\ \A l \in j + 1 .. i : ~ForgetsIn(lg, l, k)
<1>1. p \in PlacesIn(lg, i) <=> \E j \in 1 .. i : \E x \in DOMAIN lg[j].packet.metrics :
                                   p = <<j, x>>
  BY DEF PlacesIn
<1> QED BY <1>1 DEF GivenIn

LEMMA GivenPair ==
    ASSUME NEW lg, NEW i \in Nat, NEW k, NEW alias, NEW j \in 1 .. i, NEW x
    PROVE  <<j, x>> \in GivenIn(lg, i, k, alias) <=>
              /\ x \in DOMAIN lg[j].packet.metrics
              /\ NamesIn(lg, j, k) /\ Gives(lg[j], x, alias)
              /\ \A l \in j + 1 .. i : ~ForgetsIn(lg, l, k)
BY GivenMember

LEMMA GivenShape ==
    ASSUME NEW lg, NEW i \in Nat, NEW k, NEW alias, NEW p \in GivenIn(lg, i, k, alias)
    PROVE  \E j \in 1 .. i : \E x : p = <<j, x>> /\ x \in DOMAIN lg[j].packet.metrics
<1>1. p \in PlacesIn(lg, i)
  BY Zenon DEF GivenIn
<1>2. PICK j \in 1 .. i : p \in {j} \X DOMAIN lg[j].packet.metrics
  BY <1>1, Zenon DEF PlacesIn
<1>3. p = <<j, p[2]>> /\ p[2] \in DOMAIN lg[j].packet.metrics
  BY <1>2
<1> QED BY <1>3, Zenon

\* Entry e of the log names aliases of k.
Own(e, n, k, alias) ==
    {<<n, x>> : x \in {y \in DOMAIN e.packet.metrics :
                          /\ Owner(e) = k /\ (e.took \/ e.packet.kind \in Datas)
                          /\ Gives(e, y, alias)}}

LEMMA GivenStep ==
    ASSUME TypeOK, NEW e \in Logged, log' = Append(log, e), NEW k \in Key, NEW alias,
           NEW n \in Nat, n = Len(log) + 1
    PROVE  GivenIn(log', n, k, alias)
              = (IF ForgetsIn(log', n, k) THEN {} ELSE GivenIn(log, Len(log), k, alias))
                \cup Own(e, n, k, alias)
<1>1. /\ Len(log) \in Nat /\ log'[n] = e
      /\ \A i \in 1 .. Len(log) : log'[i] = log[i]
  BY LogGrows, Zenon
<1> DEFINE Old == GivenIn(log, Len(log), k, alias)
           New == GivenIn(log', n, k, alias)
<1>2. ASSUME NEW j \in 1 .. Len(log), NEW x
      PROVE  <<j, x>> \in New <=> <<j, x>> \in Old /\ ~ForgetsIn(log', n, k)
  <2>1. \A l \in j .. Len(log) : log'[l] = log[l]
    BY <1>1
  <2>2. (\A l \in j + 1 .. n : ~ForgetsIn(log', l, k))
           <=> (\A l \in j + 1 .. Len(log) : ~ForgetsIn(log', l, k)) /\ ~ForgetsIn(log', n, k)
    BY <1>1
  <2>3. (\A l \in j + 1 .. Len(log) : ~ForgetsIn(log', l, k))
           <=> (\A l \in j + 1 .. Len(log) : ~ForgetsIn(log, l, k))
    BY <1>1, <2>1 DEF ForgetsIn, ReopensIn
  <2>4. log'[j] = log[j] /\ j \in 1 .. n
    BY <1>1, SMTT(30)
  <2>5. <<j, x>> \in New <=> /\ x \in DOMAIN log[j].packet.metrics
                             /\ NamesIn(log, j, k) /\ Gives(log[j], x, alias)
                             /\ \A l \in j + 1 .. n : ~ForgetsIn(log', l, k)
    <3>1. <<j, x>> \in New <=> /\ x \in DOMAIN log'[j].packet.metrics
                               /\ NamesIn(log', j, k) /\ Gives(log'[j], x, alias)
                               /\ \A l \in j + 1 .. n : ~ForgetsIn(log', l, k)
      BY <2>4, GivenPair, Zenon
    <3> HIDE DEF New
    <3> QED BY <2>4, <3>1, Zenon DEF NamesIn
  <2>6. <<j, x>> \in Old <=> /\ x \in DOMAIN log[j].packet.metrics
                             /\ NamesIn(log, j, k) /\ Gives(log[j], x, alias)
                             /\ \A l \in j + 1 .. Len(log) : ~ForgetsIn(log, l, k)
    BY <1>1, GivenMember, SMTT(30)
  <2> QED BY <2>2, <2>3, <2>5, <2>6, ZenonT(30)
<1>3. ASSUME NEW x
      PROVE  <<n, x>> \in New <=> <<n, x>> \in Own(e, n, k, alias)
  <2>1. n \in 1 .. n /\ n + 1 .. n = {}
    BY <1>1
  <2>2. <<n, x>> \in New <=> /\ x \in DOMAIN e.packet.metrics
                             /\ NamesIn(log', n, k) /\ Gives(e, x, alias)
    <3>1. <<n, x>> \in New <=> /\ x \in DOMAIN log'[n].packet.metrics
                               /\ NamesIn(log', n, k) /\ Gives(log'[n], x, alias)
                               /\ \A l \in n + 1 .. n : ~ForgetsIn(log', l, k)
      BY <2>1, GivenPair, Zenon
    <3> HIDE DEF New
    <3> QED BY <1>1, <2>1, <3>1, Zenon
  <2>3. NamesIn(log', n, k) <=> Owner(e) = k /\ (e.took \/ e.packet.kind \in Datas)
    BY <1>1, Zenon DEF NamesIn
  <2> QED BY <2>2, <2>3, Zenon DEF Own
<1>4. ASSUME NEW p \in New PROVE \E j \in 1 .. n : \E x : p = <<j, x>>
  <2>1. p \in PlacesIn(log', n)
    BY Zenon DEF GivenIn
  <2>2. PICK j \in 1 .. n : p \in {j} \X DOMAIN log'[j].packet.metrics
    BY <2>1, Zenon DEF PlacesIn
  <2>3. p = <<j, p[2]>>
    BY <2>2
  <2> QED BY <2>3, Zenon
<1>5. ASSUME NEW p \in Old PROVE \E j \in 1 .. Len(log) : \E x : p = <<j, x>>
  BY <1>1, GivenMember
<1>6. ASSUME NEW p \in Own(e, n, k, alias) PROVE \E x : p = <<n, x>>
  BY Zenon DEF Own
<1>7. \A j \in 1 .. n : j = n \/ j \in 1 .. Len(log)
  BY <1>1
<1>8. ASSUME NEW j \in 1 .. Len(log), NEW x PROVE <<j, x>> \notin Own(e, n, k, alias)
  BY <1>1, <1>6
<1>9. ASSUME NEW x PROVE <<n, x>> \notin Old
  BY <1>1, <1>5
<1> HIDE DEF Old, New
<1>10. ASSUME NEW p
       PROVE  p \in New <=> \/ p \in Old /\ ~ForgetsIn(log', n, k)
                            \/ p \in Own(e, n, k, alias)
  <2>1. CASE \E j \in 1 .. Len(log) : \E x : p = <<j, x>>
    BY <1>2, <1>8, <2>1, Zenon
  <2>2. CASE \E x : p = <<n, x>>
    BY <1>3, <1>9, <2>2, Zenon
  <2> QED BY <1>4, <1>5, <1>6, <1>7, <2>1, <2>2
<1> QED BY <1>10, Zenon DEF Old, New

\* What the last place says is the same in a longer log.
LEMMA LastOfKept ==
    ASSUME NEW n \in Nat, NEW lg, NEW lh, \A j \in 1 .. n - 1 : lg[j] = lh[j],
           NEW S, \A p \in S : \E j \in 1 .. n - 1 : \E x : p = <<j, x>>,
           NEW name, LastOf(S, lg, name)
    PROVE  LastOf(S, lh, name)
<1>1. CASE S = {} /\ name = None
  BY <1>1, Zenon DEF LastOf
<1>2. CASE \E p \in S : /\ \A q \in S : q[1] < p[1] \/ (q[1] = p[1] /\ q[2] <= p[2])
                        /\ name = lg[p[1]].packet.metrics[p[2]].name
  <2>1. PICK p \in S : /\ \A q \in S : q[1] < p[1] \/ (q[1] = p[1] /\ q[2] <= p[2])
                       /\ name = lg[p[1]].packet.metrics[p[2]].name
    BY <1>2, Zenon
  <2>2. p[1] \in 1 .. n - 1
    OBVIOUS
  <2>3. name = lh[p[1]].packet.metrics[p[2]].name
    BY <2>1, <2>2, Zenon
  <2> QED BY <2>1, <2>3, Zenon DEF LastOf
<1> QED BY <1>1, <1>2, Zenon DEF LastOf

\* Binding the metrics of entry n moves the last place to the last binder.
LEMMA LastOfBind ==
    ASSUME NEW n \in Nat, NEW lg, NEW lh, \A j \in 1 .. n - 1 : lg[j] = lh[j],
           NEW S, \A p \in S : \E j \in 1 .. n - 1 : \E x : p = <<j, x>>,
           NEW aliases \in AliasTable, NEW alias \in Alias,
           LastOf(S, lg, Resolve(aliases, alias)),
           NEW metrics \in Seq(Metric),
           \A x \in DOMAIN metrics : lh[n].packet.metrics[x] = metrics[x],
           NEW T, T = {<<n, x>> : x \in {y \in Binders(metrics) : metrics[y].alias = alias}}
    PROVE  LastOf(S \cup T, lh, Resolve(BindAll(aliases, metrics), alias))
<1> DEFINE B == {y \in Binders(metrics) : metrics[y].alias = alias}
           bound == {metrics[i].alias : i \in Binders(metrics)}
           name == Resolve(BindAll(aliases, metrics), alias)
<1>1. CASE B = {}
  <2>1. T = {} /\ S \cup T = S
    BY <1>1, Zenon
  <2>2. alias \notin bound
    BY <1>1, Zenon
  <2>3. name = Resolve(aliases, alias)
    BY <2>2, Zenon DEF Resolve, BindAll
  <2> HIDE DEF name
  <2>4. LastOf(S, lg, name)
    BY <2>3, Zenon
  <2>5. LastOf(S, lh, name)
    BY <2>4, LastOfKept, Zenon
  <2> QED BY <2>1, <2>5, Zenon DEF name
<1>2. CASE B # {}
  <2> DEFINE x == LastBinder(metrics, alias)
             p == <<n, x>>
  <2>1. x \in B /\ \A y \in B : y <= x
    BY <1>2, LastBinderBinds, Zenon
  <2>2. B \subseteq DOMAIN metrics /\ alias \in bound
    BY <1>2, Zenon DEF Binders
  <2>3. name = metrics[x].name
    BY <2>2, Zenon DEF Resolve, BindAll
  <2>4. lh[n].packet.metrics[x] = metrics[x]
    BY <2>1, <2>2, Zenon
  <2> HIDE DEF x, B, name
  <2>5. p \in T /\ p[1] = n /\ p[2] = x
    BY <2>1, Zenon DEF B
  <2>6. ASSUME NEW q \in S PROVE q[1] < n
    <3>1. PICK j \in 1 .. n - 1 : \E y : q = <<j, y>>
      BY Zenon
    <3> QED BY <3>1
  <2>7. ASSUME NEW q \in T PROVE q[1] = n /\ q[2] <= x
    <3>1. PICK y \in B : q = <<n, y>>
      BY Zenon DEF B
    <3> QED BY <2>1, <3>1, Zenon
  <2> HIDE DEF p
  <2>8. \A q \in S \cup T : q[1] < p[1] \/ (q[1] = p[1] /\ q[2] <= p[2])
    BY <2>5, <2>6, <2>7, Zenon
  <2>9. name = lh[p[1]].packet.metrics[p[2]].name
    BY <2>3, <2>4, <2>5, Zenon
  <2>10. LastOf(S \cup T, lh, name)
    BY <2>5, <2>8, <2>9, Zenon DEF LastOf
  <2> QED BY <2>10, Zenon DEF name
<1> QED BY <1>1, <1>2, Zenon

\* What a step does to the aliases of the session of k.
LEMMA AliasStep ==
    ASSUME TypeOK, NEW e, StepOf(e), NEW k \in Key
    PROVE  ViewIn(sessions', k).aliases
              = IF Owner(e) = k /\ e.took THEN BindAll(Empty, e.packet.metrics)
                ELSE IF Owner(e) = k /\ e.packet.kind \in Datas
                     THEN BindAll(Base(e, k).aliases, e.packet.metrics)
                ELSE IF Owner(e) = k /\ e.packet.kind \in Deaths THEN Empty
                ELSE Base(e, k).aliases
<1> DEFINE base == Base(e, k)
           after == ViewIn(sessions', k)
<1>1. base \in Session
  BY ViewType, Zenon
<1>2. Owner(e) = SessionKey(e.packet) /\ e.took \in BOOLEAN
  BY OwnerIsKey, Zenon DEF StepOf, Logged
<1>3. CASE Owner(e) # k \/ e.packet.kind \notin Sessional
  <2>1. Same(after, base) /\ (Owner(e) = k => ~e.took)
    BY <1>2, <1>3, Zenon DEF StepOf
  <2> QED BY <1>3, <2>1, Zenon DEF Same, Sessional
<1>4. CASE Owner(e) = k /\ e.packet.kind \in Sessional
  <2>1. Effect(e, base, after)
    BY <1>2, <1>4, Zenon DEF StepOf
  <2> HIDE DEF base, after
  <2>2. ASSUME e.packet.kind \in Births
        PROVE  /\ after.aliases = IF e.took THEN BindAll(Empty, e.packet.metrics)
                                  ELSE base.aliases
               /\ e.packet.kind \notin Datas /\ e.packet.kind \notin Deaths
    BY <1>1, <2>1, <2>2, Zenon DEF Effect, Same, Born, Session, Births, Datas, Deaths
  <2>3. ASSUME e.packet.kind \in Datas
        PROVE  after.aliases = BindAll(base.aliases, e.packet.metrics) /\ ~e.took
    BY <1>1, <2>1, <2>3, Zenon DEF Effect, Same, Updated, Session
  <2>4. ASSUME e.packet.kind \in Deaths
        PROVE  after.aliases = Empty /\ ~e.took /\ e.packet.kind \notin Datas
    BY <1>1, <2>1, <2>4, Zenon DEF Effect, Same, Dead, Session, Datas, Deaths
  <2>5. after.aliases = IF e.took THEN BindAll(Empty, e.packet.metrics)
                        ELSE IF e.packet.kind \in Datas
                             THEN BindAll(base.aliases, e.packet.metrics)
                        ELSE IF e.packet.kind \in Deaths THEN Empty
                        ELSE base.aliases
    BY <1>2, <1>4, <2>2, <2>3, <2>4, ZenonT(30) DEF Sessional
  <2> QED BY <1>4, <2>5, Zenon DEF base, after
<1> QED BY <1>3, <1>4, Zenon

\* The places that survive the evictions of entry e.
Survivors(e, k, alias) ==
    IF k \in e.evicted THEN {} ELSE GivenIn(log, Len(log), k, alias)

LEMMA SurvivorsKnown ==
    ASSUME TypeOK, NameKnown, NEW e, NEW k \in Key, NEW alias \in Alias
    PROVE  /\ LastOf(Survivors(e, k, alias), log, Resolve(Base(e, k).aliases, alias))
           /\ \A p \in Survivors(e, k, alias) :
                 \E j \in 1 .. Len(log) : \E x : p = <<j, x>>
<1>1. Len(log) \in Nat
  BY DEF TypeOK
<1>2. \A p \in GivenIn(log, Len(log), k, alias) : \E j \in 1 .. Len(log) : \E x : p = <<j, x>>
  BY <1>1, GivenShape
<1>3. CASE k \in e.evicted
  BY <1>3, Zenon DEF Survivors, Base, Fresh, Resolve, Empty, LastOf
<1>4. CASE k \notin e.evicted
  BY <1>2, <1>4, Zenon DEF Survivors, Base, NameKnown
<1> QED BY <1>3, <1>4, Zenon

\* The places of a message are those of the metrics it binds.
LEMMA OwnIsBound ==
    ASSUME NEW e \in Logged, NEW n, NEW k, NEW alias \in Alias
    PROVE  Own(e, n, k, alias)
              = IF Owner(e) = k /\ (e.took \/ e.packet.kind \in Datas)
                THEN {<<n, x>> : x \in {y \in Binders(e.packet.metrics) :
                                           e.packet.metrics[y].alias = alias}}
                ELSE {}
<1>1. alias # None
  BY PacketAssumption, Zenon
<1>2. ASSUME NEW y \in DOMAIN e.packet.metrics
      PROVE  Gives(e, y, alias)
                <=> y \in Binders(e.packet.metrics) /\ e.packet.metrics[y].alias = alias
  BY <1>1, Zenon DEF Gives, Binders, Binding
<1>3. Binders(e.packet.metrics) \subseteq DOMAIN e.packet.metrics
  BY Zenon DEF Binders
<1> QED BY <1>2, <1>3, Zenon DEF Own

LEMMA NameKnownStep ==
    ASSUME TypeOK, NameKnown, NEW e, StepOf(e)
    PROVE  NameKnown'
<1>1. e \in Logged /\ log' = Append(log, e)
  BY Zenon DEF StepOf
<1>2. PICK n \in Nat : n = Len(log) + 1 /\ Len(log') = n
  BY <1>1, LogGrows
<1>3. PICK lh : lh = log'
  BY Zenon
<1>4. /\ Len(log) = n - 1 /\ lh[n] = e
      /\ \A i \in 1 .. n - 1 : log[i] = lh[i]
  BY <1>1, <1>2, <1>3, LogGrows
<1>5. e.packet \in Packets /\ e.packet.metrics \in Seq(Metric) /\ e.took \in BOOLEAN
  BY <1>1, PacketAssumption, Zenon DEF Logged, Packet
<1>6. /\ e.packet.kind \in Datas => ~e.took
      /\ e.packet.kind \in Deaths => ~e.took /\ e.packet.kind \notin Datas
      /\ e.packet.kind \in Datas => e.packet.kind \notin Deaths
  BY Zenon DEF StepOf, Effect, Sessional, Datas, Deaths
<1>7. ASSUME NEW k \in Key, NEW alias \in Alias
      PROVE  LastOf(GivenIn(lh, n, k, alias), lh,
                    Resolve(ViewIn(sessions', k).aliases, alias))
  <2> DEFINE S == Survivors(e, k, alias)
             T == Own(e, n, k, alias)
             after == ViewIn(sessions', k).aliases
             base == Base(e, k).aliases
             B == {<<n, x>> : x \in {y \in Binders(e.packet.metrics) :
                                        e.packet.metrics[y].alias = alias}}
  <2>1. /\ LastOf(S, log, Resolve(base, alias))
        /\ \A p \in S : \E j \in 1 .. n - 1 : \E x : p = <<j, x>>
    BY <1>4, SurvivorsKnown
  <2>2. ForgetsIn(lh, n, k) <=> \/ k \in e.evicted
                                \/ Owner(e) = k /\ (e.took \/ e.packet.kind \in Deaths)
    BY <1>4, Zenon DEF ForgetsIn, ReopensIn
  <2>3. GivenIn(lh, n, k, alias)
           = (IF ForgetsIn(lh, n, k) THEN {} ELSE GivenIn(log, Len(log), k, alias)) \cup T
    BY <1>1, <1>2, <1>3, GivenStep, ZenonT(30)
  <2>4. T = IF Owner(e) = k /\ (e.took \/ e.packet.kind \in Datas) THEN B ELSE {}
    BY <1>1, OwnIsBound, Zenon
  <2>5. after = IF Owner(e) = k /\ e.took THEN BindAll(Empty, e.packet.metrics)
                ELSE IF Owner(e) = k /\ e.packet.kind \in Datas
                     THEN BindAll(base, e.packet.metrics)
                ELSE IF Owner(e) = k /\ e.packet.kind \in Deaths THEN Empty
                ELSE base
    BY AliasStep, Zenon
  <2>6. base \in AliasTable /\ Empty \in AliasTable
    BY ViewType, EmptyIsTable, Zenon DEF Session
  <2>7. LastOf({}, log, Resolve(Empty, alias)) /\ Resolve(Empty, alias) = None
    BY Zenon DEF LastOf, Resolve, Empty
  <2>8. \A x \in DOMAIN e.packet.metrics : lh[n].packet.metrics[x] = e.packet.metrics[x]
    BY <1>4, Zenon
  <2>9. S = IF k \in e.evicted THEN {} ELSE GivenIn(log, Len(log), k, alias)
    BY Zenon DEF Survivors
  <2> HIDE DEF S, T, after, base, B
  <2>10. CASE Owner(e) = k /\ e.took
    <3>1. GivenIn(lh, n, k, alias) = {} \cup B /\ after = BindAll(Empty, e.packet.metrics)
      BY <2>2, <2>3, <2>4, <2>5, <2>10, Zenon
    <3>2. LastOf({} \cup B, lh, Resolve(BindAll(Empty, e.packet.metrics), alias))
      BY <1>4, <1>5, <2>6, <2>7, <2>8, LastOfBind, Zenon DEF B
    <3> QED BY <3>1, <3>2, Zenon DEF after
  <2>11. CASE Owner(e) = k /\ e.packet.kind \in Datas
    <3>1. GivenIn(lh, n, k, alias) = S \cup B /\ after = BindAll(base, e.packet.metrics)
      BY <1>6, <2>2, <2>3, <2>4, <2>5, <2>9, <2>11, Zenon
    <3>2. LastOf(S \cup B, lh, Resolve(BindAll(base, e.packet.metrics), alias))
      BY <1>4, <1>5, <2>1, <2>6, <2>8, LastOfBind, Zenon DEF B
    <3> QED BY <3>1, <3>2, Zenon DEF after
  <2>12. CASE Owner(e) = k /\ e.packet.kind \in Deaths
    <3>1. GivenIn(lh, n, k, alias) = {} /\ after = Empty
      BY <1>6, <2>2, <2>3, <2>4, <2>5, <2>12, Zenon
    <3> QED BY <2>7, <3>1, Zenon DEF LastOf, after
  <2>13. CASE ~(Owner(e) = k /\ (e.took \/ e.packet.kind \in Datas \/ e.packet.kind \in Deaths))
    <3>1. GivenIn(lh, n, k, alias) = S /\ after = base
      BY <2>2, <2>3, <2>4, <2>5, <2>9, <2>13, Zenon
    <3>2. LastOf(S, lh, Resolve(base, alias))
      BY <1>4, <2>1, LastOfKept, ZenonT(30)
    <3> QED BY <3>1, <3>2, Zenon DEF after
  <2> QED BY <2>10, <2>11, <2>12, <2>13, Zenon
<1> QED BY <1>2, <1>3, <1>7, Zenon DEF NameKnown

BeforeIn(lg, i, m, k, alias) == {p \in GivenIn(lg, i, k, alias) : p[1] = i => p[2] < m}

ResolvesIn(lg, i) ==
    lg[i].packet.kind \in Datas =>
        \A m \in DOMAIN lg[i].packet.metrics :
            LET metric == lg[i].packet.metrics[m]
            IN  metric.name = None /\ metric.alias # None =>
                    LastOf(BeforeIn(lg, i, m, Owner(lg[i]), metric.alias), lg,
                           lg[i].readings[m])

LEMMA ResolvesOfPrefix ==
    ASSUME NEW lg, NEW lh, NEW i \in Nat, \A j \in 1 .. i : lg[j] = lh[j],
           i >= 1, ResolvesIn(lg, i)
    PROVE  ResolvesIn(lh, i)
<1>1. ASSUME NEW k, NEW alias PROVE GivenIn(lh, i, k, alias) = GivenIn(lg, i, k, alias)
  <2>1. ASSUME NEW j \in 1 .. i
        PROVE  /\ lg[j] = lh[j]
               /\ NamesIn(lg, j, k) <=> NamesIn(lh, j, k)
               /\ \A l \in j + 1 .. i : ForgetsIn(lg, l, k) <=> ForgetsIn(lh, l, k)
    <3>1. \A l \in j + 1 .. i : lg[l] = lh[l]
      OBVIOUS
    <3> QED BY <3>1, Zenon DEF NamesIn, ForgetsIn, ReopensIn
  <2>2. ASSUME NEW p
        PROVE  p \in GivenIn(lh, i, k, alias) <=> p \in GivenIn(lg, i, k, alias)
    BY <2>1, GivenMember
  <2> QED BY <2>2, Zenon
<1>2. lg[i] = lh[i]
  OBVIOUS
<1>3. ASSUME NEW m, NEW k, NEW alias, NEW name, LastOf(BeforeIn(lg, i, m, k, alias), lg, name)
      PROVE  LastOf(BeforeIn(lh, i, m, k, alias), lh, name)
  <2>1. BeforeIn(lh, i, m, k, alias) = BeforeIn(lg, i, m, k, alias)
    BY <1>1, Zenon DEF BeforeIn
  <2>2. \A p \in BeforeIn(lg, i, m, k, alias) : \E j \in 1 .. (i + 1) - 1 : \E x : p = <<j, x>>
    BY GivenShape DEF BeforeIn
  <2>3. \A j \in 1 .. (i + 1) - 1 : lg[j] = lh[j]
    OBVIOUS
  <2>4. LastOf(BeforeIn(lg, i, m, k, alias), lh, name)
    BY <1>3, <2>2, <2>3, LastOfKept
  <2> QED BY <2>1, <2>4, Zenon
<1> QED BY <1>2, <1>3, Zenon DEF ResolvesIn

\* The metrics pm bind to alias what the metrics of the whole message bind before m.
BindsBefore(pm, metrics, m, alias) ==
    /\ pm \in Seq(Metric)
    /\ DOMAIN pm \subseteq DOMAIN metrics
    /\ \A x \in DOMAIN pm : pm[x] = metrics[x]
    /\ \A y : y \in Binders(pm) /\ pm[y].alias = alias
                <=> y \in Binders(metrics) /\ metrics[y].alias = alias /\ y < m

\* So do those up to metric m when it has no name.
LEMMA BoundBefore ==
    ASSUME NEW metrics \in Seq(Metric), NEW m \in DOMAIN metrics, metrics[m].name = None,
           NEW alias
    PROVE  BindsBefore(SubSeq(metrics, 1, m), metrics, m, alias)
<1> DEFINE pm == SubSeq(metrics, 1, m)
<1>1. /\ pm \in Seq(Metric) /\ DOMAIN pm = 1 .. m
      /\ \A x \in 1 .. m : pm[x] = metrics[x]
      /\ DOMAIN metrics = 1 .. Len(metrics) /\ Len(metrics) \in Nat /\ m \in 1 .. Len(metrics)
  OBVIOUS
<1> HIDE DEF pm
<1>2. ASSUME NEW y
      PROVE  y \in Binders(pm) /\ pm[y].alias = alias
                <=> y \in Binders(metrics) /\ metrics[y].alias = alias /\ y < m
  <2>1. CASE y \in 1 .. m - 1
    <3>1. y \in DOMAIN pm /\ y \in DOMAIN metrics /\ pm[y] = metrics[y] /\ y < m
      BY <1>1, <2>1
    <3> QED BY <3>1, Zenon DEF Binders
  <2>2. CASE y = m
    <3>1. pm[y].name = None /\ ~(y < m)
      BY <1>1, <2>2
    <3> QED BY <3>1, Zenon DEF Binders, Binding
  <2>3. CASE y \notin 1 .. m
    <3>1. y \notin DOMAIN pm /\ ~(y \in DOMAIN metrics /\ y < m)
      BY <1>1, <2>3
    <3> QED BY <3>1, Zenon DEF Binders
  <2>4. y \in 1 .. m - 1 \/ y = m \/ y \notin 1 .. m
    BY <1>1
  <2> QED BY <2>1, <2>2, <2>3, <2>4, Zenon
<1>3. DOMAIN pm \subseteq DOMAIN metrics /\ \A x \in DOMAIN pm : pm[x] = metrics[x]
  BY <1>1
<1>4. BindsBefore(pm, metrics, m, alias)
  BY <1>1, <1>2, <1>3, Zenon DEF BindsBefore
<1> QED BY <1>4, Zenon DEF pm

\* The entry just logged.
LEMMA ResolvesNow ==
    ASSUME TypeOK, NameKnown, NEW e, StepOf(e), NEW n \in Nat, n = Len(log) + 1
    PROVE  ResolvesIn(log', n)
<1> DEFINE k == Owner(e)
           metrics == e.packet.metrics
           base == Base(e, k).aliases
<1>1. e \in Logged /\ log' = Append(log, e)
  BY Zenon DEF StepOf
<1>2. PICK lh : lh = log'
  BY Zenon
<1>3. /\ Len(log) = n - 1 /\ lh[n] = e
      /\ \A i \in 1 .. n - 1 : log[i] = lh[i]
  BY <1>1, <1>2, LogGrows, SMTT(30)
<1>4. k \in Key /\ k = SessionKey(e.packet) /\ metrics \in Seq(Metric)
  BY <1>1, OwnerIsKey, PacketAssumption, Zenon DEF Logged, Packet
<1>5. base \in AliasTable
  BY ViewType, Zenon DEF Session
<1>6. ASSUME e.packet.kind \in Datas, NEW m \in DOMAIN metrics,
             metrics[m].name = None, metrics[m].alias # None
      PROVE  LastOf(BeforeIn(lh, n, m, k, metrics[m].alias), lh, e.readings[m])
  <2> DEFINE alias == metrics[m].alias
             pm == SubSeq(metrics, 1, m)
             S == Survivors(e, k, alias)
             B == {<<n, x>> : x \in {y \in Binders(metrics) : metrics[y].alias = alias}}
             T == {<<n, x>> : x \in {y \in Binders(pm) : pm[y].alias = alias}}
  <2>1. alias \in Alias
    BY <1>4, <1>6, MetricType, Zenon
  <2>2. /\ ~e.took /\ e.packet.kind \notin Deaths
        /\ e.readings = Readings(base, metrics)
    BY <1>4, <1>6, Zenon DEF StepOf, Effect, Sessional, Datas, Deaths
  <2>3. e.readings[m] = Resolve(BindAll(base, pm), alias)
    BY <1>6, <2>2, Zenon DEF Readings
  <2>4. /\ pm \in Seq(Metric)
        /\ DOMAIN pm \subseteq DOMAIN metrics
        /\ \A x \in DOMAIN pm : pm[x] = metrics[x]
        /\ \A y : y \in Binders(pm) /\ pm[y].alias = alias
                   <=> y \in Binders(metrics) /\ metrics[y].alias = alias /\ y < m
    <3> HIDE DEF metrics, alias
    <3>1. metrics \in Seq(Metric) /\ m \in DOMAIN metrics /\ metrics[m].name = None
      BY <1>4, <1>6, Zenon
    <3>2. BindsBefore(pm, metrics, m, alias)
      BY <3>1, BoundBefore, Zenon
    <3> HIDE DEF pm
    <3> QED BY <3>2, Zenon DEF BindsBefore
  <2>5. /\ LastOf(S, log, Resolve(base, alias))
        /\ \A p \in S : \E j \in 1 .. n - 1 : \E x : p = <<j, x>>
    BY <1>3, <1>4, <2>1, SurvivorsKnown
  <2>6. GivenIn(lh, n, k, alias)
           = (IF ForgetsIn(lh, n, k) THEN {} ELSE GivenIn(log, Len(log), k, alias))
             \cup Own(e, n, k, alias)
    BY <1>1, <1>2, <1>4, GivenStep, ZenonT(30)
  <2>7. ForgetsIn(lh, n, k) <=> k \in e.evicted
    BY <1>3, <2>2, Zenon DEF ForgetsIn, ReopensIn
  <2>8. Own(e, n, k, alias) = B
    BY <1>1, <1>6, <2>1, OwnIsBound
  <2>9. GivenIn(lh, n, k, alias) = S \cup B
    BY <2>6, <2>7, <2>8, Zenon DEF Survivors
  <2> HIDE DEF S, pm, alias, base, k
  <2>10. ASSUME NEW p \in S PROVE p[1] # n
    BY <2>5
  <2>11. T = {p \in B : p[2] < m}
    BY <2>4
  <2>12. \A p \in B : p[1] = n
    OBVIOUS
  <2> HIDE DEF T, B
  <2>13. BeforeIn(lh, n, m, k, alias) = S \cup T
    BY <2>9, <2>10, <2>11, <2>12, Zenon DEF BeforeIn
  <2>14. \A x \in DOMAIN pm : lh[n].packet.metrics[x] = pm[x]
    BY <1>3, <2>4, Zenon
  <2>15. LastOf(S \cup T, lh, Resolve(BindAll(base, pm), alias))
    BY <1>3, <1>5, <2>1, <2>4, <2>5, <2>14, LastOfBind, Zenon DEF T
  <2> QED BY <2>3, <2>13, <2>15, Zenon DEF alias
<1>7. ResolvesIn(lh, n)
  BY <1>3, <1>6, ZenonT(30) DEF ResolvesIn
<1> QED BY <1>2, <1>7, Zenon

\* An alias is reported under the name it was last given in the session it belongs
\* to, for any packets, evictions, repetitions and limits.
THEOREM AliasesResolveWithinSession == Spec => []ResolvesWithinSession
<1> DEFINE Inv == NameKnown /\ \A i \in 1 .. Len(log) : ResolvesIn(log, i)
<1>1. Init => Inv
  <2>1. Init => Len(log) = 0 /\ \A k : ViewIn(sessions, k) = Fresh
    BY Zenon DEF Init, ViewIn, Empty
  <2>2. \A k, alias : Resolve(Fresh.aliases, alias) = None
    BY Zenon DEF Resolve, Fresh, Empty
  <2>3. \A lg, k, alias : GivenIn(lg, 0, k, alias) = {}
    BY DEF GivenIn, PlacesIn
  <2> QED BY <2>1, <2>2, <2>3 DEF NameKnown, LastOf
<1>2. TypeOK /\ Inv /\ [Next]_vars => Inv'
  <2>1. ASSUME TypeOK, Inv, Next PROVE Inv'
    <3>1. PICK e : StepOf(e)
      BY <2>1, NextStep, Zenon
    <3>2. NameKnown'
      BY <2>1, <3>1, NameKnownStep, Zenon
    <3>3. /\ Len(log) \in Nat /\ Len(log') = Len(log) + 1
          /\ \A i \in 1 .. Len(log) : log'[i] = log[i]
      BY <2>1, <3>1, LogGrows, Zenon DEF StepOf
    <3>4. ASSUME NEW i \in 1 .. Len(log') PROVE ResolvesIn(log', i)
      <4>1. CASE i = Len(log) + 1
        BY <2>1, <3>1, <3>3, <4>1, ResolvesNow
      <4>2. CASE i # Len(log) + 1
        <5>1. i \in Nat /\ i >= 1 /\ i \in 1 .. Len(log)
          BY <3>3, <4>2
        <5>2. \A j \in 1 .. i : log[j] = log'[j]
          BY <3>3, <5>1
        <5>3. ResolvesIn(log, i)
          BY <2>1, <5>1, Zenon
        <5> QED BY <5>1, <5>2, <5>3, ResolvesOfPrefix, Zenon
      <4> QED BY <4>1, <4>2, Zenon
    <3> QED BY <3>2, <3>4, Zenon
  <2>2. Inv /\ UNCHANGED vars => Inv'
    BY Zenon DEF vars, NameKnown
  <2> QED BY <2>1, <2>2, Zenon
<1>3. Inv => ResolvesWithinSession
  <2>1. \A i, k : /\ Names(i, k) <=> NamesIn(log, i, k)
                  /\ Forgets(i, k) <=> ForgetsIn(log, i, k)
    BY Zenon DEF Names, NamesIn, Forgets, ForgetsIn, Reopens, ReopensIn
  <2>2. \A k, alias, i, m : Announcements(k, alias, i, m) = BeforeIn(log, i, m, k, alias)
    <3> TAKE k, alias, i, m
    <3>1. ASSUME NEW p
          PROVE  p \in Announcements(k, alias, i, m) <=> p \in BeforeIn(log, i, m, k, alias)
      <4>1. p \in Announcements(k, alias, i, m) <=>
               /\ p \in PlacesIn(log, i) /\ Names(p[1], k) /\ (p[1] = i => p[2] < m)
               /\ Gives(log[p[1]], p[2], alias)
               /\ \A l \in p[1] + 1 .. i : ~Forgets(l, k)
        BY Zenon DEF Announcements, PlacesIn, Gives
      <4>2. p \in BeforeIn(log, i, m, k, alias) <=>
               /\ p \in PlacesIn(log, i) /\ NamesIn(log, p[1], k) /\ (p[1] = i => p[2] < m)
               /\ Gives(log[p[1]], p[2], alias)
               /\ \A l \in p[1] + 1 .. i : ~ForgetsIn(log, l, k)
        BY Zenon DEF BeforeIn, GivenIn
      <4> QED BY <2>1, <4>1, <4>2, Zenon
    <3> QED BY <3>1, Zenon
  <2> QED BY <2>2, ZenonT(30) DEF ResolvesWithinSession, ResolvesIn, LastOf
<1> QED BY <1>1, <1>2, <1>3, TypeCorrect, PTL DEF Spec
-----------------------------------------------------------------------------
(* The sweep: since the publish that was the last to sweep, fewer than    *)
(* SweepEvery have passed, and it left no session that was idle for the   *)
(* time to live.                                                           *)

PublishesIn(lg, i) == lg[i].packet.kind \notin Foreign \cup Calls

Since(lg, n) == {i \in n + 1 .. Len(lg) : PublishesIn(lg, i)}

\* Entry i speaks for the session k of table t, or came within its lifetime.
Speaks(lg, i, t, k) ==
    \/ Owner(lg[i]) = k /\ lg[i].packet.kind \notin Passing
    \/ lg[i].at < t[k].touched + Ttl

\* The last sweep was at entry c, or there was none and c is 0.
LastSweep(lg, t, count, c) ==
    /\ c \in 0 .. Len(lg)
    /\ IsFiniteSet(Since(lg, c)) /\ Cardinality(Since(lg, c)) = count
    /\ c # 0 => /\ PublishesIn(lg, c)
                /\ \A k \in DOMAIN t :
                      \E i \in Since(lg, c) \cup {c} : Speaks(lg, i, t, k)

SweepKnown == \E c : LastSweep(log, sessions, sinceSweep, c)

LEMMA SinceGrows ==
    ASSUME NEW lg \in Seq(Logged), NEW e \in Logged, NEW c \in 0 .. Len(lg)
    PROVE  LET a == Append(lg, e)
           IN  Since(a, c) = IF e.packet.kind \notin Foreign \cup Calls
                             THEN Since(lg, c) \cup {Len(lg) + 1} ELSE Since(lg, c)
<1> DEFINE a == Append(lg, e)
<1>1. /\ Len(a) = Len(lg) + 1 /\ Len(lg) \in Nat /\ a[Len(lg) + 1] = e
      /\ \A i \in 1 .. Len(lg) : a[i] = lg[i]
  OBVIOUS
<1> HIDE DEF a
<1>2. c + 1 .. Len(a) = (c + 1 .. Len(lg)) \cup {Len(lg) + 1}
      /\ \A i \in c + 1 .. Len(lg) : i \in 1 .. Len(lg)
  BY <1>1
<1>3. /\ PublishesIn(a, Len(lg) + 1) <=> e.packet.kind \notin Foreign \cup Calls
      /\ \A i \in c + 1 .. Len(lg) : PublishesIn(a, i) <=> PublishesIn(lg, i)
  BY <1>1, <1>2, Zenon DEF PublishesIn
<1>4. Since(a, c) = IF e.packet.kind \notin Foreign \cup Calls
                    THEN Since(lg, c) \cup {Len(lg) + 1} ELSE Since(lg, c)
  BY <1>2, <1>3, Zenon DEF Since
<1> QED BY <1>4, Zenon DEF a

\* What a step does to the table: it touches the session of a message, and what
\* else it leaves was there before and, when it swept, not idle for too long.
Left(e) ==
    /\ e \in Logged /\ log' = Append(log, e)
    /\ IF e.packet.kind \notin Foreign \cup Calls
       THEN /\ CountPublish
            /\ \A k \in DOMAIN sessions' :
                  \/ Owner(e) = k /\ e.packet.kind \notin Passing
                  \/ /\ k \in DOMAIN sessions /\ sessions'[k] = sessions[k]
                     /\ sinceSweep + 1 >= SweepEvery => e.at < sessions[k].touched + Ttl
       ELSE /\ sinceSweep' = sinceSweep
            /\ \A k \in DOMAIN sessions' : k \in DOMAIN sessions /\ sessions'[k] = sessions[k]

LEMMA SweptAreIdle ==
    ASSUME TypeOK, NEW at \in Times, NEW k \in DOMAIN Swept(at)
    PROVE  /\ k \in DOMAIN sessions /\ Swept(at)[k] = sessions[k]
           /\ sinceSweep + 1 >= SweepEvery => at < sessions[k].touched + Ttl
<1>1. k \in DOMAIN sessions /\ Swept(at)[k] = sessions[k]
  BY SweepIsPart DEF Part
<1>2. ASSUME sinceSweep + 1 >= SweepEvery PROVE at < sessions[k].touched + Ttl
  <2>1. (IF at >= sessions[k].touched THEN at - sessions[k].touched ELSE 0) < Ttl
    BY <1>2, Zenon DEF Swept, EvictExpired
  <2>2. at \in Nat /\ sessions[k].touched \in Nat /\ Ttl \in Nat
    BY <1>1, SparkplugAssumption, StoreAssumption, Zenon DEF TypeOK, Session
  <2> QED BY <2>1, <2>2
<1> QED BY <1>1, <1>2, Zenon

\* entry_mut makes room in the swept table.
LEMMA RoomIsSwept ==
    ASSUME TypeOK, NEW packet, NEW at \in Times, NEW room \in Rooms(packet, at), NEW k \in DOMAIN room
    PROVE  /\ k \in DOMAIN sessions /\ room[k] = sessions[k]
           /\ sinceSweep + 1 >= SweepEvery => at < sessions[k].touched + Ttl
<1> DEFINE swept == Swept(at)
           key == SessionKey(packet)
<1>1. \/ room = swept
      \/ \E victim : room = [j \in DOMAIN swept \ {victim} |-> swept[j]]
  BY Zenon DEF Rooms, MakeRoom
<1>2. k \in DOMAIN swept /\ room[k] = swept[k]
  <2> HIDE DEF swept
  <2> QED BY <1>1, Zenon
<1> QED BY <1>2, SweptAreIdle, Zenon

LEMMA HandleLeaves ==
    ASSUME TypeOK, NEW packet \in Packets, packet.kind \in Sessional, NEW at \in Times,
           CountPublish, NEW room \in Rooms(packet, at), NEW session \in Session,
           NEW took \in BOOLEAN, NEW readings \in Seq(Name \cup {None}), NEW gap \in BOOLEAN,
           Handle(packet, at, room, session, took, readings, gap)
    PROVE  \E e : Left(e)
<1> DEFINE e == Entered(packet, at, took, readings, gap, DOMAIN sessions \ DOMAIN room)
<1>1. e \in Logged /\ e.packet = packet /\ e.at = at
  BY RoomIsPart, PartType, Zenon DEF Logged, Entered
<1>2. log' = Append(log, e) /\ Owner(e) = SessionKey(packet)
  BY <1>1, OwnerIsKey, ZenonT(30) DEF Handle
<1>3. e.packet.kind \notin Foreign \cup Calls /\ e.packet.kind \notin Passing
  BY <1>1, Zenon DEF Sessional, Births, Datas, Deaths, Foreign, Calls, Passing
<1> HIDE DEF e
<1>4. ASSUME NEW k \in DOMAIN sessions', k # SessionKey(packet)
      PROVE  /\ k \in DOMAIN sessions /\ sessions'[k] = sessions[k]
             /\ sinceSweep + 1 >= SweepEvery => e.at < sessions[k].touched + Ttl
  <2>1. k \in DOMAIN room /\ sessions'[k] = room[k]
    BY <1>4, Zenon DEF Handle, Put
  <2> QED BY <1>1, <2>1, RoomIsSwept, Zenon
<1>5. Left(e)
  BY <1>1, <1>2, <1>3, <1>4, Zenon DEF Left
<1> QED BY <1>5, Zenon

LEMMA StepLeaves ==
    ASSUME TypeOK, Next
    PROVE  \E e : Left(e)
<1>1. PICK packet \in Packets, at \in Times :
          \/ Birth(packet, at) \/ Data(packet, at) \/ Death(packet, at)
          \/ Pass(packet, at) \/ Skip(packet, at) \/ Purge(packet, at)
  BY Zenon DEF Next
<1>2. packet.metrics \in Seq(Metric) /\ FALSE \in BOOLEAN /\ TRUE \in BOOLEAN
      /\ <<>> \in Seq(Name \cup {None})
  BY PacketAssumption DEF Packet
<1>3. ASSUME NEW room \in Rooms(packet, at)
      PROVE  /\ Entry(room, SessionKey(packet), at) \in Session
             /\ Born(Entry(room, SessionKey(packet), at), packet) \in Session
             /\ Updated(Entry(room, SessionKey(packet), at), packet) \in Session
             /\ Dead(Entry(room, SessionKey(packet), at)) \in Session
  BY <1>3, RoomIsPart, EntryType, HandlersType, Zenon
<1>4. ASSUME NEW s \in Session PROVE Readings(s.aliases, packet.metrics) \in Seq(Name \cup {None})
  BY <1>2, ReadingsType, Zenon DEF Session
<1>5. CASE Birth(packet, at)
  <2>1. PICK room \in Rooms(packet, at) :
          LET session == Entry(room, SessionKey(packet), at)
              born    == Born(session, packet)
          IN  IF Supersedes(session, packet.bdSeq)
              THEN Handle(packet, at, room, born, TRUE,
                          Readings(born.aliases, packet.metrics), FALSE)
              ELSE Handle(packet, at, room, session, FALSE, <<>>, FALSE)
    BY <1>5, Zenon DEF Birth
  <2>2. packet.kind \in Sessional /\ CountPublish
    BY <1>5, Zenon DEF Birth, Sessional
  <2> DEFINE session == Entry(room, SessionKey(packet), at)
             born == Born(session, packet)
  <2>3. session \in Session /\ born \in Session
    BY <1>3, Zenon
  <2>4. Readings(born.aliases, packet.metrics) \in Seq(Name \cup {None})
    BY <1>4, <2>3, Zenon
  <2>5. \/ Handle(packet, at, room, born, TRUE, Readings(born.aliases, packet.metrics), FALSE)
        \/ Handle(packet, at, room, session, FALSE, <<>>, FALSE)
    BY <2>1, Zenon
  <2> HIDE DEF session, born
  <2> QED BY <1>2, <2>2, <2>3, <2>4, <2>5, HandleLeaves, Zenon
<1>6. CASE Data(packet, at)
  <2>1. PICK room \in Rooms(packet, at) :
          LET session == Entry(room, SessionKey(packet), at)
          IN  Handle(packet, at, room, Updated(session, packet), FALSE,
                     Readings(session.aliases, packet.metrics),
                     AnyUnresolvable(session, packet) /\ ~session.gap)
    BY <1>6, Zenon DEF Data
  <2>2. packet.kind \in Sessional /\ CountPublish
    BY <1>6, Zenon DEF Data, Sessional
  <2> DEFINE session == Entry(room, SessionKey(packet), at)
             gap == AnyUnresolvable(session, packet) /\ ~session.gap
             readings == Readings(session.aliases, packet.metrics)
             after == Updated(session, packet)
  <2>3. after \in Session /\ gap \in BOOLEAN /\ readings \in Seq(Name \cup {None})
    BY <1>3, <1>4, Zenon
  <2>4. Handle(packet, at, room, after, FALSE, readings, gap)
    BY <2>1, Zenon
  <2> HIDE DEF session, gap, readings, after
  <2> QED BY <1>2, <2>2, <2>3, <2>4, HandleLeaves, Zenon
<1>7. CASE Death(packet, at)
  <2>1. PICK room \in Rooms(packet, at) :
          Handle(packet, at, room, Dead(Entry(room, SessionKey(packet), at)), FALSE, <<>>, FALSE)
    BY <1>7, Zenon DEF Death
  <2>2. packet.kind \in Sessional /\ CountPublish
    BY <1>7, Zenon DEF Death, Sessional
  <2> QED BY <1>2, <1>3, <2>1, <2>2, HandleLeaves, Zenon
<1>8. CASE Pass(packet, at)
  <2> DEFINE e == Entered(packet, at, FALSE, <<>>, FALSE, DOMAIN sessions \ DOMAIN Swept(at))
  <2>1. e \in Logged /\ e.packet = packet /\ e.at = at /\ log' = Append(log, e)
    BY <1>2, <1>8, SweepIsPart, PartType, ZenonT(30) DEF Logged, Entered, Pass
  <2>2. e.packet.kind \notin Foreign \cup Calls /\ CountPublish /\ sessions' = Swept(at)
    BY <1>8, <2>1, ZenonT(30) DEF Pass, Passing, Foreign, Calls
  <2> HIDE DEF e
  <2> QED BY <2>1, <2>2, SweptAreIdle, Zenon DEF Left
<1>9. CASE Skip(packet, at)
  <2> DEFINE e == Entered(packet, at, FALSE, <<>>, FALSE, {})
  <2>1. e \in Logged /\ e.packet = packet /\ log' = Append(log, e)
    BY <1>2, <1>9, Zenon DEF Logged, Entered, Skip
  <2>2. ~(e.packet.kind \notin Foreign \cup Calls) /\ sinceSweep' = sinceSweep /\ sessions' = sessions
    BY <1>9, <2>1, ZenonT(30) DEF Skip
  <2> HIDE DEF e
  <2> QED BY <2>1, <2>2, Zenon DEF Left
<1>10. CASE Purge(packet, at)
  <2> DEFINE e == Entered(packet, at, FALSE, <<>>, FALSE,
                          DOMAIN sessions \ DOMAIN EvictExpired(sessions, at))
  <2>1. e \in Logged /\ e.packet = packet /\ log' = Append(log, e)
    BY <1>2, <1>10, SweepIsPart, PartType, Zenon DEF Logged, Entered, Purge
  <2>2. ~(e.packet.kind \notin Foreign \cup Calls) /\ sinceSweep' = sinceSweep
    BY <1>10, <2>1, ZenonT(30) DEF Purge
  <2>3. \A k \in DOMAIN sessions' : k \in DOMAIN sessions /\ sessions'[k] = sessions[k]
    BY <1>10, SweepIsPart DEF Purge, Part
  <2> HIDE DEF e
  <2> QED BY <2>1, <2>2, <2>3, Zenon DEF Left
<1> QED BY <1>1, <1>5, <1>6, <1>7, <1>8, <1>9, <1>10, ZenonT(30)

\* A step without a sweep: the session of the message is spoken for by the entry,
\* and the entry that spoke for another still does.
LEMMA SpeaksStep ==
    ASSUME NEW lg \in Seq(Logged), NEW e \in Logged, NEW t, NEW after,
           NEW c \in 1 .. Len(lg), PublishesIn(lg, c),
           \A k \in DOMAIN t : \E i \in Since(lg, c) \cup {c} : Speaks(lg, i, t, k),
           \A k \in DOMAIN after :
              \/ /\ Owner(e) = k /\ e.packet.kind \notin Passing
                 /\ e.packet.kind \notin Foreign \cup Calls
              \/ k \in DOMAIN t /\ after[k] = t[k]
    PROVE  LET a == Append(lg, e)
           IN  /\ PublishesIn(a, c)
               /\ \A k \in DOMAIN after : \E i \in Since(a, c) \cup {c} : Speaks(a, i, after, k)
<1> DEFINE a == Append(lg, e)
           n == Len(lg) + 1
<1>1. a[n] = e /\ Len(lg) \in Nat /\ \A i \in 1 .. Len(lg) : a[i] = lg[i]
  OBVIOUS
<1>2. Since(a, c) = IF e.packet.kind \notin Foreign \cup Calls
                    THEN Since(lg, c) \cup {n} ELSE Since(lg, c)
  BY SinceGrows
<1>3. \A i \in Since(lg, c) \cup {c} : i \in 1 .. Len(lg)
  BY DEF Since
<1> HIDE DEF a, n
<1>4. PublishesIn(a, c)
  BY <1>1, Zenon DEF PublishesIn
<1>5. ASSUME NEW k \in DOMAIN after PROVE \E i \in Since(a, c) \cup {c} : Speaks(a, i, after, k)
  <2>1. CASE /\ Owner(e) = k /\ e.packet.kind \notin Passing
             /\ e.packet.kind \notin Foreign \cup Calls
    <3>1. n \in Since(a, c) /\ Speaks(a, n, after, k)
      BY <1>1, <1>2, <2>1, Zenon DEF Speaks
    <3> QED BY <3>1, Zenon
  <2>2. CASE k \in DOMAIN t /\ after[k] = t[k]
    <3>1. PICK i \in Since(lg, c) \cup {c} : Speaks(lg, i, t, k)
      BY <2>2, Zenon
    <3>2. Speaks(a, i, after, k) /\ i \in Since(a, c) \cup {c}
      BY <1>1, <1>2, <1>3, <2>2, <3>1, Zenon DEF Speaks
    <3> QED BY <3>2, Zenon
  <2> QED BY <2>1, <2>2, Zenon
<1> QED BY <1>4, <1>5, Zenon DEF a

LEMMA SweepKnownStep ==
    ASSUME TypeOK, Next, SweepKnown
    PROVE  SweepKnown'
<1>1. PICK e : Left(e)
  BY StepLeaves, Zenon
<1>2. PICK c : LastSweep(log, sessions, sinceSweep, c)
  BY Zenon DEF SweepKnown
<1>3. /\ log \in Seq(Logged) /\ e \in Logged /\ log' = Append(log, e) /\ Len(log) \in Nat
      /\ c \in 0 .. Len(log) /\ sinceSweep \in 0 .. SweepEvery - 1 /\ SweepEvery \in Nat \ {0}
  BY <1>1, <1>2, SparkplugAssumption DEF Left, TypeOK, LastSweep
<1> DEFINE n == Len(log) + 1
<1>4. /\ Len(log') = n /\ log'[n] = e
  BY <1>3
<1>5. Since(log', c) = IF e.packet.kind \notin Foreign \cup Calls
                       THEN Since(log, c) \cup {n} ELSE Since(log, c)
  BY <1>3, SinceGrows, Zenon
<1>6. n \notin Since(log, c)
  BY <1>3 DEF Since
<1> HIDE DEF n
<1>7. CASE e.packet.kind \notin Foreign \cup Calls /\ sinceSweep + 1 >= SweepEvery
  <2>1. sinceSweep' = 0
    BY <1>1, <1>7, Zenon DEF Left, CountPublish
  <2>2. Since(log', n) = {}
    BY <1>3, <1>4 DEF Since, n
  <2>3. IsFiniteSet(Since(log', n)) /\ Cardinality(Since(log', n)) = 0
    BY <2>2, FS_EmptySet, Zenon
  <2>4. PublishesIn(log', n) /\ n \in 0 .. Len(log')
    BY <1>3, <1>4, <1>7 DEF PublishesIn, n
  <2>5. ASSUME NEW k \in DOMAIN sessions'
        PROVE  \E i \in Since(log', n) \cup {n} : Speaks(log', i, sessions', k)
    <3>1. Speaks(log', n, sessions', k)
      BY <1>1, <1>4, <1>7, <2>5, Zenon DEF Left, Speaks
    <3> QED BY <3>1, Zenon
  <2>6. LastSweep(log', sessions', sinceSweep', n)
    BY <2>1, <2>3, <2>4, <2>5, Zenon DEF LastSweep
  <2> QED BY <2>6, Zenon DEF SweepKnown
<1>8. CASE ~(e.packet.kind \notin Foreign \cup Calls /\ sinceSweep + 1 >= SweepEvery)
  <2>1. IsFiniteSet(Since(log', c)) /\ Cardinality(Since(log', c)) = sinceSweep'
    <3>1. IsFiniteSet(Since(log, c)) /\ Cardinality(Since(log, c)) = sinceSweep
      BY <1>2, Zenon DEF LastSweep
    <3>2. CASE e.packet.kind \notin Foreign \cup Calls
      <4>1. sinceSweep' = sinceSweep + 1 /\ Since(log', c) = Since(log, c) \cup {n}
        BY <1>1, <1>5, <1>8, <3>2, Zenon DEF Left, CountPublish
      <4> QED BY <1>6, <3>1, <4>1, FS_AddElement, Zenon
    <3>3. CASE ~(e.packet.kind \notin Foreign \cup Calls)
      BY <1>1, <1>5, <3>1, <3>3, Zenon DEF Left
    <3> QED BY <3>2, <3>3, Zenon
  <2>2. c \in 0 .. Len(log')
    BY <1>3, <1>4 DEF n
  <2>3. ASSUME c # 0
        PROVE  /\ PublishesIn(log', c)
               /\ \A k \in DOMAIN sessions' :
                     \E i \in Since(log', c) \cup {c} : Speaks(log', i, sessions', k)
    <3>1. c \in 1 .. Len(log)
      BY <1>3, <2>3
    <3>2. \A k \in DOMAIN sessions' :
              \/ /\ Owner(e) = k /\ e.packet.kind \notin Passing
                 /\ e.packet.kind \notin Foreign \cup Calls
              \/ k \in DOMAIN sessions /\ sessions'[k] = sessions[k]
      BY <1>1, Zenon DEF Left
    <3>3. /\ PublishesIn(log, c)
          /\ \A k \in DOMAIN sessions :
                \E i \in Since(log, c) \cup {c} : Speaks(log, i, sessions, k)
      BY <1>2, <2>3, Zenon DEF LastSweep
    <3> QED BY <1>3, <3>1, <3>2, <3>3, SpeaksStep, ZenonT(30)
  <2>4. LastSweep(log', sessions', sinceSweep', c)
    BY <2>1, <2>2, <2>3, Zenon DEF LastSweep
  <2> QED BY <2>4, Zenon DEF SweepKnown
<1> QED BY <1>7, <1>8, Zenon

\* A session that nobody speaks for does not outlive SweepEvery publishes at or
\* after the end of its time to live, for any packets, capture times and limits:
\* should_sweep counts every publish, and the one that reaches the limit leaves no
\* session that is idle for the time to live.
THEOREM IdleSessionsAreSwept == Spec => []IdleSessionsSwept
<1>1. Init => TypeOK /\ SweepKnown
  <2> SUFFICES ASSUME Init PROVE TypeOK /\ SweepKnown
    BY Zenon
  <2>1. TypeOK
    BY SparkplugAssumption DEF Init, TypeOK, Empty
  <2>2. Since(log, 0) = {} /\ 0 \in 0 .. Len(log) /\ sinceSweep = 0
    BY DEF Init, Since
  <2>3. LastSweep(log, sessions, sinceSweep, 0)
    BY <2>2, FS_EmptySet, Zenon DEF LastSweep
  <2> QED BY <2>1, <2>3, Zenon DEF SweepKnown
<1>2. TypeOK /\ SweepKnown /\ [Next]_vars => (TypeOK /\ SweepKnown)'
  <2>1. TypeOK /\ SweepKnown /\ Next => (TypeOK /\ SweepKnown)'
    BY NextStep, SweepKnownStep, Zenon
  <2>2. TypeOK /\ SweepKnown /\ UNCHANGED vars => (TypeOK /\ SweepKnown)'
    BY Zenon DEF vars, TypeOK, SweepKnown
  <2> QED BY <2>1, <2>2, Zenon
<1>3. TypeOK /\ SweepKnown => IdleSessionsSwept
  <2> SUFFICES ASSUME TypeOK, SweepKnown, NEW k \in DOMAIN sessions, NEW n \in 0 .. Len(log),
                      Cardinality(Since(log, n)) >= SweepEvery
               PROVE  \E i \in Since(log, n) :
                        \/ Owner(log[i]) = k /\ log[i].packet.kind \notin Passing
                        \/ log[i].at < sessions[k].touched + Ttl
    BY Zenon DEF IdleSessionsSwept, Publishes, Since, PublishesIn
  <2>1. PICK c : LastSweep(log, sessions, sinceSweep, c)
    BY Zenon DEF SweepKnown
  <2>2. /\ c \in 0 .. Len(log) /\ IsFiniteSet(Since(log, c)) /\ Cardinality(Since(log, c)) = sinceSweep
        /\ sinceSweep \in Nat /\ sinceSweep < SweepEvery /\ SweepEvery \in Nat /\ Len(log) \in Nat
    BY <2>1, SparkplugAssumption DEF LastSweep, TypeOK
  <2>3. n < c
    <3> SUFFICES ASSUME c <= n PROVE FALSE
      BY <2>2
    <3>1. Since(log, n) \in SUBSET Since(log, c)
      BY <2>2 DEF Since
    <3>2. /\ Cardinality(Since(log, n)) <= Cardinality(Since(log, c))
          /\ Cardinality(Since(log, n)) \in Nat
      BY <2>2, <3>1, FS_Subset, FS_CardinalityType, Zenon
    <3> QED BY <2>2, <3>2
  <2>4. PublishesIn(log, c) /\ \E i \in Since(log, c) \cup {c} : Speaks(log, i, sessions, k)
    BY <2>1, <2>2, <2>3 DEF LastSweep
  <2>5. Since(log, c) \cup {c} \subseteq Since(log, n)
    BY <2>2, <2>3, <2>4 DEF Since
  <2> QED BY <2>4, <2>5, Zenon DEF Speaks
<1> QED BY <1>1, <1>2, <1>3, PTL DEF Spec

=============================================================================
