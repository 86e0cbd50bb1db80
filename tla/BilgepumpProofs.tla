-------------------------- MODULE BilgepumpProofs ---------------------------
(***************************************************************************)
(* Proofs about the layer-2 monitor, for any inputs and any configuration  *)
(* that the theorems' assumptions allow.                                   *)
(***************************************************************************)
EXTENDS Bilgepump, Lists

-----------------------------------------------------------------------------
(* Sliding windows.                                                        *)

\* RateCounter::prune cuts the window before its first entry that is not
\* older than the cutoff.
LEMMA PruneCut ==
    ASSUME NEW S, NEW q \in Seq(S), NEW c \in Int,
           \A s \in S : s.ts \in Int
    PROVE  \E k \in 1 .. Len(q) + 1 :
              /\ Prune(q, c) = SubSeq(q, k, Len(q))
              /\ \A i \in 1 .. k - 1 : q[i].ts < c
              /\ k \in DOMAIN q => q[k].ts >= c
<1> DEFINE T == {n \in 1 .. Len(q) + 1 : n \in DOMAIN q => q[n].ts >= c}
           P(n) == /\ \A i \in 1 .. n - 1 : q[i].ts < c
                   /\ n \in DOMAIN q => q[n].ts >= c
<1>1. Len(q) \in Nat /\ DOMAIN q = 1 .. Len(q)
  OBVIOUS
<1>2. T \in SUBSET Nat /\ T # {}
  <2>1. Len(q) + 1 \in T
    BY <1>1
  <2> QED BY <1>1, <2>1
<1>3. PICK n \in T : \A m \in T : n <= m
  BY <1>2, LeastNat, Zenon
<1>4. \A i \in 1 .. n - 1 : q[i].ts < c
  <2> TAKE i \in 1 .. n - 1
  <2>1. n \in 1 .. Len(q) + 1 /\ i \in DOMAIN q /\ i \in 1 .. Len(q) + 1
    BY <1>1
  <2>2. i \notin T
    BY <1>3, <2>1, <1>1
  <2>3. q[i] \in S
    BY <2>1
  <2> QED BY <2>1, <2>2, <2>3
<1>5. \E k \in 1 .. Len(q) + 1 : P(k)
  BY <1>4, Zenon
<1>6. PICK k : k = CHOOSE m \in 1 .. Len(q) + 1 : P(m)
  BY Zenon
<1>7. k \in 1 .. Len(q) + 1 /\ P(k)
  BY <1>5, <1>6, Zenon
<1>8. Prune(q, c) = SubSeq(q, k, Len(q))
  BY <1>6, Zenon DEF Prune
<1> QED BY <1>7, <1>8, Zenon

\* Recording an event leaves a window that ends with the event.
LEMMA RecordType ==
    ASSUME NEW S, NEW q \in Seq(S), NEW e \in S, NEW w \in Nat,
           \A s \in S : s.ts \in Nat
    PROVE  Record(q, e, w) \in Seq(S) \ {<<>>}
<1> DEFINE a == Append(q, e)
<1>1. /\ a \in Seq(S) /\ Len(a) \in Nat /\ Len(a) = Len(q) + 1
      /\ a[Len(a)] = e /\ DOMAIN a = 1 .. Len(a)
  OBVIOUS
<1>2. e.ts - w \in Int /\ e.ts >= e.ts - w /\ \A s \in S : s.ts \in Int
  OBVIOUS
<1> HIDE DEF a
<1>3. PICK k \in 1 .. Len(a) + 1 :
            /\ Prune(a, e.ts - w) = SubSeq(a, k, Len(a))
            /\ \A i \in 1 .. k - 1 : a[i].ts < e.ts - w
  BY <1>1, <1>2, PruneCut, Zenon
<1>4. k <= Len(a)
  <2> SUFFICES ASSUME k = Len(a) + 1 PROVE FALSE
    BY <1>1
  <2>1. Len(a) \in 1 .. k - 1
    BY <1>1
  <2>2. e.ts < e.ts - w
    BY <1>1, <1>3, <2>1, Zenon
  <2> QED BY <2>2, <1>2
<1>5. \A i \in k .. Len(a) : a[i] \in S
  BY <1>1, <1>3
<1>6. SubSeq(a, k, Len(a)) \in Seq(S) /\ Len(SubSeq(a, k, Len(a))) = Len(a) - k + 1
  BY <1>1, <1>4, <1>5, SubSeqProperties
<1>7. Record(q, e, w) = SubSeq(a, k, Len(a))
  BY <1>3, Zenon DEF Record, a
<1>8. Len(Record(q, e, w)) > 0 /\ Record(q, e, w) \in Seq(S)
  BY <1>1, <1>4, <1>6, <1>7
<1> QED BY <1>8

-----------------------------------------------------------------------------
(* Tables.                                                                 *)

LEMMA PutTable ==
    ASSUME NEW f, NEW K, NEW V, Table(f, K, V), NEW k \in K, NEW v \in V
    PROVE  Table(Put(f, k, v), K, V)
BY Zenon DEF Table, Put

LEMMA RetainTable ==
    ASSUME NEW f, NEW K, NEW V, Table(f, K, V), NEW D \in SUBSET DOMAIN f
    PROVE  Table(Retain(f, D), K, V)
BY Zenon DEF Table, Retain

LEMMA WindowOfType ==
    ASSUME NEW f, NEW K, NEW S, Table(f, K, Seq(S) \ {<<>>}), NEW k \in K
    PROVE  WindowOf(f, k) \in Seq(S)
BY DEF Table, WindowOf

-----------------------------------------------------------------------------
(* Type correctness.                                                       *)

Reply == [ts : Time]

Sighting == [ts : Time, ip : Ip]

Binding == [mac : Mac, seen : Time, blessed : BOOLEAN]

USE DEF Binding, Reply, Sighting

LEMMA Naturals ==
    /\ ArpTtl \in Nat /\ FloodWindow \in Nat /\ FlapWindow \in Nat
    /\ StarvationWindow \in Nat /\ DefaultTtl \in Nat /\ IdentityTtl \in Nat
    /\ Skew \in Nat /\ MaxTime \in Nat /\ Time \subseteq Nat
BY ConfigAssumption DEF Time

LEMMA ArpKeepsType ==
    ASSUME TypeOK, NEW f \in ArpFrame, NEW t \in Time, ObserveArp(f, t)
    PROVE  TypeOK'
<1>1. f.src \in Mac /\ f.mac \in Mac /\ f.ip \in Ip
  BY InputAssumption, Zenon
<1>2. Table(RepliesAfter(f, t), Mac, Seq(Reply) \ {<<>>})
  <2>1. WindowOf(replies, f.mac) \in Seq(Reply)
    BY <1>1, WindowOfType, Zenon DEF TypeOK
  <2>2. [ts |-> t] \in Reply /\ \A s \in Reply : s.ts \in Nat
    BY Naturals, Zenon
  <2>3. Record(WindowOf(replies, f.mac), [ts |-> t], FloodWindow)
            \in Seq(Reply) \ {<<>>}
    BY <2>1, <2>2, RecordType, Naturals, Zenon
  <2> QED BY <1>1, <2>3, PutTable, Zenon DEF RepliesAfter, TypeOK
<1>3. Table(FlapsAfter(f, t), Mac, Seq(Sighting) \ {<<>>})
  <2>1. WindowOf(flaps, f.src) \in Seq(Sighting)
    BY <1>1, WindowOfType, Zenon DEF TypeOK
  <2>2. [ts |-> t, ip |-> f.ip] \in Sighting
    BY <1>1, Zenon
  <2>3. \A s \in Sighting : s.ts \in Nat
    BY Naturals, Zenon
  <2>4. Record(WindowOf(flaps, f.src), [ts |-> t, ip |-> f.ip], FlapWindow)
            \in Seq(Sighting) \ {<<>>}
    BY <2>1, <2>2, <2>3, RecordType, Naturals, Zenon
  <2> QED BY <1>1, <2>4, PutTable, Zenon DEF FlapsAfter, TypeOK
<1>4. Table(BindingsAfter(f, t), Ip, Binding)
  <2> DEFINE b == IF f.ip \in DOMAIN bindings THEN bindings[f.ip].blessed
                  ELSE <<f.mac, f.ip>> \in Blessed
  <2>1. b \in BOOLEAN
    <3>1. CASE f.ip \in DOMAIN bindings
      <4>1. bindings[f.ip] \in Binding
        BY <3>1, Zenon DEF TypeOK, Table
      <4> QED BY <3>1, <4>1, Zenon
    <3>2. CASE f.ip \notin DOMAIN bindings
      <4>1. (<<f.mac, f.ip>> \in Blessed) \in BOOLEAN
        OBVIOUS
      <4> QED BY <3>2, <4>1, Zenon
    <3> QED BY <3>1, <3>2, Zenon
  <2>2. [mac |-> f.mac, seen |-> t, blessed |-> b] \in Binding
    BY <1>1, <2>1, Zenon
  <2> QED BY <1>1, <2>2, PutTable, Zenon DEF BindingsAfter, TypeOK
<1>5. clock' \in Time
  BY Zenon DEF ObserveArp, Observed, Tick, TypeOK
<1> QED BY <1>2, <1>3, <1>4, <1>5, Zenon DEF ObserveArp, TypeOK, Table

LEMMA DhcpKeepsType ==
    ASSUME TypeOK, NEW d \in DhcpMessage, NEW t \in Time, ObserveDhcp(d, t)
    PROVE  TypeOK'
<1>1. /\ d.client \in Mac
      /\ d.ip \in Ip \cup {None} /\ d.server \in Server \cup {None}
  BY InputAssumption, Zenon
<1>2. RequestsAfter(d, t) \in Seq(Reply)
  <2>1. [ts |-> t] \in Reply /\ \A s \in Reply : s.ts \in Nat
    BY Naturals, Zenon
  <2>2. Record(requests, [ts |-> t], StarvationWindow) \in Seq(Reply)
    BY <2>1, RecordType, Naturals, Zenon DEF TypeOK
  <2> QED BY <2>2, Zenon DEF RequestsAfter, TypeOK
<1>3. FromServer(d) => Table(Put(servers, d.server, t), Server, Time)
  BY <1>1, PutTable, Zenon DEF FromServer, TypeOK
<1>4. Table(Learned(d, t), Ip, Binding)
  <2> DEFINE b == d.ip \in DOMAIN bindings /\ bindings[d.ip].blessed
  <2>1. d.ip # None => [mac |-> d.client, seen |-> t, blessed |-> b] \in Binding
    BY <1>1, Zenon
  <2> QED BY <1>1, <2>1, PutTable, Zenon DEF Learned, TypeOK
<1>5. clock' \in Time
  BY Zenon DEF ObserveDhcp, Observed, Tick, TypeOK
<1> QED BY <1>2, <1>3, <1>4, <1>5, Zenon DEF ObserveDhcp, TypeOK, Table

LEMMA StpKeepsType ==
    ASSUME TypeOK, NEW r \in Root, NEW t \in Time, ObserveStp(r, t)
    PROVE  TypeOK'
BY Zenon DEF ObserveStp, Observed, Tick, TypeOK, Table

LEMMA LldpKeepsType ==
    ASSUME TypeOK, NEW f \in LldpFrame, NEW t \in Time, ObserveLldp(f, t)
    PROVE  TypeOK'
<1>1. f.mac \in Mac /\ f.id \in Identity
  BY InputAssumption, Zenon
<1>2. Table(Put(lldp, f.mac, [id |-> f.id, seen |-> t]), Mac,
            [id : Identity, seen : Time])
  BY <1>1, PutTable, Zenon DEF TypeOK
<1>3. clock' \in Time
  BY Zenon DEF ObserveLldp, Observed, Tick, TypeOK
<1> QED BY <1>2, <1>3, Zenon DEF ObserveLldp, TypeOK, Table

LEMMA CdpKeepsType ==
    ASSUME TypeOK, NEW f \in CdpFrame, NEW t \in Time, ObserveCdp(f, t)
    PROVE  TypeOK'
<1>1. f.mac \in Mac /\ f.id \in Identity \cup {NoName}
  BY InputAssumption, Zenon
<1>2. Table(Put(cdp, f.mac, [id |-> f.id, seen |-> t]), Mac,
            [id : Identity \cup {NoName}, seen : Time])
  BY <1>1, PutTable, Zenon DEF TypeOK
<1>3. clock' \in Time
  BY Zenon DEF ObserveCdp, Observed, Tick, TypeOK
<1> QED BY <1>2, <1>3, Zenon DEF ObserveCdp, TypeOK, Table

LEMMA EvictionKeepsType ==
    ASSUME TypeOK, NEW t \in Time, EvictExpired(t)
    PROVE  TypeOK'
<1>1. Table(bindings', Ip, Binding)
  BY RetainTable, Zenon DEF EvictExpired, TypeOK, Fresh
<1>2. Table(replies', Mac, Seq(Reply) \ {<<>>})
  BY RetainTable, Zenon DEF EvictExpired, TypeOK
<1>3. Table(flaps', Mac, Seq(Sighting) \ {<<>>})
  BY RetainTable, Zenon DEF EvictExpired, TypeOK
<1>4. Table(servers', Server, Time)
  BY RetainTable, Zenon DEF EvictExpired, TypeOK
<1>5. Table(lldp', Mac, [id : Identity, seen : Time])
  BY RetainTable, Zenon DEF EvictExpired, TypeOK, Fresh
<1>6. Table(cdp', Mac, [id : Identity \cup {NoName}, seen : Time])
  BY RetainTable, Zenon DEF EvictExpired, TypeOK, Fresh
<1>7. clock' \in Time
  BY Zenon DEF EvictExpired, Tick, TypeOK
<1> QED BY <1>1, <1>2, <1>3, <1>4, <1>5, <1>6, <1>7, Zenon DEF EvictExpired, TypeOK

LEMMA InitType == Init => TypeOK
BY Naturals DEF Init, TypeOK, Table, Time

LEMMA StepKeepsType == TypeOK /\ [Next]_vars => TypeOK'
<1> SUFFICES ASSUME TypeOK, [Next]_vars PROVE TypeOK'
  BY Zenon
<1>1. CASE Next
  BY <1>1, ArpKeepsType, DhcpKeepsType, StpKeepsType, LldpKeepsType,
     CdpKeepsType, EvictionKeepsType, Zenon DEF Next
<1>2. CASE UNCHANGED vars
  BY <1>2, Zenon DEF vars, TypeOK, Table
<1> QED BY <1>1, <1>2, Zenon

\* The detectors keep their types under any input and configuration, and no
\* window that exists is ever empty.
THEOREM TypeCorrect == Spec => []TypeOK
<1> QED BY InitType, StepKeepsType, PTL DEF Spec

-----------------------------------------------------------------------------
(* Spoofing: the table of bindings remembers the last claim of every       *)
(* address, except of addresses whose claim is too old to matter.          *)

Entry ==
    [op : {"arp", "dhcp", "stp", "lldp", "cdp"},
     in : ArpFrame \cup DhcpMessage \cup Root \cup LldpFrame \cup CdpFrame,
     at : Time,
     alerts : SUBSET {"gratuitous", "flood", "spoof", "flap", "rogue",
                      "starvation", "unauthorized", "rootchange", "conflict"}]

LogOK ==
    /\ log \in Seq(Entry)
    /\ \A k \in DOMAIN log :
          /\ log[k].op = "arp" => log[k].in \in ArpFrame
          /\ log[k].op = "dhcp" => log[k].in \in DhcpMessage

\* j is the last entry of s that claims address i.
LastIn(s, j, i) ==
    /\ j \in 1 .. Len(s)
    /\ Claims(s[j], i)
    /\ \A n \in j + 1 .. Len(s) : ~Claims(s[n], i)

\* The binding of i agrees with the last claim of i, or the claim is older
\* than any binding the detector would still act upon.
Remembers(i) ==
    /\ i \in DOMAIN bindings => \E j \in DOMAIN log : LastIn(log, j, i)
    /\ \A j \in DOMAIN log :
          LastIn(log, j, i) =>
             \/ /\ i \in DOMAIN bindings
                /\ bindings[i].mac = Claimant(log[j])
                /\ bindings[i].seen = log[j].at
             \/ /\ i \notin DOMAIN bindings
                /\ log[j].at + DefaultTtl < clock

NeverBlessed ==
    \A i \in DOMAIN bindings : Unblessed(i) => ~bindings[i].blessed

IInv ==
    /\ TypeOK
    /\ LogOK
    /\ "arp" \in Checks => \A i \in Ip : Remembers(i)
    /\ NeverBlessed
    /\ SpoofExact

\* The state that evict_expired removes is too old for the ARP detector.
TtlsNested == DefaultTtl >= ArpTtl + Skew

LEMMA LogTimes ==
    ASSUME log \in Seq(Entry)
    PROVE  \A n \in DOMAIN log : log[n].at \in Nat
<1> TAKE n \in DOMAIN log
<1>1. log[n] \in Entry
  OBVIOUS
<1>2. log[n].at \in Time
  BY <1>1, Zenon DEF Entry
<1> QED BY <1>2, Naturals, Zenon

LEMMA LastOfAppend ==
    ASSUME NEW s \in Seq(Entry), NEW e, NEW i
    PROVE  \A j : LastIn(Append(s, e), j, i) <=>
                     IF Claims(e, i) THEN j = Len(s) + 1 ELSE LastIn(s, j, i)
<1> DEFINE a == Append(s, e)
<1>1. /\ Len(a) = Len(s) + 1 /\ Len(s) \in Nat /\ a[Len(s) + 1] = e
      /\ \A n \in 1 .. Len(s) : a[n] = s[n]
  OBVIOUS
<1> HIDE DEF a
<1>2. CASE Claims(e, i)
  <2>1. ASSUME NEW j, LastIn(a, j, i) PROVE j = Len(s) + 1
    <3>1. j \in 1 .. Len(s) + 1 /\ \A n \in j + 1 .. Len(s) + 1 : ~Claims(a[n], i)
      BY <1>1, <2>1, Zenon DEF LastIn
    <3>2. Len(s) + 1 \notin j + 1 .. Len(s) + 1
      BY <1>1, <1>2, <3>1, Zenon
    <3> QED BY <1>1, <3>1, <3>2
  <2>2. LastIn(a, Len(s) + 1, i)
    <3>1. Len(s) + 1 \in 1 .. Len(a) /\ (Len(s) + 1) + 1 .. Len(a) = {}
      BY <1>1
    <3>2. Claims(a[Len(s) + 1], i)
      BY <1>1, <1>2, Zenon
    <3> QED BY <3>1, <3>2, Zenon DEF LastIn
  <2> QED BY <1>2, <2>1, <2>2, Zenon DEF a
<1>3. CASE ~Claims(e, i)
  <2>1. ASSUME NEW j, LastIn(a, j, i) PROVE LastIn(s, j, i)
    <3>1. j \in 1 .. Len(s) + 1 /\ Claims(a[j], i)
      BY <1>1, <2>1, Zenon DEF LastIn
    <3>2. j # Len(s) + 1
      BY <1>1, <1>3, <3>1, Zenon
    <3>3. j \in 1 .. Len(s) /\ a[j] = s[j]
      BY <1>1, <3>1, <3>2
    <3>4. \A n \in j + 1 .. Len(s) : ~Claims(s[n], i)
      <4> TAKE n \in j + 1 .. Len(s)
      <4>1. n \in j + 1 .. Len(a) /\ a[n] = s[n]
        BY <1>1, <3>3
      <4>2. ~Claims(a[n], i)
        BY <2>1, <4>1, Zenon DEF LastIn
      <4> QED BY <4>1, <4>2, Zenon
    <3> QED BY <3>1, <3>3, <3>4, Zenon DEF LastIn
  <2>2. ASSUME NEW j, LastIn(s, j, i) PROVE LastIn(a, j, i)
    <3>1. j \in 1 .. Len(s) /\ Claims(s[j], i) /\ a[j] = s[j]
      BY <1>1, <2>2, Zenon DEF LastIn
    <3>2. \A n \in j + 1 .. Len(a) : ~Claims(a[n], i)
      <4> TAKE n \in j + 1 .. Len(a)
      <4>1. CASE n = Len(s) + 1
        BY <1>1, <1>3, <4>1, Zenon
      <4>2. CASE n \in j + 1 .. Len(s)
        <5>1. a[n] = s[n] /\ ~Claims(s[n], i)
          BY <1>1, <2>2, <3>1, <4>2 DEF LastIn
        <5> QED BY <5>1, Zenon
      <4> QED BY <1>1, <3>1, <4>1, <4>2
    <3>3. j \in 1 .. Len(a)
      BY <1>1, <3>1
    <3> QED BY <3>1, <3>2, <3>3, Zenon DEF LastIn
  <2> QED BY <1>3, <2>1, <2>2, Zenon DEF a
<1> QED BY <1>2, <1>3, Zenon

\* A claim within the binding TTL is within the general TTL, even when the
\* clock is ahead of the observation.
LEMMA RecentIsKept ==
    ASSUME TtlsNested, NEW at \in Nat, NEW t \in Nat, NEW now \in Nat,
           t + Skew >= now, t - at <= ArpTtl
    PROVE  ~(at + DefaultTtl < now)
<1>1. ArpTtl \in Nat /\ DefaultTtl \in Nat /\ Skew \in Nat
  BY Naturals, Zenon
<1> QED BY <1>1 DEF TtlsNested

\* What an observation does to the record of claims of an address.
LEMMA ObservedRemembers ==
    ASSUME IInv, "arp" \in Checks, NEW i \in Ip,
           NEW e, log' = Append(log, e),
           clock' \in Time, clock' >= clock,
           IF Claims(e, i)
           THEN /\ i \in DOMAIN bindings'
                /\ bindings'[i].mac = Claimant(e)
                /\ bindings'[i].seen = e.at
           ELSE /\ i \in DOMAIN bindings' <=> i \in DOMAIN bindings
                /\ i \in DOMAIN bindings => bindings'[i] = bindings[i]
    PROVE  Remembers(i)'
<1>1. log \in Seq(Entry) /\ Remembers(i)
  BY Zenon DEF IInv, LogOK
<1>2. \A j : LastIn(log', j, i) <=>
                 IF Claims(e, i) THEN j = Len(log) + 1 ELSE LastIn(log, j, i)
  BY <1>1, LastOfAppend, Zenon
<1>3. /\ DOMAIN log' = 1 .. Len(log) + 1 /\ DOMAIN log = 1 .. Len(log)
      /\ log'[Len(log) + 1] = e /\ Len(log) \in Nat
      /\ \A n \in DOMAIN log : log'[n] = log[n]
  BY <1>1
<1>4. clock \in Nat /\ clock' \in Nat /\ \A n \in DOMAIN log : log[n].at \in Nat
  BY <1>1, Naturals, LogTimes, Zenon DEF IInv, TypeOK
<1>5. CASE Claims(e, i)
  BY <1>2, <1>3, <1>5 DEF Remembers
<1>6. CASE ~Claims(e, i)
  <2>1. ASSUME i \in DOMAIN bindings'
        PROVE  \E j \in DOMAIN log' : LastIn(log', j, i)
    <3>1. PICK j \in DOMAIN log : LastIn(log, j, i)
      BY <1>1, <1>6, <2>1, Zenon DEF Remembers
    <3> QED BY <1>2, <1>3, <1>6, <3>1
  <2>2. ASSUME NEW j \in DOMAIN log', LastIn(log', j, i)
        PROVE  \/ /\ i \in DOMAIN bindings'
                  /\ bindings'[i].mac = Claimant(log'[j])
                  /\ bindings'[i].seen = log'[j].at
               \/ /\ i \notin DOMAIN bindings'
                  /\ log'[j].at + DefaultTtl < clock'
    <3>1. LastIn(log, j, i) /\ j \in DOMAIN log
      BY <1>2, <1>3, <1>6, <2>2, Zenon DEF LastIn
    <3>2. log'[j] = log[j]
      BY <1>3, <3>1, Zenon
    <3>3. CASE i \in DOMAIN bindings
      BY <1>1, <1>6, <3>1, <3>2, <3>3, Zenon DEF Remembers
    <3>4. CASE i \notin DOMAIN bindings
      <4>1. log[j].at + DefaultTtl < clock
        BY <1>1, <3>1, <3>4, Zenon DEF Remembers
      <4>2. log'[j].at + DefaultTtl < clock'
        BY <1>4, <3>1, <3>2, <4>1, Naturals
      <4> QED BY <1>6, <3>4, <4>2, Zenon
    <3> QED BY <3>3, <3>4, Zenon
  <2> QED BY <2>1, <2>2, Zenon DEF Remembers
<1> QED BY <1>5, <1>6, Zenon

\* Whether an alert is due for an observation e that comes next.
DueNext(e) ==
    /\ "arp" \in Checks
    /\ e.op = "arp"
    /\ <<e.in.mac, e.in.ip>> \notin Blessed
    /\ \E j \in DOMAIN log :
          /\ LastIn(log, j, e.in.ip)
          /\ Claimant(log[j]) # e.in.mac
          /\ e.at - log[j].at <= ArpTtl

\* Whether an alert was due for an observation does not depend on later ones.
LEMMA DueIsSettled ==
    ASSUME log \in Seq(Entry), NEW e, log' = Append(log, e),
           NEW k \in DOMAIN log
    PROVE  SpoofDue(k)' <=> SpoofDue(k)
<1>1. /\ \A n \in 1 .. k : log'[n] = log[n]
      /\ k \in Nat /\ k \in 1 .. k
  OBVIOUS
<1>2. \A j \in 1 .. k - 1 : j \in 1 .. k /\ \A n \in j + 1 .. k - 1 : n \in 1 .. k
  BY <1>1
<1>3. /\ log'[k] = log[k]
      /\ \A j \in 1 .. k - 1 :
            log'[j] = log[j] /\ \A n \in j + 1 .. k - 1 : log'[n] = log[n]
  BY <1>1, <1>2, Zenon
<1> QED BY <1>3, Zenon DEF SpoofDue, LastBefore

LEMMA DueForLatest ==
    ASSUME log \in Seq(Entry), NEW e, log' = Append(log, e),
           NEW k, k = Len(log) + 1
    PROVE  SpoofDue(k)' <=> DueNext(e)
<1>1. /\ Len(log) \in Nat /\ DOMAIN log = 1 .. Len(log)
      /\ log'[k] = e /\ \A n \in DOMAIN log : log'[n] = log[n]
      /\ k - 1 = Len(log)
  OBVIOUS
<1>2. \A j \in 1 .. Len(log) : \A n \in j + 1 .. Len(log) : n \in DOMAIN log
  BY <1>1
<1>3. \A j \in 1 .. Len(log) :
         (/\ Claims(log'[j], e.in.ip)
          /\ \A n \in j + 1 .. Len(log) : ~Claims(log'[n], e.in.ip))
         <=> LastIn(log, j, e.in.ip)
  BY <1>1, <1>2, Zenon DEF LastIn
<1>4. SpoofDue(k)' <=>
        /\ "arp" \in Checks
        /\ e.op = "arp"
        /\ <<e.in.mac, e.in.ip>> \notin Blessed
        /\ \E j \in 1 .. Len(log) :
              /\ /\ Claims(log'[j], e.in.ip)
                 /\ \A n \in j + 1 .. Len(log) : ~Claims(log'[n], e.in.ip)
              /\ Claimant(log'[j]) # e.in.mac
              /\ e.at - log'[j].at <= ArpTtl
  BY <1>1, Zenon DEF SpoofDue, LastBefore
<1> QED BY <1>1, <1>3, <1>4, Zenon DEF DueNext

LEMMA ObservedExact ==
    ASSUME IInv, NEW e, log' = Append(log, e),
           e.op = "arp" /\ Unblessed(e.in.ip)
              => ("spoof" \in e.alerts <=> DueNext(e))
    PROVE  SpoofExact'
<1>1. log \in Seq(Entry) /\ SpoofExact
  BY Zenon DEF IInv, LogOK
<1>2. /\ DOMAIN log' = DOMAIN log \cup {Len(log) + 1}
      /\ log'[Len(log) + 1] = e /\ \A n \in DOMAIN log : log'[n] = log[n]
  BY <1>1
<1>3. ASSUME NEW k \in DOMAIN log',
             log'[k].op = "arp", Unblessed(log'[k].in.ip)
      PROVE  "spoof" \in log'[k].alerts <=> SpoofDue(k)'
  <2>1. CASE k = Len(log) + 1
    BY <1>1, <1>2, <1>3, <2>1, DueForLatest, Zenon
  <2>2. CASE k \in DOMAIN log
    BY <1>1, <1>2, <1>3, <2>2, DueIsSettled, Zenon DEF SpoofExact
  <2> QED BY <1>2, <2>1, <2>2, Zenon
<1> QED BY <1>3, Zenon DEF SpoofExact, Unblessed

\* An observation extends the log by a well-formed entry.
LEMMA ObservedLog ==
    ASSUME LogOK, NEW e \in Entry, log' = Append(log, e),
           e.op = "arp" => e.in \in ArpFrame,
           e.op = "dhcp" => e.in \in DhcpMessage
    PROVE  LogOK'
<1>1. log' \in Seq(Entry)
  BY DEF LogOK
<1>2. /\ DOMAIN log' = DOMAIN log \cup {Len(log) + 1}
      /\ log'[Len(log) + 1] = e /\ \A n \in DOMAIN log : log'[n] = log[n]
  BY DEF LogOK
<1> QED BY <1>1, <1>2, Zenon DEF LogOK

LEMMA TickAdvances ==
    ASSUME TypeOK, NEW t \in Time, Tick(t)
    PROVE  clock' \in Time /\ clock' >= clock /\ t + Skew >= clock
BY Naturals DEF Tick, TypeOK

LEMMA ArpKeepsIInv ==
    ASSUME TtlsNested, IInv, NEW f \in ArpFrame, NEW t \in Time,
           ObserveArp(f, t)
    PROVE  IInv'
<1> DEFINE al == (IF "arp" \in Checks THEN ArpAlerts(f, t) ELSE {}) \cup
                 (IF "mac" \in Checks THEN FlapAlerts(f, t) ELSE {})
           e == [op |-> "arp", in |-> f, at |-> t, alerts |-> al]
<1>1. /\ log' = Append(log, e) /\ Tick(t)
      /\ "arp" \in Checks => bindings' = BindingsAfter(f, t)
      /\ "arp" \notin Checks => bindings' = bindings
  BY Zenon DEF ObserveArp, Observed
<1>2. f.mac \in Mac /\ f.ip \in Ip
  BY InputAssumption, Zenon
<1>3. e \in Entry
  <2>1. al \in SUBSET {"gratuitous", "flood", "spoof", "flap"}
    BY Zenon DEF ArpAlerts, FlapAlerts, Alert
  <2> QED BY <2>1, Zenon DEF Entry
<1>4. "spoof" \in al <=> "arp" \in Checks /\ Spoofing(f, t)
  BY Zenon DEF ArpAlerts, FlapAlerts, Alert
<1>5. /\ e.op = "arp" /\ e.in = f /\ e.at = t /\ e.alerts = al
      /\ Claimant(e) = f.mac
      /\ \A i : Claims(e, i) <=> i = f.ip
  BY Zenon DEF Claimant, Claims
<1>6. TypeOK /\ clock' \in Time /\ clock' >= clock /\ t + Skew >= clock
  BY <1>1, TickAdvances, Zenon DEF IInv
<1> HIDE DEF e, al
<1>7. ASSUME "arp" \in Checks, NEW i \in Ip
      PROVE  Remembers(i)'
  <2>1. IF i = f.ip THEN /\ i \in DOMAIN bindings'
                         /\ bindings'[i].mac = f.mac /\ bindings'[i].seen = t
        ELSE /\ i \in DOMAIN bindings' <=> i \in DOMAIN bindings
             /\ i \in DOMAIN bindings => bindings'[i] = bindings[i]
    BY <1>1, <1>7 DEF BindingsAfter, Put
  <2> QED BY <1>1, <1>5, <1>6, <1>7, <2>1, ObservedRemembers, Zenon
<1>8. NeverBlessed'
  <2>1. CASE "arp" \in Checks
    <3> SUFFICES ASSUME NEW i \in DOMAIN bindings', Unblessed(i)
                 PROVE  ~bindings'[i].blessed
      BY Zenon DEF NeverBlessed, Unblessed
    <3>1. CASE i = f.ip
      <4>1. <<f.mac, f.ip>> \notin Blessed
        BY <1>2, <3>1, Zenon DEF Unblessed
      <4>2. bindings'[i].blessed = IF f.ip \in DOMAIN bindings
                                   THEN bindings[f.ip].blessed
                                   ELSE <<f.mac, f.ip>> \in Blessed
        BY <1>1, <2>1, <3>1 DEF BindingsAfter, Put
      <4> QED BY <3>1, <4>1, <4>2, Zenon DEF IInv, NeverBlessed
    <3>2. CASE i # f.ip
      BY <1>1, <2>1, <3>2, Zenon DEF BindingsAfter, Put, IInv, NeverBlessed
    <3> QED BY <3>1, <3>2, Zenon
  <2>2. CASE "arp" \notin Checks
    BY <1>1, <2>2, Zenon DEF IInv, NeverBlessed, Unblessed
  <2> QED BY <2>1, <2>2, Zenon
<1>9. ASSUME Unblessed(f.ip)
      PROVE  "arp" \in Checks /\ Spoofing(f, t) <=> DueNext(e)
  <2> SUFFICES ASSUME "arp" \in Checks
               PROVE  Spoofing(f, t) <=> DueNext(e)
    BY Zenon DEF DueNext
  <2>1. <<f.mac, f.ip>> \notin Blessed
    BY <1>2, <1>9, Zenon DEF Unblessed
  <2>2. f.ip \in DOMAIN bindings => ~bindings[f.ip].blessed
    BY <1>9, Zenon DEF IInv, NeverBlessed
  <2>3. Remembers(f.ip)
    BY <1>2, Zenon DEF IInv
  <2>4. ASSUME Spoofing(f, t) PROVE DueNext(e)
    <3>1. PICK j \in DOMAIN log : LastIn(log, j, f.ip)
      BY <2>3, <2>4, Zenon DEF Spoofing, Remembers
    <3>2. bindings[f.ip].mac = Claimant(log[j]) /\ bindings[f.ip].seen = log[j].at
      BY <2>3, <2>4, <3>1, Zenon DEF Spoofing, Remembers
    <3> QED BY <1>5, <2>1, <2>4, <3>1, <3>2, Zenon DEF Spoofing, DueNext
  <2>5. ASSUME DueNext(e) PROVE Spoofing(f, t)
    <3>1. PICK j \in DOMAIN log : /\ LastIn(log, j, f.ip)
                                  /\ Claimant(log[j]) # f.mac
                                  /\ t - log[j].at <= ArpTtl
      BY <1>5, <2>5, Zenon DEF DueNext
    <3>2. log[j].at \in Nat /\ clock \in Nat /\ t \in Nat
      BY <1>6, Naturals, LogTimes, Zenon DEF IInv, LogOK, TypeOK
    <3>3. ~(log[j].at + DefaultTtl < clock)
      BY <1>6, <3>1, <3>2, RecentIsKept, Zenon
    <3> QED BY <2>1, <2>2, <2>3, <3>1, <3>3, Zenon DEF Spoofing, Remembers
  <2> QED BY <2>4, <2>5, Zenon
<1>10. SpoofExact'
  BY <1>1, <1>4, <1>5, <1>9, ObservedExact
<1>11. LogOK'
  BY <1>1, <1>3, <1>5, ObservedLog, Zenon DEF IInv
<1>12. TypeOK'
  BY <1>6, ArpKeepsType, Zenon
<1> QED BY <1>7, <1>8, <1>10, <1>11, <1>12, Zenon DEF IInv

LEMMA DhcpKeepsIInv ==
    ASSUME IInv, NEW d \in DhcpMessage, NEW t \in Time, ObserveDhcp(d, t)
    PROVE  IInv'
<1> DEFINE al == IF "dhcp" \in Checks THEN DhcpAlerts(d, t) ELSE {}
           e == [op |-> "dhcp", in |-> d, at |-> t, alerts |-> al]
<1>1. log' = Append(log, e) /\ Tick(t) /\ bindings' = Learned(d, t)
  BY Zenon DEF ObserveDhcp, Observed
<1>2. d.client \in Mac /\ None \notin Ip
  BY InputAssumption, Zenon
<1>3. e \in Entry
  <2>1. al \in SUBSET {"rogue", "starvation"}
    BY Zenon DEF DhcpAlerts, Alert
  <2> QED BY <2>1, Zenon DEF Entry
<1>4. /\ e.op = "dhcp" /\ e.in = d /\ e.at = t
      /\ Claimant(e) = d.client
      /\ \A i : Claims(e, i) <=> d.kind = "ack" /\ d.ip = i
  BY Zenon DEF Claimant, Claims
<1>5. TypeOK /\ clock' \in Time /\ clock' >= clock
  BY <1>1, TickAdvances, Zenon DEF IInv
<1> HIDE DEF e, al
<1>6. ASSUME "arp" \in Checks, NEW i \in Ip
      PROVE  Remembers(i)'
  <2>1. IF d.kind = "ack" /\ d.ip = i
        THEN /\ i \in DOMAIN bindings'
             /\ bindings'[i].mac = d.client /\ bindings'[i].seen = t
        ELSE /\ i \in DOMAIN bindings' <=> i \in DOMAIN bindings
             /\ i \in DOMAIN bindings => bindings'[i] = bindings[i]
    BY <1>1, <1>2, <1>6, Zenon DEF Learned, Put
  <2> QED BY <1>1, <1>4, <1>5, <1>6, <2>1, ObservedRemembers, Zenon
<1>7. NeverBlessed'
  <2> SUFFICES ASSUME NEW i \in DOMAIN bindings', Unblessed(i)
               PROVE  ~bindings'[i].blessed
    BY Zenon DEF NeverBlessed, Unblessed
  <2>1. CASE d.kind = "ack" /\ d.ip = i /\ d.ip # None
    <3>1. bindings'[i].blessed <=> i \in DOMAIN bindings /\ bindings[i].blessed
      BY <1>1, <2>1, Zenon DEF Learned, Put
    <3> QED BY <3>1, Zenon DEF IInv, NeverBlessed
  <2>2. CASE ~(d.kind = "ack" /\ d.ip = i /\ d.ip # None)
    <3>1. i \in DOMAIN bindings /\ bindings'[i] = bindings[i]
      BY <1>1, <2>2, Zenon DEF Learned, Put
    <3> QED BY <3>1, Zenon DEF IInv, NeverBlessed
  <2> QED BY <2>1, <2>2, Zenon
<1>8. SpoofExact'
  BY <1>1, <1>4, ObservedExact, Zenon
<1>9. LogOK'
  BY <1>1, <1>3, <1>4, ObservedLog, Zenon DEF IInv
<1>10. TypeOK'
  BY <1>5, DhcpKeepsType, Zenon
<1> QED BY <1>6, <1>7, <1>8, <1>9, <1>10, Zenon DEF IInv

\* Observations of the other protocols claim no address.
LEMMA OtherKeepsIInv ==
    ASSUME IInv, NEW e \in Entry, e.op \in {"stp", "lldp", "cdp"},
           log' = Append(log, e), NEW t \in Time, Tick(t),
           bindings' = bindings, TypeOK'
    PROVE  IInv'
<1>1. \A i : ~Claims(e, i)
  BY Zenon DEF Claims
<1>2. TypeOK /\ clock' \in Time /\ clock' >= clock
  BY TickAdvances, Zenon DEF IInv
<1>3. ASSUME "arp" \in Checks, NEW i \in Ip
      PROVE  Remembers(i)'
  BY <1>1, <1>2, <1>3, ObservedRemembers, Zenon
<1>4. NeverBlessed'
  BY Zenon DEF IInv, NeverBlessed, Unblessed
<1>5. SpoofExact'
  BY ObservedExact, Zenon
<1>6. LogOK'
  BY ObservedLog, Zenon DEF IInv
<1> QED BY <1>3, <1>4, <1>5, <1>6, Zenon DEF IInv

LEMMA StpKeepsIInv ==
    ASSUME IInv, NEW r \in Root, NEW t \in Time, ObserveStp(r, t)
    PROVE  IInv'
<1> DEFINE e == [op |-> "stp", in |-> r, at |-> t, alerts |-> StpAlerts(r)]
<1>1. log' = Append(log, e) /\ Tick(t) /\ bindings' = bindings
  BY Zenon DEF ObserveStp, Observed
<1>2. e \in Entry /\ e.op = "stp"
  BY Zenon DEF Entry, StpAlerts, Alert
<1>3. TypeOK'
  BY StpKeepsType, Zenon DEF IInv
<1> HIDE DEF e
<1> QED BY <1>1, <1>2, <1>3, OtherKeepsIInv, Zenon

LEMMA LldpKeepsIInv ==
    ASSUME IInv, NEW f \in LldpFrame, NEW t \in Time, ObserveLldp(f, t)
    PROVE  IInv'
<1> DEFINE e == [op |-> "lldp", in |-> f, at |-> t,
                 alerts |-> Alert("conflict", Conflicts(lldp, f, t))]
<1>1. log' = Append(log, e) /\ Tick(t) /\ bindings' = bindings
  BY Zenon DEF ObserveLldp, Observed
<1>2. e \in Entry /\ e.op = "lldp"
  BY Zenon DEF Entry, Alert
<1>3. TypeOK'
  BY LldpKeepsType, Zenon DEF IInv
<1> HIDE DEF e
<1> QED BY <1>1, <1>2, <1>3, OtherKeepsIInv, Zenon

LEMMA CdpKeepsIInv ==
    ASSUME IInv, NEW f \in CdpFrame, NEW t \in Time, ObserveCdp(f, t)
    PROVE  IInv'
<1> DEFINE e == [op |-> "cdp", in |-> f, at |-> t,
                 alerts |-> Alert("conflict", Conflicts(cdp, f, t))]
<1>1. log' = Append(log, e) /\ Tick(t) /\ bindings' = bindings
  BY Zenon DEF ObserveCdp, Observed
<1>2. e \in Entry /\ e.op = "cdp"
  BY Zenon DEF Entry, Alert
<1>3. TypeOK'
  BY CdpKeepsType, Zenon DEF IInv
<1> HIDE DEF e
<1> QED BY <1>1, <1>2, <1>3, OtherKeepsIInv, Zenon

\* Eviction forgets only claims that are too old to raise an alert.
LEMMA EvictionKeepsIInv ==
    ASSUME IInv, NEW t \in Time, EvictExpired(t)
    PROVE  IInv'
<1>1. /\ log' = log /\ Tick(t)
      /\ bindings' = [i \in Fresh(bindings, t, DefaultTtl) |-> bindings[i]]
  BY Zenon DEF EvictExpired, Retain
<1>2. TypeOK /\ clock' \in Nat /\ clock' >= clock /\ clock' >= t /\ t \in Nat
      /\ clock \in Nat
  BY <1>1, Naturals, TickAdvances DEF IInv, Tick, TypeOK
<1>3. ASSUME "arp" \in Checks, NEW i \in Ip
      PROVE  Remembers(i)'
  <2>1. Remembers(i)
    BY <1>3, Zenon DEF IInv
  <2>2. \A j \in DOMAIN log : log[j].at \in Nat
    BY LogTimes, Zenon DEF IInv, LogOK
  <2>3. CASE i \in DOMAIN bindings'
    <3>1. i \in DOMAIN bindings /\ bindings'[i] = bindings[i]
      BY <1>1, <2>3, Zenon DEF Fresh
    <3> QED BY <1>1, <2>1, <2>3, <3>1, Zenon DEF Remembers
  <2>4. CASE i \notin DOMAIN bindings'
    <3>1. ASSUME NEW j \in DOMAIN log, LastIn(log, j, i)
          PROVE  log[j].at + DefaultTtl < clock'
      <4>1. CASE i \in DOMAIN bindings
        <5>1. bindings[i].seen = log[j].at
          BY <2>1, <3>1, <4>1, Zenon DEF Remembers
        <5>2. ~(log[j].at >= t - DefaultTtl)
          BY <1>1, <2>4, <4>1, <5>1, Zenon DEF Fresh
        <5> QED BY <1>2, <2>2, <5>2, Naturals
      <4>2. CASE i \notin DOMAIN bindings
        <5>1. log[j].at + DefaultTtl < clock
          BY <2>1, <3>1, <4>2, Zenon DEF Remembers
        <5> QED BY <1>2, <2>2, <5>1, Naturals
      <4> QED BY <4>1, <4>2, Zenon
    <3> QED BY <1>1, <2>4, <3>1, Zenon DEF Remembers
  <2> QED BY <2>3, <2>4, Zenon
<1>4. NeverBlessed'
  BY <1>1, Zenon DEF IInv, NeverBlessed, Unblessed, Fresh
<1>5. SpoofExact' /\ LogOK'
  BY <1>1, Zenon DEF IInv, SpoofExact, SpoofDue, LastBefore, LogOK
<1>6. TypeOK'
  BY <1>2, EvictionKeepsType, Zenon
<1> QED BY <1>3, <1>4, <1>5, <1>6, Zenon DEF IInv

LEMMA InitIInv == Init => IInv
<1> SUFFICES ASSUME Init PROVE IInv
  BY Zenon
<1>1. TypeOK
  BY InitType, Zenon
<1>2. log = <<>> /\ DOMAIN log = {} /\ DOMAIN bindings = {}
  BY DEF Init
<1>3. LogOK /\ NeverBlessed /\ SpoofExact
  BY <1>2 DEF LogOK, NeverBlessed, SpoofExact
<1>4. \A i \in Ip : Remembers(i)
  BY <1>2, Zenon DEF Remembers
<1> QED BY <1>1, <1>3, <1>4, Zenon DEF IInv

LEMMA StepKeepsIInv == TtlsNested /\ IInv /\ [Next]_vars => IInv'
<1> SUFFICES ASSUME TtlsNested, IInv, [Next]_vars PROVE IInv'
  BY Zenon
<1>1. CASE Next
  BY <1>1, ArpKeepsIInv, DhcpKeepsIInv, StpKeepsIInv, LldpKeepsIInv,
     CdpKeepsIInv, EvictionKeepsIInv, Zenon DEF Next
<1>2. CASE UNCHANGED vars
  <2>1. TypeOK'
    BY <1>2, StepKeepsType, Zenon DEF IInv
  <2> QED BY <1>2, <2>1, Zenon DEF vars, IInv, LogOK, Remembers, NeverBlessed,
                            Unblessed, SpoofExact, SpoofDue, LastBefore
<1> QED BY <1>1, <1>2, Zenon

\* When the general TTL exceeds the binding TTL by the amount timestamps may
\* step back, the ARP detector raises a spoofing alert exactly when another
\* MAC was the last to claim the address within the binding TTL: the
\* evictions at the end of a segment hide no takeover, and no alert is raised
\* for a binding that has expired or that nobody claimed.
THEOREM SpoofAlertsExact ==
    ASSUME TtlsNested
    PROVE  Spec => []SpoofExact
<1>1. IInv => SpoofExact
  BY Zenon DEF IInv
<1>2. IInv /\ [Next]_vars => IInv'
  BY StepKeepsIInv, Zenon
<1> QED BY <1>1, <1>2, InitIInv, PTL DEF Spec

-----------------------------------------------------------------------------
(* Identities: a table of neighbours remembers the last advertisement of   *)
(* every MAC, except of those that are older than the identity TTL.        *)

\* What each observation adds to the log.
LEMMA ArpEntry ==
    ASSUME NEW f \in ArpFrame, NEW t \in Time, ObserveArp(f, t)
    PROVE  \E e \in Entry :
              /\ e.op = "arp" /\ e.in = f /\ e.at = t
              /\ e.alerts = (IF "arp" \in Checks THEN ArpAlerts(f, t) ELSE {}) \cup
                            (IF "mac" \in Checks THEN FlapAlerts(f, t) ELSE {})
              /\ log' = Append(log, e) /\ Tick(t)
<1> DEFINE al == (IF "arp" \in Checks THEN ArpAlerts(f, t) ELSE {}) \cup
                 (IF "mac" \in Checks THEN FlapAlerts(f, t) ELSE {})
           e == [op |-> "arp", in |-> f, at |-> t, alerts |-> al]
<1>1. al \in SUBSET {"gratuitous", "flood", "spoof", "flap"}
  BY Zenon DEF ArpAlerts, FlapAlerts, Alert
<1>2. log' = Append(log, e) /\ Tick(t)
  BY Zenon DEF ObserveArp, Observed
<1> HIDE DEF al
<1>3. e \in Entry
  BY <1>1, Zenon DEF Entry
<1>4. e.op = "arp" /\ e.in = f /\ e.at = t /\ e.alerts = al
  BY Zenon
<1> HIDE DEF e
<1> QED BY <1>2, <1>3, <1>4, Zenon DEF al

LEMMA DhcpEntry ==
    ASSUME NEW d \in DhcpMessage, NEW t \in Time, ObserveDhcp(d, t)
    PROVE  \E e \in Entry :
              /\ e.op = "dhcp" /\ e.in = d /\ e.at = t
              /\ e.alerts = IF "dhcp" \in Checks THEN DhcpAlerts(d, t) ELSE {}
              /\ log' = Append(log, e) /\ Tick(t)
<1> DEFINE al == IF "dhcp" \in Checks THEN DhcpAlerts(d, t) ELSE {}
           e == [op |-> "dhcp", in |-> d, at |-> t, alerts |-> al]
<1>1. al \in SUBSET {"rogue", "starvation"}
  BY Zenon DEF DhcpAlerts, Alert
<1>2. log' = Append(log, e) /\ Tick(t)
  BY Zenon DEF ObserveDhcp, Observed
<1> HIDE DEF al
<1>3. e \in Entry
  BY <1>1, Zenon DEF Entry
<1>4. e.op = "dhcp" /\ e.in = d /\ e.at = t /\ e.alerts = al
  BY Zenon
<1> HIDE DEF e
<1> QED BY <1>2, <1>3, <1>4, Zenon DEF al

LEMMA StpEntry ==
    ASSUME NEW r \in Root, NEW t \in Time, ObserveStp(r, t)
    PROVE  \E e \in Entry :
              /\ e.op = "stp" /\ e.in = r /\ e.at = t
              /\ e.alerts \subseteq {"unauthorized", "rootchange"}
              /\ log' = Append(log, e) /\ Tick(t)
<1> DEFINE al == StpAlerts(r)
           e == [op |-> "stp", in |-> r, at |-> t, alerts |-> al]
<1>1. al \subseteq {"unauthorized", "rootchange"}
  BY Zenon DEF StpAlerts, Alert
<1>2. log' = Append(log, e) /\ Tick(t)
  BY Zenon DEF ObserveStp, Observed
<1> HIDE DEF al
<1>3. e \in Entry
  BY <1>1, Zenon DEF Entry
<1>4. e.op = "stp" /\ e.in = r /\ e.at = t /\ e.alerts = al
  BY Zenon
<1> HIDE DEF e
<1> QED BY <1>1, <1>2, <1>3, <1>4, Zenon

LEMMA LldpEntry ==
    ASSUME NEW f \in LldpFrame, NEW t \in Time, ObserveLldp(f, t)
    PROVE  \E e \in Entry :
              /\ e.op = "lldp" /\ e.in = f /\ e.at = t
              /\ e.alerts = Alert("conflict", Conflicts(lldp, f, t))
              /\ log' = Append(log, e) /\ Tick(t)
<1> DEFINE al == Alert("conflict", Conflicts(lldp, f, t))
           e == [op |-> "lldp", in |-> f, at |-> t, alerts |-> al]
<1>1. al \subseteq {"conflict"}
  BY Zenon DEF Alert
<1>2. log' = Append(log, e) /\ Tick(t)
  BY Zenon DEF ObserveLldp, Observed
<1> HIDE DEF al
<1>3. e \in Entry
  BY <1>1, Zenon DEF Entry
<1>4. e.op = "lldp" /\ e.in = f /\ e.at = t /\ e.alerts = al
  BY Zenon
<1> HIDE DEF e
<1> QED BY <1>2, <1>3, <1>4, Zenon DEF al

LEMMA CdpEntry ==
    ASSUME NEW f \in CdpFrame, NEW t \in Time, ObserveCdp(f, t)
    PROVE  \E e \in Entry :
              /\ e.op = "cdp" /\ e.in = f /\ e.at = t
              /\ e.alerts = Alert("conflict", Conflicts(cdp, f, t))
              /\ log' = Append(log, e) /\ Tick(t)
<1> DEFINE al == Alert("conflict", Conflicts(cdp, f, t))
           e == [op |-> "cdp", in |-> f, at |-> t, alerts |-> al]
<1>1. al \subseteq {"conflict"}
  BY Zenon DEF Alert
<1>2. log' = Append(log, e) /\ Tick(t)
  BY Zenon DEF ObserveCdp, Observed
<1> HIDE DEF al
<1>3. e \in Entry
  BY <1>1, Zenon DEF Entry
<1>4. e.op = "cdp" /\ e.in = f /\ e.at = t /\ e.alerts = al
  BY Zenon
<1> HIDE DEF e
<1> QED BY <1>2, <1>3, <1>4, Zenon DEF al

\* The observations by which MAC m made itself known, with one protocol.
Adverts(s, op, m) == {n \in DOMAIN s : s[n].op = op /\ s[n].in.mac = m}

IsLast(j, S) == j \in S /\ \A n \in S : n <= j

\* The entry of m agrees with the last advertisement of m in s, or there is
\* none and the advertisement is older than the identity TTL.
Noted(s, now, table, op, m) ==
    /\ m \in DOMAIN table => \E j \in DOMAIN s : IsLast(j, Adverts(s, op, m))
    /\ \A j \in DOMAIN s :
          IsLast(j, Adverts(s, op, m)) =>
             IF m \in DOMAIN table
             THEN table[m].id = s[j].in.id /\ table[m].seen = s[j].at
             ELSE s[j].at + IdentityTtl < now

NamesNoted ==
    \A m \in Mac : Noted(log, clock, lldp, "lldp", m) /\ Noted(log, clock, cdp, "cdp", m)

CInv == TypeOK /\ log \in Seq(Entry) /\ NamesNoted /\ ConflictsReported

LEMMA Grows ==
    ASSUME NEW s \in Seq(Entry), NEW e \in Entry
    PROVE  /\ Append(s, e) \in Seq(Entry)
           /\ Len(s) \in Nat /\ DOMAIN s = 1 .. Len(s)
           /\ Len(Append(s, e)) = Len(s) + 1 /\ DOMAIN Append(s, e) = 1 .. Len(s) + 1
           /\ DOMAIN Append(s, e) = DOMAIN s \cup {Len(s) + 1}
           /\ Append(s, e)[Len(s) + 1] = e
           /\ \A n \in DOMAIN s : Append(s, e)[n] = s[n]
OBVIOUS

LEMMA EntryTimes ==
    ASSUME NEW s \in Seq(Entry), NEW n \in DOMAIN s
    PROVE  s[n].at \in Nat
<1>1. s[n] \in Entry
  OBVIOUS
<1> QED BY <1>1, Naturals, Zenon DEF Entry

LEMMA AdvertsGrow ==
    ASSUME NEW s \in Seq(Entry), NEW e \in Entry, NEW op, NEW m
    PROVE  Adverts(Append(s, e), op, m) =
              IF e.op = op /\ e.in.mac = m
              THEN Adverts(s, op, m) \cup {Len(s) + 1} ELSE Adverts(s, op, m)
<1> DEFINE a == Append(s, e)
<1>1. /\ DOMAIN a = DOMAIN s \cup {Len(s) + 1}
      /\ a[Len(s) + 1] = e /\ \A n \in DOMAIN s : a[n] = s[n]
      /\ Len(s) + 1 \notin DOMAIN s
  BY Grows
<1> HIDE DEF a
<1>2. Adverts(a, op, m) = IF e.op = op /\ e.in.mac = m
                          THEN Adverts(s, op, m) \cup {Len(s) + 1} ELSE Adverts(s, op, m)
  BY <1>1, Zenon DEF Adverts
<1> QED BY <1>2, Zenon DEF a

\* What an observation does to the record of the advertisements of m.
LEMMA ObservedNoted ==
    ASSUME NEW s \in Seq(Entry), NEW e \in Entry, NEW a, a = Append(s, e),
           NEW op, NEW m, NEW table, NEW after, NEW now \in Nat, NEW later \in Nat,
           Noted(s, now, table, op, m), later >= now,
           IF e.op = op /\ e.in.mac = m
           THEN m \in DOMAIN after /\ after[m].id = e.in.id /\ after[m].seen = e.at
           ELSE /\ m \in DOMAIN after <=> m \in DOMAIN table
                /\ m \in DOMAIN table => after[m] = table[m]
    PROVE  Noted(a, later, after, op, m)
<1>1. /\ Len(s) \in Nat /\ DOMAIN s = 1 .. Len(s)
      /\ DOMAIN a = DOMAIN s \cup {Len(s) + 1}
      /\ a[Len(s) + 1] = e /\ \A n \in DOMAIN s : a[n] = s[n]
  BY Grows, Zenon
<1>2. CASE e.op = op /\ e.in.mac = m
  <2>1. \A j \in DOMAIN a : IsLast(j, Adverts(a, op, m)) <=> j = Len(s) + 1
    <3>1. Adverts(a, op, m) = Adverts(s, op, m) \cup {Len(s) + 1}
      BY <1>2, AdvertsGrow, Zenon
    <3>2. \A n \in Adverts(s, op, m) : n \in 1 .. Len(s)
      BY <1>1, Zenon DEF Adverts
    <3> QED BY <1>1, <3>1, <3>2 DEF IsLast
  <2> QED BY <1>1, <1>2, <2>1, Zenon DEF Noted
<1>3. CASE ~(e.op = op /\ e.in.mac = m)
  <2>1. Adverts(a, op, m) = Adverts(s, op, m)
    BY <1>3, AdvertsGrow
  <2>3. \A j : IsLast(j, Adverts(a, op, m)) => j \in DOMAIN s /\ IsLast(j, Adverts(s, op, m))
    BY <2>1, Zenon DEF IsLast, Adverts
  <2>4. ASSUME NEW j \in DOMAIN a, IsLast(j, Adverts(a, op, m))
        PROVE  IF m \in DOMAIN after
               THEN after[m].id = a[j].in.id /\ after[m].seen = a[j].at
               ELSE a[j].at + IdentityTtl < later
    <3>1. j \in DOMAIN s /\ IsLast(j, Adverts(s, op, m)) /\ a[j] = s[j] /\ s[j].at \in Nat
      BY <1>1, <2>3, <2>4, EntryTimes, Zenon
    <3>2. CASE m \in DOMAIN table
      BY <1>3, <3>1, <3>2, Zenon DEF Noted
    <3>3. CASE m \notin DOMAIN table
      <4>1. s[j].at + IdentityTtl < now
        BY <3>1, <3>3, Zenon DEF Noted
      <4>2. s[j].at + IdentityTtl < later
        BY <3>1, <4>1, Naturals
      <4> QED BY <1>3, <3>1, <3>3, <4>2, Zenon
    <3> QED BY <3>2, <3>3, Zenon
  <2>5. ASSUME m \in DOMAIN after
        PROVE  \E j \in DOMAIN a : IsLast(j, Adverts(a, op, m))
    BY <1>1, <1>3, <2>1, <2>5, Zenon DEF Noted
  <2> QED BY <2>4, <2>5, Zenon DEF Noted
<1> QED BY <1>2, <1>3, Zenon

\* The advertisement that observation k contradicts, if there is one.
Changed(k) ==
    {j \in 1 .. k - 1 :
       /\ LastBefore(j, k, LAMBDA e : e.op = log[k].op /\ e.in.mac = log[k].in.mac)
       /\ log[k].in.id \notin {log[j].in.id, NoName}}

LEMMA ChangedIsSettled ==
    ASSUME log \in Seq(Entry), NEW e \in Entry, log' = Append(log, e),
           NEW k \in DOMAIN log
    PROVE  Changed(k)' = Changed(k)
<1>1. /\ \A n \in 1 .. k : log'[n] = log[n]
      /\ k \in Nat /\ k \in 1 .. k
  OBVIOUS
<1>2. \A j \in 1 .. k - 1 : j \in 1 .. k /\ \A n \in j + 1 .. k - 1 : n \in 1 .. k
  BY <1>1
<1>3. /\ log'[k] = log[k]
      /\ \A j \in 1 .. k - 1 :
            log'[j] = log[j] /\ \A n \in j + 1 .. k - 1 : log'[n] = log[n]
  BY <1>1, <1>2, Zenon
<1>4. ASSUME NEW j \in 1 .. k - 1 PROVE j \in Changed(k)' <=> j \in Changed(k)
  <2> DEFINE Is(n) == log[n].op = log[k].op /\ log[n].in.mac = log[k].in.mac
             Is2(n) == log'[n].op = log'[k].op /\ log'[n].in.mac = log'[k].in.mac
  <2>1. /\ \A n \in j + 1 .. k - 1 : Is2(n) <=> Is(n)
        /\ Is2(j) <=> Is(j)
    BY <1>3, <1>4, Zenon
  <2>2. j \in Changed(k) <=>
           /\ Is(j) /\ \A n \in j + 1 .. k - 1 : ~Is(n)
           /\ log[k].in.id \notin {log[j].in.id, NoName}
    BY <1>4, Zenon DEF Changed, LastBefore
  <2>3. j \in Changed(k)' <=>
           /\ Is2(j) /\ \A n \in j + 1 .. k - 1 : ~Is2(n)
           /\ log'[k].in.id \notin {log'[j].in.id, NoName}
    BY <1>4, Zenon DEF Changed, LastBefore
  <2> HIDE DEF Is, Is2
  <2> QED BY <1>3, <1>4, <2>1, <2>2, <2>3, Zenon
<1>5. Changed(k) \subseteq 1 .. k - 1 /\ Changed(k)' \subseteq 1 .. k - 1
  BY Zenon DEF Changed
<1> QED BY <1>4, <1>5, Zenon

LEMMA ChangedByLatest ==
    ASSUME log \in Seq(Entry), NEW e \in Entry, log' = Append(log, e),
           NEW k, k = Len(log) + 1
    PROVE  \A j : j \in Changed(k)' <=>
              /\ j \in DOMAIN log /\ IsLast(j, Adverts(log, e.op, e.in.mac))
              /\ e.in.id \notin {log[j].in.id, NoName}
<1>1. /\ Len(log) \in Nat /\ DOMAIN log = 1 .. Len(log)
      /\ log'[k] = e /\ \A n \in DOMAIN log : log'[n] = log[n]
      /\ k - 1 = Len(log)
  BY Grows
<1> DEFINE Is(n) == log[n].op = e.op /\ log[n].in.mac = e.in.mac
           Is2(n) == log'[n].op = e.op /\ log'[n].in.mac = e.in.mac
<1>2. \A n \in DOMAIN log : Is2(n) <=> Is(n)
  BY <1>1, Zenon
<1>3. \A j \in 1 .. Len(log) : \A n \in j + 1 .. Len(log) : n \in DOMAIN log
  BY <1>1
<1>4. \A j : j \in Changed(k)' <=>
          /\ j \in 1 .. Len(log)
          /\ Is2(j) /\ \A n \in j + 1 .. Len(log) : ~Is2(n)
          /\ e.in.id \notin {log'[j].in.id, NoName}
  <2>1. \A j : j \in Changed(k)' <=>
          /\ j \in 1 .. k - 1
          /\ /\ log'[j].op = log'[k].op /\ log'[j].in.mac = log'[k].in.mac
             /\ \A n \in j + 1 .. k - 1 :
                   ~(log'[n].op = log'[k].op /\ log'[n].in.mac = log'[k].in.mac)
          /\ log'[k].in.id \notin {log'[j].in.id, NoName}
    BY Zenon DEF Changed, LastBefore
  <2>2. log'[k] = e /\ k - 1 = Len(log)
    BY <1>1, Zenon
  <2> QED BY <2>1, <2>2
<1>5. \A j \in DOMAIN log : IsLast(j, Adverts(log, e.op, e.in.mac)) <=>
          Is(j) /\ \A n \in j + 1 .. Len(log) : ~Is(n)
  <2> TAKE j \in DOMAIN log
  <2> HIDE DEF Is
  <2>1. Adverts(log, e.op, e.in.mac) = {n \in DOMAIN log : Is(n)}
    BY Zenon DEF Adverts, Is
  <2> QED BY <1>1, <2>1 DEF IsLast
<1> HIDE DEF Is, Is2
<1>6. ASSUME NEW j \in DOMAIN log
      PROVE  (\A n \in j + 1 .. Len(log) : ~Is2(n)) <=> (\A n \in j + 1 .. Len(log) : ~Is(n))
  BY <1>1, <1>2, <1>3, <1>6, Zenon
<1> QED BY <1>1, <1>2, <1>4, <1>5, <1>6, Zenon

LEMMA ObservedConflicts ==
    ASSUME log \in Seq(Entry), NEW e \in Entry, log' = Append(log, e),
           ConflictsReported,
           e.op \in {"lldp", "cdp"} =>
              /\ "conflict" \in e.alerts =>
                    \E j \in DOMAIN log : /\ IsLast(j, Adverts(log, e.op, e.in.mac))
                                          /\ e.in.id \notin {log[j].in.id, NoName}
              /\ \A j \in DOMAIN log :
                    /\ IsLast(j, Adverts(log, e.op, e.in.mac))
                    /\ e.in.id \notin {log[j].in.id, NoName}
                    /\ e.at - log[j].at <= IdentityTtl - Skew
                    => "conflict" \in e.alerts
    PROVE  ConflictsReported'
<1>1. /\ DOMAIN log' = DOMAIN log \cup {Len(log) + 1}
      /\ log'[Len(log) + 1] = e /\ \A n \in DOMAIN log : log'[n] = log[n]
  BY Grows, Zenon
<1>2. ASSUME NEW k \in DOMAIN log', log'[k].op \in {"lldp", "cdp"}
      PROVE  /\ "conflict" \in log'[k].alerts => Changed(k)' # {}
             /\ (\E j \in Changed(k)' : log'[k].at - log'[j].at <= IdentityTtl - Skew)
                   => "conflict" \in log'[k].alerts
  <2>1. CASE k = Len(log) + 1
    <3>1. \A j : j \in Changed(k)' <=>
              /\ j \in DOMAIN log /\ IsLast(j, Adverts(log, e.op, e.in.mac))
              /\ e.in.id \notin {log[j].in.id, NoName}
      BY <2>1, ChangedByLatest, Zenon
    <3> HIDE DEF Changed
    <3> QED BY <1>1, <1>2, <2>1, <3>1
  <2>2. CASE k \in DOMAIN log
    <3>1. Changed(k)' = Changed(k)
      BY <2>2, ChangedIsSettled, Zenon
    <3>2. log'[k] = log[k] /\ \A j \in Changed(k) : log'[j] = log[j]
      <4>1. \A j \in 1 .. k - 1 : j \in DOMAIN log
        BY <2>2
      <4>2. \A j \in Changed(k) : j \in 1 .. k - 1
        BY Zenon DEF Changed, LastBefore
      <4> QED BY <1>1, <2>2, <4>1, <4>2, Zenon
    <3>3. /\ "conflict" \in log[k].alerts => Changed(k) # {}
          /\ (\E j \in Changed(k) : log[k].at - log[j].at <= IdentityTtl - Skew)
                => "conflict" \in log[k].alerts
      BY <1>2, <2>2, <3>2, Zenon DEF ConflictsReported, Changed
    <3> QED BY <3>1, <3>2, <3>3, Zenon
  <2> QED BY <1>1, <2>1, <2>2, Zenon
<1> QED BY <1>2, Zenon DEF ConflictsReported, Changed

\* The decision of the detector agrees with the log.
LEMMA DetectsConflicts ==
    ASSUME log \in Seq(Entry), NEW op, NEW table, NEW f,
           Noted(log, clock, table, op, f.mac), clock \in Nat,
           NEW t \in Time, t + Skew >= clock
    PROVE  /\ Conflicts(table, f, t) =>
                 \E j \in DOMAIN log : /\ IsLast(j, Adverts(log, op, f.mac))
                                       /\ f.id \notin {log[j].in.id, NoName}
           /\ \A j \in DOMAIN log :
                 /\ IsLast(j, Adverts(log, op, f.mac))
                 /\ f.id \notin {log[j].in.id, NoName}
                 /\ t - log[j].at <= IdentityTtl - Skew
                 => Conflicts(table, f, t)
<1>1. ASSUME Conflicts(table, f, t)
      PROVE  \E j \in DOMAIN log : /\ IsLast(j, Adverts(log, op, f.mac))
                                   /\ f.id \notin {log[j].in.id, NoName}
  BY <1>1, Zenon DEF Conflicts, Noted
<1>2. ASSUME NEW j \in DOMAIN log, IsLast(j, Adverts(log, op, f.mac)),
             f.id \notin {log[j].in.id, NoName},
             t - log[j].at <= IdentityTtl - Skew
      PROVE  Conflicts(table, f, t)
  <2>1. log[j].at \in Nat /\ t \in Nat
    BY LogTimes, Naturals, SMTT(30)
  <2>2. ~(log[j].at + IdentityTtl < clock)
    BY <1>2, <2>1, Naturals, SMTT(30)
  <2>3. f.mac \in DOMAIN table /\ table[f.mac].id = log[j].in.id
    BY <1>2, <2>2, Zenon DEF Noted
  <2> QED BY <1>2, <2>3, Zenon DEF Conflicts
<1> QED BY <1>1, <1>2, Zenon

\* An observation of another protocol leaves the identities alone.
LEMMA OtherKeepsCInv ==
    ASSUME CInv, NEW e \in Entry, e.op \in {"arp", "dhcp", "stp"},
           log' = Append(log, e), NEW t \in Time, Tick(t),
           lldp' = lldp, cdp' = cdp, TypeOK'
    PROVE  CInv'
<1>1. clock \in Nat /\ clock' \in Nat /\ clock' >= clock
  BY TickAdvances, Naturals, Zenon DEF CInv, TypeOK
<1>2. log \in Seq(Entry) /\ log' \in Seq(Entry)
  BY Grows DEF CInv
<1>3. ConflictsReported'
  BY <1>2, ObservedConflicts, Zenon DEF CInv
<1>4. ASSUME NEW m \in Mac
      PROVE  Noted(log, clock, lldp, "lldp", m)'
  <2>1. Noted(log, clock, lldp, "lldp", m) /\ e.op # "lldp"
    BY DEF CInv, NamesNoted
  <2> QED BY <1>1, <1>2, <2>1, ObservedNoted, Zenon
<1>5. ASSUME NEW m \in Mac
      PROVE  Noted(log, clock, cdp, "cdp", m)'
  <2>1. Noted(log, clock, cdp, "cdp", m) /\ e.op # "cdp"
    BY Zenon DEF CInv, NamesNoted
  <2> QED BY <1>1, <1>2, <2>1, ObservedNoted, Zenon
<1> QED BY <1>2, <1>3, <1>4, <1>5 DEF CInv, NamesNoted

LEMMA LldpKeepsCInv ==
    ASSUME CInv, NEW f \in LldpFrame, NEW t \in Time, ObserveLldp(f, t)
    PROVE  CInv'
<1>1. PICK e \in Entry : /\ e.op = "lldp" /\ e.in = f /\ e.at = t
                         /\ e.alerts = Alert("conflict", Conflicts(lldp, f, t))
                         /\ log' = Append(log, e) /\ Tick(t)
  BY LldpEntry, Zenon
<1>2. TypeOK' /\ clock \in Nat /\ clock' \in Nat /\ clock' >= clock /\ t + Skew >= clock
  BY <1>1, TickAdvances, LldpKeepsType, Naturals, Zenon DEF CInv, TypeOK
<1>3. log \in Seq(Entry) /\ log' \in Seq(Entry) /\ f.mac \in Mac
  BY <1>1, Grows, InputAssumption, Zenon DEF CInv
<1>4. Noted(log, clock, lldp, "lldp", f.mac)
  BY <1>3, Zenon DEF CInv, NamesNoted
<1>5. "conflict" \in e.alerts <=> Conflicts(lldp, f, t)
  BY <1>1, Zenon DEF Alert
<1>6. ConflictsReported'
  <2>1. /\ "conflict" \in e.alerts =>
              \E j \in DOMAIN log : /\ IsLast(j, Adverts(log, e.op, e.in.mac))
                                    /\ e.in.id \notin {log[j].in.id, NoName}
        /\ \A j \in DOMAIN log :
              /\ IsLast(j, Adverts(log, e.op, e.in.mac))
              /\ e.in.id \notin {log[j].in.id, NoName}
              /\ e.at - log[j].at <= IdentityTtl - Skew
              => "conflict" \in e.alerts
    <3>1. /\ Conflicts(lldp, f, t) =>
                \E j \in DOMAIN log : /\ IsLast(j, Adverts(log, "lldp", f.mac))
                                      /\ f.id \notin {log[j].in.id, NoName}
          /\ \A j \in DOMAIN log :
                /\ IsLast(j, Adverts(log, "lldp", f.mac))
                /\ f.id \notin {log[j].in.id, NoName}
                /\ t - log[j].at <= IdentityTtl - Skew
                => Conflicts(lldp, f, t)
      BY <1>2, <1>3, <1>4, DetectsConflicts, Zenon
    <3> QED BY <1>1, <1>5, <3>1, Zenon
  <2> QED BY <1>1, <1>3, <2>1, ObservedConflicts DEF CInv
<1>7. lldp' = Put(lldp, f.mac, [id |-> f.id, seen |-> t]) /\ cdp' = cdp
  BY Zenon DEF ObserveLldp
<1>8. ASSUME NEW m \in Mac
      PROVE  Noted(log', clock', lldp', "lldp", m)
  <2>1. IF e.op = "lldp" /\ e.in.mac = m
        THEN m \in DOMAIN lldp' /\ lldp'[m].id = e.in.id /\ lldp'[m].seen = e.at
        ELSE /\ m \in DOMAIN lldp' <=> m \in DOMAIN lldp
             /\ m \in DOMAIN lldp => lldp'[m] = lldp[m]
    BY <1>1, <1>7, Zenon DEF Put
  <2>2. Noted(log, clock, lldp, "lldp", m)
    BY Zenon DEF CInv, NamesNoted
  <2> QED BY <1>1, <1>2, <1>3, <2>1, <2>2, ObservedNoted, Zenon
<1>9. ASSUME NEW m \in Mac
      PROVE  Noted(log', clock', cdp', "cdp", m)
  <2>1. Noted(log, clock, cdp, "cdp", m) /\ e.op # "cdp"
    BY <1>1, Zenon DEF CInv, NamesNoted
  <2> QED BY <1>1, <1>2, <1>3, <1>7, <2>1, ObservedNoted, Zenon
<1> QED BY <1>2, <1>3, <1>6, <1>8, <1>9 DEF CInv, NamesNoted

LEMMA CdpKeepsCInv ==
    ASSUME CInv, NEW f \in CdpFrame, NEW t \in Time, ObserveCdp(f, t)
    PROVE  CInv'
<1>1. PICK e \in Entry : /\ e.op = "cdp" /\ e.in = f /\ e.at = t
                         /\ e.alerts = Alert("conflict", Conflicts(cdp, f, t))
                         /\ log' = Append(log, e) /\ Tick(t)
  BY CdpEntry, Zenon
<1>2. TypeOK' /\ clock \in Nat /\ clock' \in Nat /\ clock' >= clock /\ t + Skew >= clock
  BY <1>1, TickAdvances, CdpKeepsType, Naturals, Zenon DEF CInv, TypeOK
<1>3. log \in Seq(Entry) /\ log' \in Seq(Entry) /\ f.mac \in Mac
  BY <1>1, Grows, InputAssumption, Zenon DEF CInv
<1>4. Noted(log, clock, cdp, "cdp", f.mac)
  BY <1>3, Zenon DEF CInv, NamesNoted
<1>5. "conflict" \in e.alerts <=> Conflicts(cdp, f, t)
  BY <1>1, Zenon DEF Alert
<1>6. ConflictsReported'
  <2>1. /\ "conflict" \in e.alerts =>
              \E j \in DOMAIN log : /\ IsLast(j, Adverts(log, e.op, e.in.mac))
                                    /\ e.in.id \notin {log[j].in.id, NoName}
        /\ \A j \in DOMAIN log :
              /\ IsLast(j, Adverts(log, e.op, e.in.mac))
              /\ e.in.id \notin {log[j].in.id, NoName}
              /\ e.at - log[j].at <= IdentityTtl - Skew
              => "conflict" \in e.alerts
    <3>1. /\ Conflicts(cdp, f, t) =>
                \E j \in DOMAIN log : /\ IsLast(j, Adverts(log, "cdp", f.mac))
                                      /\ f.id \notin {log[j].in.id, NoName}
          /\ \A j \in DOMAIN log :
                /\ IsLast(j, Adverts(log, "cdp", f.mac))
                /\ f.id \notin {log[j].in.id, NoName}
                /\ t - log[j].at <= IdentityTtl - Skew
                => Conflicts(cdp, f, t)
      BY <1>2, <1>3, <1>4, DetectsConflicts, Zenon
    <3> QED BY <1>1, <1>5, <3>1, Zenon
  <2> QED BY <1>1, <1>3, <2>1, ObservedConflicts, Zenon DEF CInv
<1>7. cdp' = Put(cdp, f.mac, [id |-> f.id, seen |-> t]) /\ lldp' = lldp
  BY Zenon DEF ObserveCdp
<1>8. ASSUME NEW m \in Mac
      PROVE  Noted(log', clock', cdp', "cdp", m)
  <2>1. IF e.op = "cdp" /\ e.in.mac = m
        THEN m \in DOMAIN cdp' /\ cdp'[m].id = e.in.id /\ cdp'[m].seen = e.at
        ELSE /\ m \in DOMAIN cdp' <=> m \in DOMAIN cdp
             /\ m \in DOMAIN cdp => cdp'[m] = cdp[m]
    BY <1>1, <1>7, Zenon DEF Put
  <2>2. Noted(log, clock, cdp, "cdp", m)
    BY Zenon DEF CInv, NamesNoted
  <2> QED BY <1>1, <1>2, <1>3, <2>1, <2>2, ObservedNoted, Zenon
<1>9. ASSUME NEW m \in Mac
      PROVE  Noted(log', clock', lldp', "lldp", m)
  <2>1. Noted(log, clock, lldp, "lldp", m) /\ e.op # "lldp"
    BY <1>1, Zenon DEF CInv, NamesNoted
  <2> QED BY <1>1, <1>2, <1>3, <1>7, <2>1, ObservedNoted, Zenon
<1> QED BY <1>2, <1>3, <1>6, <1>8, <1>9, Zenon DEF CInv, NamesNoted

\* Eviction forgets only advertisements that are older than the identity TTL.
LEMMA EvictedNoted ==
    ASSUME NEW s \in Seq(Entry), NEW table, NEW op, NEW m,
           NEW now \in Nat, NEW later \in Nat, NEW t \in Nat, later >= now, later >= t,
           Noted(s, now, table, op, m)
    PROVE  Noted(s, later, Retain(table, Fresh(table, t, IdentityTtl)), op, m)
<1> DEFINE after == Retain(table, Fresh(table, t, IdentityTtl))
<1>1. /\ m \in DOMAIN after => m \in DOMAIN table /\ after[m] = table[m]
      /\ m \in DOMAIN table /\ m \notin DOMAIN after => ~(table[m].seen >= t - IdentityTtl)
  BY Zenon DEF Retain, Fresh
<1> HIDE DEF after
<1>2. ASSUME NEW j \in DOMAIN s, IsLast(j, Adverts(s, op, m)), m \notin DOMAIN after
      PROVE  s[j].at + IdentityTtl < later
  <2>1. s[j].at \in Nat
    BY EntryTimes, Zenon
  <2>2. CASE m \in DOMAIN table
    <3>1. ~(s[j].at >= t - IdentityTtl)
      BY <1>1, <1>2, <2>2, Zenon DEF Noted
    <3> QED BY <2>1, <3>1, Naturals
  <2>3. CASE m \notin DOMAIN table
    <3>1. s[j].at + IdentityTtl < now
      BY <1>2, <2>3, Zenon DEF Noted
    <3> QED BY <2>1, <3>1, Naturals, SMTT(30)
  <2> QED BY <2>2, <2>3, Zenon
<1>3. Noted(s, later, after, op, m)
  BY <1>1, <1>2, Zenon DEF Noted
<1> QED BY <1>3, Zenon DEF after

LEMMA EvictionKeepsCInv ==
    ASSUME CInv, NEW t \in Time, EvictExpired(t)
    PROVE  CInv'
<1>1. /\ log' = log /\ Tick(t) /\ TypeOK'
      /\ lldp' = Retain(lldp, Fresh(lldp, t, IdentityTtl))
      /\ cdp' = Retain(cdp, Fresh(cdp, t, IdentityTtl))
  BY EvictionKeepsType, Zenon DEF EvictExpired, CInv
<1>2. clock \in Nat /\ clock' \in Nat /\ clock' >= clock /\ clock' >= t /\ t \in Nat
  <2>1. clock \in Time /\ Tick(t)
    BY <1>1, Zenon DEF CInv, TypeOK
  <2> QED BY <2>1, Naturals DEF Tick
<1>3. log \in Seq(Entry) /\ ConflictsReported'
  BY <1>1 DEF CInv, ConflictsReported, LastBefore
<1>4. ASSUME NEW m \in Mac
      PROVE  /\ Noted(log', clock', lldp', "lldp", m)
             /\ Noted(log', clock', cdp', "cdp", m)
  BY <1>1, <1>2, <1>3, EvictedNoted, Zenon DEF CInv, NamesNoted
<1> QED BY <1>1, <1>3, <1>4, Zenon DEF CInv, NamesNoted

LEMMA StepKeepsCInv == CInv /\ [Next]_vars => CInv'
<1> SUFFICES ASSUME CInv, [Next]_vars PROVE CInv'
  BY Zenon
<1>0. TypeOK'
  BY StepKeepsType, Zenon DEF CInv
<1>1. ASSUME NEW t \in Time, NEW f \in ArpFrame, ObserveArp(f, t) PROVE CInv'
  <2>1. PICK e \in Entry : e.op = "arp" /\ log' = Append(log, e) /\ Tick(t)
    BY <1>1, ArpEntry, Zenon
  <2> QED BY <1>0, <1>1, <2>1, OtherKeepsCInv, Zenon DEF ObserveArp
<1>2. ASSUME NEW t \in Time, NEW d \in DhcpMessage, ObserveDhcp(d, t) PROVE CInv'
  <2>1. PICK e \in Entry : e.op = "dhcp" /\ log' = Append(log, e) /\ Tick(t)
    BY <1>2, DhcpEntry, Zenon
  <2> QED BY <1>0, <1>2, <2>1, OtherKeepsCInv, Zenon DEF ObserveDhcp
<1>3. ASSUME NEW t \in Time, NEW r \in Root, ObserveStp(r, t) PROVE CInv'
  <2>1. PICK e \in Entry : e.op = "stp" /\ log' = Append(log, e) /\ Tick(t)
    BY <1>3, StpEntry, Zenon
  <2> QED BY <1>0, <1>3, <2>1, OtherKeepsCInv, Zenon DEF ObserveStp
<1>4. CASE UNCHANGED vars
  <2>1. log' = log /\ clock' = clock /\ lldp' = lldp /\ cdp' = cdp
    BY <1>4, Zenon DEF vars
  <2>2. ConflictsReported'
    BY <2>1, SMTT(30) DEF CInv, ConflictsReported, LastBefore
  <2>3. NamesNoted'
    BY <2>1, Zenon DEF CInv, NamesNoted
  <2> QED BY <1>0, <2>1, <2>2, <2>3, Zenon DEF CInv
<1> QED BY <1>1, <1>2, <1>3, <1>4, LldpKeepsCInv, CdpKeepsCInv, EvictionKeepsCInv, Zenon DEF Next

\* Whatever is observed and evicted in between, a neighbour is reported as
\* changed only when its last advertisement by the same protocol named another
\* identity, and always when that was no longer ago than the identity TTL
\* less the amount timestamps may step back.
THEOREM ConflictsAreReported == Spec => []ConflictsReported
<1>1. Init => CInv
  <2> SUFFICES ASSUME Init PROVE CInv
    BY Zenon
  <2>1. TypeOK
    BY InitType, Zenon
  <2>2. log = <<>> /\ DOMAIN log = {} /\ DOMAIN lldp = {} /\ DOMAIN cdp = {}
    BY DEF Init
  <2>3. log \in Seq(Entry) /\ ConflictsReported
    BY <2>2 DEF ConflictsReported
  <2>4. \A m \in Mac : Noted(log, clock, lldp, "lldp", m) /\ Noted(log, clock, cdp, "cdp", m)
    BY <2>2, Zenon DEF Noted
  <2> QED BY <2>1, <2>3, <2>4, Zenon DEF CInv, NamesNoted
<1>2. CInv => ConflictsReported
  BY Zenon DEF CInv
<1> QED BY <1>1, <1>2, StepKeepsCInv, PTL, SMTT(30) DEF Spec

=============================================================================
