----------------------------- MODULE Bilgepump ------------------------------
(***************************************************************************)
(* BilgepumpMonitor (src/bilgepump/monitor.rs), the stateful layer-2       *)
(* monitor: its ARP, MAC, DHCP, STP and identity detectors, which share    *)
(* one clock, the timestamps of the captured frames, and one eviction.     *)
(* Fields that the code only ever writes (first_seen, binding source,      *)
(* offer counts, path costs, VLAN ids of observations) are left out.       *)
(***************************************************************************)
EXTENDS RateCounter

CONSTANTS
    Mac, Ip, Server, Root, Identity,
    None,                   \* an absent option, an address that does not parse
    NoName,                 \* the empty chassis or device id
    \* the inputs
    ArpFrame,               \* parsed ARP frames
    DhcpMessage,            \* parsed DHCP messages
    LldpFrame, CdpFrame,    \* parsed LLDP and CDP frames
    \* BilgepumpConfig
    Enabled, Checks, Blessed, KnownServers, RootWhitelist,
    ArpTtl, FloodThreshold, FloodWindow,
    FlapThreshold, FlapWindow,
    StarvationThreshold, StarvationWindow,
    IdentityTtl, DefaultTtl,
    \* bounds
    Skew,                   \* how far a timestamp may lag behind the latest
    MaxTime,                \* bound on timestamps
    MaxEvents               \* bound on the number of observations

Check == {"arp", "mac", "stp", "dhcp", "identity"}

\* operation 2; operation 1 with sender = target; any other frame
ArpKind == {"reply", "gratuitous", "other"}

\* message types 2, 5, and 1 or 3; any other
DhcpKind == {"offer", "ack", "client", "other"}

ASSUME InputAssumption ==
    /\ ArpFrame \subseteq [src : Mac, mac : Mac, ip : Ip, kind : ArpKind]
    /\ DhcpMessage \subseteq [kind : DhcpKind, src : Mac, client : Mac,
                              server : Server \cup {None}, ip : Ip \cup {None}]
    /\ LldpFrame \subseteq [mac : Mac, id : Identity]
    /\ CdpFrame \subseteq [mac : Mac, id : Identity \cup {NoName}]
    /\ NoName \notin Identity
    /\ None \notin Ip \cup Server
    /\ None \notin [id : Root, seen : Nat]

ASSUME ConfigAssumption ==
    /\ Enabled \in BOOLEAN
    /\ Checks \subseteq Check
    /\ Blessed \subseteq Mac \X Ip
    /\ KnownServers \subseteq Server
    /\ RootWhitelist \subseteq Root
    /\ {ArpTtl, FloodThreshold, FloodWindow, FlapThreshold, FlapWindow,
        StarvationThreshold, StarvationWindow, IdentityTtl, DefaultTtl,
        Skew, MaxTime, MaxEvents} \subseteq Nat

VARIABLES
    bindings,   \* ArpDetector::ip_bindings: address -> mac, seen, blessed
    replies,    \* ArpDetector::reply_counters: mac -> window
    flaps,      \* MacDetector::flap_trackers: mac -> window
    servers,    \* DhcpDetector::servers: server -> last seen
    requests,   \* DhcpDetector::request_counter
    root,       \* StpDetector::current_root: None, or id and seen
    lldp, cdp,  \* IdentityDetector: mac -> id, seen
    clock,      \* history: the latest timestamp so far
    log         \* history: the observations and the alerts each one raised

detectors == <<bindings, replies, flaps, servers, requests, root, lldp, cdp>>

vars == <<bindings, replies, flaps, servers, requests, root, lldp, cdp,
          clock, log>>

Time == 0 .. MaxTime

\* table.insert(key, value)
Put(table, key, value) ==
    [k \in DOMAIN table \cup {key} |-> IF k = key THEN value ELSE table[k]]

\* table.retain(...)
Retain(table, keys) == [k \in keys |-> table[k]]

Alert(kind, raised) == IF raised THEN {kind} ELSE {}

Init ==
    /\ bindings = [i \in {} |-> None]
    /\ replies = [m \in {} |-> <<>>]
    /\ flaps = [m \in {} |-> <<>>]
    /\ servers = [s \in {} |-> 0]
    /\ requests = <<>>
    /\ root = None
    /\ lldp = [m \in {} |-> None]
    /\ cdp = [m \in {} |-> None]
    /\ clock = 0
    /\ log = <<>>

\* The timestamps of a capture, which may step back by at most Skew.
Tick(t) ==
    /\ t + Skew >= clock
    /\ clock' = IF t > clock THEN t ELSE clock

\* An observation: what was observed, when, and the alerts it raised.
Observed(op, input, t, alerts) ==
    /\ Len(log) < MaxEvents
    /\ Tick(t)
    /\ log' = Append(log, [op |-> op, in |-> input, at |-> t,
                           alerts |-> alerts])

-----------------------------------------------------------------------------
(* ARP: ArpDetector::observe, then MacDetector::observe_ip_association.    *)

Counted(f) == f.kind \in {"reply", "gratuitous"}

RepliesAfter(f, t) ==
    IF Counted(f)
    THEN Put(replies, f.mac,
             Record(WindowOf(replies, f.mac), [ts |-> t], FloodWindow))
    ELSE replies

Flooding(f, t) ==
    Counted(f) /\ Len(RepliesAfter(f, t)[f.mac]) >= FloodThreshold

\* Mutant: the time of the binding is not looked at.
SpoofingForever(f, t) ==
    /\ f.ip \in DOMAIN bindings
    /\ bindings[f.ip].mac # f.mac
    /\ <<f.mac, f.ip>> \notin Blessed
    /\ ~bindings[f.ip].blessed

Spoofing(f, t) ==
    /\ f.ip \in DOMAIN bindings
    /\ bindings[f.ip].mac # f.mac
    /\ <<f.mac, f.ip>> \notin Blessed
    /\ ~bindings[f.ip].blessed
    /\ t - bindings[f.ip].seen <= ArpTtl

\* Whether a binding is blessed is settled when its entry is created.
BindingsAfter(f, t) ==
    Put(bindings, f.ip,
        [mac |-> f.mac, seen |-> t,
         blessed |-> IF f.ip \in DOMAIN bindings
                     THEN bindings[f.ip].blessed
                     ELSE <<f.mac, f.ip>> \in Blessed])

ArpAlerts(f, t) ==
    Alert("gratuitous", f.kind = "gratuitous")
        \cup Alert("flood", Flooding(f, t))
        \cup Alert("spoof", Spoofing(f, t))

\* The tracker is that of the frame's source, not of the ARP sender.
FlapsAfter(f, t) ==
    Put(flaps, f.src,
        Record(WindowOf(flaps, f.src), [ts |-> t, ip |-> f.ip], FlapWindow))

FlapAlerts(f, t) ==
    Alert("flap", DistinctIps(FlapsAfter(f, t)[f.src]) >= FlapThreshold)

ObserveArp(f, t) ==
    /\ Enabled
    /\ Observed("arp", f, t,
                (IF "arp" \in Checks THEN ArpAlerts(f, t) ELSE {}) \cup
                (IF "mac" \in Checks THEN FlapAlerts(f, t) ELSE {}))
    /\ IF "arp" \in Checks
       THEN replies' = RepliesAfter(f, t) /\ bindings' = BindingsAfter(f, t)
       ELSE UNCHANGED <<replies, bindings>>
    /\ flaps' = IF "mac" \in Checks THEN FlapsAfter(f, t) ELSE flaps
    /\ UNCHANGED <<servers, requests, root, lldp, cdp>>

-----------------------------------------------------------------------------
(* DHCP: DhcpDetector::observe, then ArpDetector::record_dhcp_binding.     *)

FromServer(d) == d.kind \in {"offer", "ack"} /\ d.server # None

RequestsAfter(d, t) ==
    IF d.kind = "client"
    THEN Record(requests, [ts |-> t], StarvationWindow)
    ELSE requests

DhcpAlerts(d, t) ==
    Alert("rogue", /\ FromServer(d)
                   /\ KnownServers # {}
                   /\ d.server \notin KnownServers)
        \cup Alert("starvation",
                   /\ d.kind = "client"
                   /\ Len(RequestsAfter(d, t)) >= StarvationThreshold)

\* A lease is learned whether or not the DHCP checks are on.
Learned(d, t) ==
    IF d.kind = "ack" /\ d.ip # None
    THEN Put(bindings, d.ip,
             [mac |-> d.client, seen |-> t,
              blessed |-> d.ip \in DOMAIN bindings /\ bindings[d.ip].blessed])
    ELSE bindings

ObserveDhcp(d, t) ==
    /\ Enabled
    /\ Observed("dhcp", d, t,
                IF "dhcp" \in Checks THEN DhcpAlerts(d, t) ELSE {})
    /\ IF "dhcp" \in Checks
       THEN /\ requests' = RequestsAfter(d, t)
            /\ servers' = IF FromServer(d) THEN Put(servers, d.server, t)
                                           ELSE servers
       ELSE UNCHANGED <<requests, servers>>
    /\ bindings' = Learned(d, t)
    /\ UNCHANGED <<replies, flaps, root, lldp, cdp>>

-----------------------------------------------------------------------------
(* STP and the neighbour identities.                                       *)

StpAlerts(r) ==
    Alert("unauthorized", RootWhitelist # {} /\ r \notin RootWhitelist)
        \cup Alert("rootchange", root # None /\ root.id # r)

ObserveStp(r, t) ==
    /\ Enabled /\ "stp" \in Checks
    /\ Observed("stp", r, t, StpAlerts(r))
    /\ root' = [id |-> r, seen |-> t]
    /\ UNCHANGED <<bindings, replies, flaps, servers, requests, lldp, cdp>>

\* Mutant: an advertisement is compared only within the TTL of ARP bindings.
ConflictsFresh(table, f, t) ==
    /\ f.mac \in DOMAIN table
    /\ table[f.mac].id # f.id
    /\ f.id # NoName
    /\ t - table[f.mac].seen < ArpTtl

Conflicts(table, f, t) ==
    /\ f.mac \in DOMAIN table
    /\ table[f.mac].id # f.id
    /\ f.id # NoName

\* An LLDP frame without a chassis id is not parsed as LLDP.
ObserveLldp(f, t) ==
    /\ Enabled /\ "identity" \in Checks
    /\ Observed("lldp", f, t, Alert("conflict", Conflicts(lldp, f, t)))
    /\ lldp' = Put(lldp, f.mac, [id |-> f.id, seen |-> t])
    /\ UNCHANGED <<bindings, replies, flaps, servers, requests, root, cdp>>

ObserveCdp(f, t) ==
    /\ Enabled /\ "identity" \in Checks
    /\ Observed("cdp", f, t, Alert("conflict", Conflicts(cdp, f, t)))
    /\ cdp' = Put(cdp, f.mac, [id |-> f.id, seen |-> t])
    /\ UNCHANGED <<bindings, replies, flaps, servers, requests, root, lldp>>

-----------------------------------------------------------------------------

Fresh(table, t, ttl) == {k \in DOMAIN table : table[k].seen >= t - ttl}

\* evict_expired.  A reply counter is kept while it holds an entry, and it
\* always does; the request counter and the root bridge are not touched.
EvictExpired(t) ==
    /\ Tick(t)
    /\ bindings' = Retain(bindings, Fresh(bindings, t, DefaultTtl))
    /\ replies' = Retain(replies, {m \in DOMAIN replies : replies[m] # <<>>})
    /\ flaps' = Retain(flaps,
                       {m \in DOMAIN flaps :
                          /\ flaps[m] # <<>>
                          /\ t - flaps[m][Len(flaps[m])].ts < DefaultTtl})
    /\ servers' = Retain(servers,
                         {s \in DOMAIN servers : servers[s] >= t - DefaultTtl})
    /\ lldp' = Retain(lldp, Fresh(lldp, t, IdentityTtl))
    /\ cdp' = Retain(cdp, Fresh(cdp, t, IdentityTtl))
    /\ UNCHANGED <<requests, root, log>>

Next ==
    \E t \in Time :
        \/ \E f \in ArpFrame : ObserveArp(f, t)
        \/ \E d \in DhcpMessage : ObserveDhcp(d, t)
        \/ \E r \in Root : ObserveStp(r, t)
        \/ \E f \in LldpFrame : ObserveLldp(f, t)
        \/ \E f \in CdpFrame : ObserveCdp(f, t)
        \/ EvictExpired(t)

Spec == Init /\ [][Next]_vars

-----------------------------------------------------------------------------
(* Properties.  Each compares the alerts in the log with what the log of   *)
(* all observations says, which no eviction or pruning touches.            *)

Table(f, K, V) == DOMAIN f \subseteq K /\ \A k \in DOMAIN f : f[k] \in V

\* The detectors' tables hold times and names that were observed, and a
\* counter or tracker that exists is not empty.
TypeOK ==
    /\ Table(bindings, Ip, [mac : Mac, seen : Time, blessed : BOOLEAN])
    /\ Table(replies, Mac, Seq([ts : Time]) \ {<<>>})
    /\ Table(flaps, Mac, Seq([ts : Time, ip : Ip]) \ {<<>>})
    /\ Table(servers, Server, Time)
    /\ requests \in Seq([ts : Time])
    /\ root \in [id : Root, seen : Time] \cup {None}
    /\ Table(lldp, Mac, [id : Identity, seen : Time])
    /\ Table(cdp, Mac, [id : Identity \cup {NoName}, seen : Time])
    /\ clock \in Time

\* Among the observations before k, j is the last one that satisfies P.
LastBefore(j, k, P(_)) ==
    /\ j \in 1 .. k - 1
    /\ P(log[j])
    /\ \A n \in j + 1 .. k - 1 : ~P(log[n])

\* Observation e says whose address i is: an ARP frame or a DHCP lease.
Claims(e, i) ==
    \/ e.op = "arp" /\ e.in.ip = i
    \/ e.op = "dhcp" /\ e.in.kind = "ack" /\ e.in.ip = i

Claimant(e) == IF e.op = "arp" THEN e.in.mac ELSE e.in.client

\* Observation k claims an address that another MAC was last to claim, no
\* longer ago than the binding TTL.
SpoofDue(k) ==
    /\ "arp" \in Checks
    /\ log[k].op = "arp"
    /\ <<log[k].in.mac, log[k].in.ip>> \notin Blessed
    /\ \E j \in 1 .. k - 1 :
          /\ LastBefore(j, k, LAMBDA e : Claims(e, log[k].in.ip))
          /\ Claimant(log[j]) # log[k].in.mac
          /\ log[k].at - log[j].at <= ArpTtl

\* No known-good pair names the address.
Unblessed(i) == \A m \in Mac : <<m, i>> \notin Blessed

\* ArpDetector::observe raises ArpSpoofDetected exactly when it is due,
\* whatever was evicted in between and whether ARP or a DHCP lease taught
\* the binding, for every address that no blessed pair names.
SpoofExact ==
    \A k \in DOMAIN log :
        log[k].op = "arp" /\ Unblessed(log[k].in.ip)
            => ("spoof" \in log[k].alerts <=> SpoofDue(k))

\* The observations up to k that P selects and that lie in the window that
\* ends with k.
InWindow(k, window, P(_)) ==
    {j \in 1 .. k : P(log[j]) /\ log[j].at >= log[k].at - window}

\* How far the timestamps of the observations up to k step back.
Lag(k) ==
    LET back == UNION {{log[i].at - log[j].at : j \in i .. k} : i \in 1 .. k}
    IN  CHOOSE n \in back : \A m \in back : m <= n

\* An alert that goes by a count in a window, as far as the timestamps allow:
\* it is raised when Due holds of the observations that lie in the window by
\* the lag or more, and not when Short holds of those that miss it by no more
\* than the lag.  Timestamps in order have no lag; with those that step back
\* record() counts old entries that the pruning does not reach.
AlertRaised(name, k, window, P(_), Due(_), Short(_)) ==
    /\ Due(InWindow(k, window - Lag(k), P)) => name \in log[k].alerts
    /\ Short(InWindow(k, window + Lag(k), P)) => name \notin log[k].alerts

\* ArpFlood: the replies of one sender, "exceeding this count within the
\* window" (config.rs).
FloodRaised(k) ==
    LET Mine(e) == e.op = "arp" /\ Counted(e.in) /\ e.in.mac = log[k].in.mac
    IN  AlertRaised("flood", k, FloodWindow, Mine,
                    LAMBDA S : Cardinality(S) > FloodThreshold,
                    LAMBDA S : Cardinality(S) < FloodThreshold)

\* MacFlapping: the frames of one source name at least the threshold of
\* distinct addresses.
FlapRaised(k) ==
    LET Mine(e) == e.op = "arp" /\ e.in.src = log[k].in.src
    IN  AlertRaised("flap", k, FlapWindow, Mine,
                    LAMBDA S : Cardinality({log[j].in.ip : j \in S}) >= FlapThreshold,
                    LAMBDA S : Cardinality({log[j].in.ip : j \in S}) < FlapThreshold)

\* DhcpStarvation: the client messages of the whole segment, "count exceeding
\* this in the window" (config.rs).
StarvationRaised(k) ==
    AlertRaised("starvation", k, StarvationWindow,
                LAMBDA e : e.op = "dhcp" /\ e.in.kind = "client",
                LAMBDA S : Cardinality(S) > StarvationThreshold,
                LAMBDA S : Cardinality(S) < StarvationThreshold)

\* The three alerts that go by a rate keep what config.rs says of them,
\* whatever was pruned or evicted before: an observation that takes the count
\* of its window past the threshold raises the alert, and none that leaves it
\* below does.  At the very threshold of flood and starvation nothing is said
\* here: the code alerts there, its documentation does not.
RateAlertsDue ==
    \A k \in DOMAIN log :
        /\ IF "arp" \in Checks /\ log[k].op = "arp" /\ Counted(log[k].in)
           THEN FloodRaised(k) ELSE "flood" \notin log[k].alerts
        /\ IF "mac" \in Checks /\ log[k].op = "arp"
           THEN FlapRaised(k) ELSE "flap" \notin log[k].alerts
        /\ IF "dhcp" \in Checks /\ log[k].op = "dhcp" /\ log[k].in.kind = "client"
           THEN StarvationRaised(k) ELSE "starvation" \notin log[k].alerts

\* observe_lldp and observe_cdp report a MAC whose identity differs from the
\* last one it advertised by the same protocol, never anything else, and
\* never miss one within identity_ttl_secs.
ConflictsReported ==
    \A k \in {n \in DOMAIN log : log[n].op \in {"lldp", "cdp"}} :
        LET changed ==
              {j \in 1 .. k - 1 :
                 /\ LastBefore(j, k, LAMBDA e : /\ e.op = log[k].op
                                                /\ e.in.mac = log[k].in.mac)
                 /\ log[k].in.id \notin {log[j].in.id, NoName}}
        IN  /\ "conflict" \in log[k].alerts => changed # {}
            /\ (\E j \in changed : log[k].at - log[j].at <= IdentityTtl - Skew)
                  => "conflict" \in log[k].alerts

-----------------------------------------------------------------------------
(* What the documentation says and the code does not do.                   *)

\* README of ArpSpoofDetected: "IP address claimed by a different MAC than
\* the established binding. [...] Only fires within the binding TTL window."
TakeoverAlerted ==
    \A k \in DOMAIN log : SpoofDue(k) => "spoof" \in log[k].alerts

=============================================================================
