------------------------------ MODULE Sessions ------------------------------
(*****************************************************************************)
(* What the decoders owe that keep sessions, endpoints, half a handshake,    *)
(* counters or definitions between calls.                                    *)
(*****************************************************************************)
EXTENDS Decoders

-----------------------------------------------------------------------------
\* What makes two asset observations the same one, for the decoders that remember what they
\* have told: the key in their table, which is not always all that the event says.
OnceOnly == {"quic", "ike", "wireguard", "openvpn", "radsec", "cip_safety", "ff_hse", "osi_pi", "vnet_ip",
             "opc_ua_pubsub", "kerberos", "amqp", "netflow", "ptp", "rdp", "vnc"}

AssetKey(x) ==
    LET w == x.event.what
    IN  CASE decoder \in {"ike", "wireguard", "openvpn"} -> w[2]
          [] decoder = "kerberos" -> w[1]
          [] decoder = "ptp" -> w[1]
          [] decoder \in {"rdp", "vnc", "amqp"} -> "the one"
          [] decoder = "radsec" -> log[x.step].in.session
          [] OTHER -> w

Flushes(i, j) == {n \in (i + 1)..j : log[n].in.flush}

\* An endpoint is observed once, however often and in whichever session it shows itself; a
\* NetFlow endpoint once more after an idle flush, which forgets the endpoints.
AssetsOnce ==
    decoder \in OnceOnly =>
        LET a == Of("asset_observation")
        IN  \A m, n \in DOMAIN a :
                m < n /\ AssetKey(a[m]) = AssetKey(a[n]) =>
                    decoder = "netflow" /\ a[m].event.what[1] \notin {"exporter", "collector"}
                        /\ Flushes(a[m].step, a[n].step) # {}

\* The endpoint a transaction makes known, if it is one that does.
Introduces(x) ==
    LET c == log[x.step].in
        op == x.event.what[1]
    IN  CASE decoder = "quic" -> IF op = ItSessions!Initial THEN {c.dst} ELSE {}
          [] decoder = "wireguard" -> IF op = ItSessions!Initiation THEN {c.sender_index} ELSE {}
          [] decoder = "ike" -> {c.initiator_spi}
          [] decoder = "vnet_ip" -> {<<c.src, c.vnet_addr>>}
          [] decoder = "cip_safety" -> {c.dst}
          [] decoder = "radsec" -> {c.session}
          [] decoder = "opc_ua_pubsub" -> IF op = <<"publish">> /\ OtSessions!Named(c) THEN {c.publisher} ELSE {}
          [] OTHER -> {}

\* No transaction names an endpoint that has not been observed: it is known from its own call
\* or from an earlier one, so a rejected message must not have used up its observation.
KnownWhenNamed ==
    LET a == Of("asset_observation")
        t == Of("protocol_transaction")
    IN  \A n \in DOMAIN t : \A k \in Introduces(t[n]) :
            \E m \in DOMAIN a : a[m].step <= t[n].step /\ AssetKey(a[m]) = k

\* The decoders whose tables only an accepted message changes.  The stream decoders buffer
\* what they cannot read yet, and RadSec marks a session before it looks at its first byte.
Strict == {"quic", "ike", "wireguard", "coap", "kerberos", "opc_ua_pubsub", "cip_safety", "vnet_ip", "sip_rtp",
           "avtp", "sercos", "eip_io", "ptp", "netflow", "bacnet_sc", "ethernet_ip", "opc_ua"}

\* Only anomalies came of it.  An odd SERCOS type, PTP version or PTP length is an anomaly of a
\* message that is read all the same: there only one too short for a header is rejected.
Rejected(e) ==
    /\ e.out # <<>> /\ \A p \in DOMAIN e.out : e.out[p].family = "parse_anomaly"
    /\ decoder = "sercos" => e.in.len < 6
    /\ decoder = "ptp" => e.in.len < 34

\* A chunk that is rejected leaves no trace in the tables: it counts for no
\* stream, marks no session and defines nothing.
RejectedLeavesNoTrace ==
    decoder \in Strict =>
        \A j \in Steps : Rejected(log[j]) =>
            After(j) = log[j].before

-----------------------------------------------------------------------------
\* The decoders whose report of a session does not depend on the others.  RDP and VNC share
\* one buffer, and CoAP, AMQP and BACnet/SC one flag, among all sessions.
PerSession == {"smtp", "openvpn", "quic", "ike", "wireguard", "radsec", "cip_safety", "ff_hse", "osi_pi", "vnet_ip",
               "opc_ua_pubsub", "kerberos", "avtp", "sercos", "eip_io"}

\* What the steps of session k push when no other session's come between.
Alone(k) ==
    FoldLeft(LAMBDA r, n : LET q == CHOOSE q \in OnChunk(decoder, r.state, log[n].in) : TRUE
                           IN  To(q.state, Append(r.out, q.out)),
             To(New(decoder), <<>>), StepsOf(k))

NotAssets(out) == SelectSeq(out, LAMBDA e : e.family \in {"protocol_transaction", "parse_anomaly", "process_reading"})

\* The transactions, readings and anomalies of a session are those it would have caused alone,
\* however the sessions are interleaved; only which of them is the first to show an endpoint
\* may differ.
SessionsIndependent ==
    decoder \in PerSession =>
        \A k \in Sessions :
            [n \in DOMAIN StepsOf(k) |-> NotAssets(log[StepsOf(k)[n]].out)]
                = [n \in DOMAIN StepsOf(k) |-> NotAssets(Alone(k).out[n])]

-----------------------------------------------------------------------------
\* The lines of an SMTP session in order, each with its step and its direction.
LinesOf(k) ==
    FlattenSeq([n \in DOMAIN StepsOf(k) |->
        LET c == log[StepsOf(k)[n]].in
        IN  [l \in DOMAIN c.payload |-> [step |-> c.no, server |-> ItSessions!FromServer(c), line |-> c.payload[l]]]])

Replies(x) == x.server /\ x.line.code # "none" /\ ~x.line.continues

\* A session is closed to reading by QUIT, and by a reply 220 that answers STARTTLS: the first
\* complete reply after it.
Closes(lines, n) ==
    \/ ~lines[n].server /\ lines[n].line.verb = "QUIT"
    \/ /\ Replies(lines[n]) /\ lines[n].line.code = "220"
       /\ \E m \in 1..(n - 1) :
            /\ ~lines[m].server /\ lines[m].line.verb = "STARTTLS"
            /\ \A i \in (m + 1)..(n - 1) : ~Replies(lines[i])

\* After the line that closes an SMTP session nothing of the session is reported: what follows
\* is ciphertext or comes from a connection that is going away.
SilentAfterClose ==
    decoder = "smtp" =>
        \A k \in Sessions :
            LET lines == LinesOf(k)
                readable == \A n \in ToSet(StepsOf(k)) : log[n].in.utf8 /\ 465 \notin {log[n].in.sport, log[n].in.dport}
            IN  readable => \A n \in DOMAIN lines : Closes(lines, n) =>
                    \A j \in ToSet(StepsOf(k)) : j > lines[n].step => log[j].out = <<>>

(***************************************************************************)
(* What the decoders owe to a stream of messages rather than to one: which *)
(* of a counted stream they tell, the gaps and changes they notice, and    *)
(* the definitions (templates, configurations, read requests) they read    *)
(* the later data with.                                                    *)
(***************************************************************************)

\* The counted stream a chunk belongs to, if it is accepted: none for other messages.
NoStream == <<>>

StreamOf(c) ==
    CASE decoder = "sip_rtp" /\ c.first = "version_2" /\ c.len >= 12 /\ c.pt \notin ItSessions!Rtcp -> <<c.ssrc>>
      [] decoder = "avtp" /\ c.len >= 12 /\ c.subtype \in OtSessions!Media -> <<c.session, c.stream_id>>
      [] decoder = "sercos" /\ c.len >= 6 -> <<c.session, c.type>>
      [] decoder = "ptp" /\ c.len >= 34 /\ c.type # OtSessions!Announce -> <<c.clock, c.type>>
      [] OTHER -> NoStream

\* The place of step j in its stream.
Place(j) == Cardinality({i \in 1..j : ~log[i].in.flush /\ StreamOf(log[i].in) = StreamOf(log[j].in)})

\* The reports that sampling makes, apart from those of clocks and of lost sync.
Samples(j) ==
    SelectSeq(log[j].out, LAMBDA e :
        e.family = "protocol_transaction"
        /\ (decoder = "sercos" => e.what[1][1] # "sync_lost")
        /\ (decoder = "ptp" => e.what[1][1] # OtSessions!ClockObserved))

\* Of a counted stream the first message and every n-th are told and no other, whatever other
\* streams, sessions, rejected messages and idle flushes come between.
SampledExactly ==
    \A j \in Steps : ~log[j].in.flush /\ StreamOf(log[j].in) # NoStream =>
        Len(Samples(j)) = IF Place(j) = 1 \/ Place(j) % ReportEvery = 0 THEN 1 ELSE 0

\* The last step before j that satisfies P, if there is one.
LastStep(j, P(_)) ==
    LET S == {i \in 1..(j - 1) : ~log[i].in.flush /\ P(log[i].in)}
    IN  IF S = {} THEN {} ELSE {CHOOSE i \in S : \A k \in S : k <= i}

Tells(j, what) == \E p \in DOMAIN log[j].out : log[j].out[p].family = "protocol_transaction" /\ log[j].out[p].what[1][1] = what

\* A cyclic datagram is told as a gap exactly when its number does not follow the number of the
\* last one of its session and connection; the counter may wrap round.
GapsReported ==
    decoder = "eip_io" =>
        \A j \in Steps : ~log[j].in.flush /\ OtSessions!ParseCpf(log[j].in) =>
            LET c == log[j].in
                said == OtSessions!Said(c)
                last == LastStep(j, LAMBDA b : /\ OtSessions!ParseCpf(b) /\ b.session = c.session
                                               /\ OtSessions!Said(b).id = said.id)
            IN  Tells(j, "gap") <=> \E i \in last : said.seq # (OtSessions!Said(log[i].in).seq + 1) % SeqModulus

\* The loss of SERCOS sync is told once, by the telegram after the last one in sync.
SyncLossReported ==
    decoder = "sercos" =>
        \A j \in Steps : ~log[j].in.flush /\ log[j].in.len >= 6 =>
            (Tells(j, "sync_lost") <=>
                /\ ~log[j].in.sync_flag
                /\ \E i \in LastStep(j, LAMBDA b : b.len >= 6 /\ b.session = log[j].in.session) : log[i].in.sync_flag)

AnnouncesClock(c) == c.len >= 64 /\ c.type = OtSessions!Announce

\* A change of grandmaster is an anomaly of its own exactly when the clock's last announcement
\* in the domain named another: beside it only a wrong version and a wrong length are anomalies.
GrandmasterChanges ==
    decoder = "ptp" =>
        \A j \in Steps : ~log[j].in.flush /\ AnnouncesClock(log[j].in) =>
            LET c == log[j].in
                last == LastStep(j, LAMBDA b : AnnouncesClock(b) /\ b.domain = c.domain /\ b.clock = c.clock)
                odd == {x \in {"version", "length"} : IF x = "version" THEN c.version # 2 ELSE c.message_length # c.len}
            IN  Len(SelectSeq(log[j].out, LAMBDA e : e.family = "parse_anomaly"))
                    = Cardinality(odd) + (IF \E i \in last : log[i].in.gm # c.gm THEN 1 ELSE 0)

-----------------------------------------------------------------------------
\* The sets of a NetFlow datagram that are read, and of a template set the templates that are
\* stored: those before one that ends the set.
SetsOf(c) ==
    IF c.version \notin {9, 10} \/ c.len < Definitions!HeaderLen(c.version) THEN <<>>
    ELSE SelectSeq(c.sets, LAMBDA s : \A n \in DOMAIN c.sets : c.sets[n] = s => \A m \in 1..n : c.sets[m].fits)

Stored(c, set) ==
    LET options == set.id = IF c.version = 9 THEN 1 ELSE 3
        stops(t) == Definitions!TemplateStops(c.version, options, t)
        upto == {n \in DOMAIN set.templates : \A m \in 1..n : ~stops(set.templates[m])}
    IN  IF set.id \notin Definitions!TemplateSets(c.version) THEN <<>>
        ELSE [n \in 1..Cardinality(upto) |->
                [key |-> <<c.src, c.domain, set.templates[n].id>>, options |-> options, fields |-> set.templates[n].fields]]

\* The definitions since the last flush, up to the n-th set of step j.
Defined(j, n) ==
    LET flushed == {i \in 1..j : log[i].in.flush}
        from == IF flushed = {} THEN 1 ELSE 1 + CHOOSE i \in flushed : \A k \in flushed : k <= i
        sets(i) == IF i = j THEN SubSeq(SetsOf(log[i].in), 1, n) ELSE SetsOf(log[i].in)
    IN  FlattenSeq([i \in 1..(j - from + 1) |->
            FlattenSeq([m \in DOMAIN sets(from + i - 1) |-> Stored(log[from + i - 1].in, sets(from + i - 1)[m])])])

\* The records of a set by the latest definition of its id: as many fields each as it has.
Resolved(c, set, defs) ==
    LET mine == SelectSeq(defs, LAMBDA d : d.key = <<c.src, c.domain, set.id>>)
        n == Len(Last(mine).fields)
        records == [i \in 1..(Len(set.values) \div n) |-> <<"flow_record", SubSeq(set.values, (i - 1) * n + 1, i * n)>>]
        ends == {i \in DOMAIN records : c.version = 10 /\ records[i][2][1] = 0}
    IN  IF mine = <<>> \/ (mine # <<>> /\ Last(mine).options) THEN <<<<"skipped", set.id>>>>
        ELSE IF n = 0 THEN <<>>
        ELSE SubSeq(records, 1, IF ends = {} THEN Len(records) ELSE (CHOOSE i \in ends : \A k \in ends : i <= k) - 1)

OverCap(defs) == Cardinality({defs[i].key : i \in DOMAIN defs}) > TemplateCap

\* The records of a data set are read with the latest template of the same exporter, domain
\* and id since the last idle flush, and the set is skipped when there is none; a template may
\* have been pushed out only when more of them were defined than the table holds.
TemplatesResolve ==
    decoder = "netflow" =>
        \A j \in Steps : ~log[j].in.flush =>
            LET c == log[j].in
                sets == SetsOf(c)
                data == {n \in DOMAIN sets : sets[n].id >= 256}
                told == SelectSeq(log[j].out, LAMBDA e : /\ e.family = "protocol_transaction"
                                                         /\ e.what[1][1] \in {"flow_record", "skipped"})
            IN  \E lost \in SUBSET data :
                    /\ \A n \in lost : OverCap(Defined(j, n))
                    /\ [p \in DOMAIN told |-> told[p].what[1]]
                        = FlattenSeq([n \in DOMAIN sets |->
                            IF n \notin data THEN <<>>
                            ELSE IF n \in lost THEN <<<<"skipped", sets[n].id>>>>
                            ELSE Resolved(c, sets[n], Defined(j, n))])

-----------------------------------------------------------------------------
\* Data frames are read with the latest readable configuration of their source and stream, all
\* channels of all its PMUs, or not at all when they are shorter than it says.
LatestConfiguration ==
    decoder = "synchrophasor" =>
        \A j \in Steps : ~log[j].in.flush =>
            LET c == log[j].in
                Configures(b) == /\ Definitions!LooksLike(b) /\ b.type \in Definitions!Configs
                                 /\ ~b.cut /\ b.src = c.src /\ b.idcode = c.idcode
                Channels(p) == 2 * p.phasors + 2 + p.analogs + p.digitals
                cfg == LastStep(j, Configures)
                reads == Definitions!LooksLike(c) /\ c.type = Definitions!Data
                owners == [p \in DOMAIN log[j].out |-> log[j].out[p].what.pmu]
            IN  /\ ~reads \/ cfg = {} => log[j].out = <<>>
                /\ reads => \A i \in cfg :
                    LET pmus == log[i].in.pmus
                    IN  owners = IF Definitions!ParseDataFrame(c, pmus)
                                 THEN FlattenSeq([n \in DOMAIN pmus |-> [k \in 1..Channels(pmus[n]) |-> pmus[n].idcode]])
                                 ELSE <<>>

\* The steps that park and those that take out an OPC UA read of the same channel and id.
Asks(c, b) ==
    /\ Definitions!CanParse(b) /\ b.type = "MSG" /\ b.len >= 24 /\ b.service = "read_request" /\ ~b.cut
    /\ b.channel = c.channel /\ b.request_id = c.request_id

Readings(j) == SelectSeq(log[j].out, LAMBDA e : e.family = "process_reading")

\* The values of a read response carry the names of the nodes of the latest request with its
\* channel and id that no response has taken yet, in order, and otherwise their positions;
\* requests are lost to a response only when the table was full.
ReadsNamed ==
    decoder = "opc_ua" =>
        \A j \in Steps : Readings(j) # <<>> =>
            LET c == log[j].in
                asked == LastStep(j, LAMBDA b : Asks(c, b))
                answered(i) == \E k \in (i + 1)..(j - 1) :
                    Readings(k) # <<>> /\ log[k].in.channel = c.channel /\ log[k].in.request_id = c.request_id
                names == [p \in DOMAIN Readings(j) |-> Readings(j)[p].what[1]]
                position == [p \in DOMAIN names |-> <<"position", p - 1>>]
                full == Cardinality({<<log[i].in.channel, log[i].in.request_id>> :
                                        i \in {i \in 1..(j - 1) : ~log[i].in.flush /\ Asks(log[i].in, log[i].in)}}) > ReadsCap
            IN  \/ \E i \in asked : ~answered(i)
                    /\ names = [p \in DOMAIN names |-> IF p \in DOMAIN log[i].in.nodes THEN log[i].in.nodes[p] ELSE position[p]]
                \/ (full \/ \A i \in asked : answered(i)) /\ names = position

\* The tables of definitions keep their bounds, and the order beside the templates lists exactly
\* their keys, each once.
DefinitionsKept ==
    /\ decoder = "netflow" =>
        /\ Cardinality(DOMAIN state.templates) <= TemplateCap
        /\ ToSet(state.template_order) = DOMAIN state.templates
        /\ Len(state.template_order) = Cardinality(DOMAIN state.templates)
    /\ decoder = "opc_ua" => Cardinality(DOMAIN state.pending) <= ReadsCap

-----------------------------------------------------------------------------
PcccOf(c) == Definitions!ExplicitMessage(c)

Carries(c) == c.len >= 24 /\ c.command \in Definitions!Sends /\ Definitions!ExtractPccc(PcccOf(c)) /\ PcccOf(c).pccc.framed

TypedRead(c) ==
    /\ Carries(c) /\ PcccOf(c).service < 128 /\ PcccOf(c).pccc.cmd = 15 /\ PcccOf(c).pccc.function = 104
    /\ PcccOf(c).pccc.complete /\ PcccOf(c).pccc.file_type = 137

Answers(c) == Carries(c) /\ PcccOf(c).service >= 128 /\ PcccOf(c).pccc.sts = 0 /\ PcccOf(c).pccc.body_len >= 2

\* The successful answer to a typed read of integers gives at least one reading: the request
\* waits under the side that sent it, and the answer of the same session finds it there.
PcccReadsReported ==
    decoder = "ethernet_ip" =>
        \A j \in Steps : ~log[j].in.flush /\ Answers(log[j].in) =>
            LET c == log[j].in
                asked == LastStep(j, LAMBDA b : /\ Carries(b) /\ b.session = c.session
                                                /\ PcccOf(b).pccc.tns = PcccOf(c).pccc.tns)
            IN  (\E i \in asked : TypedRead(log[i].in) /\ log[i].in.src = c.dst) => Readings(j) # <<>>

-----------------------------------------------------------------------------

\* The decoders follow their streams: of the counted ones exactly the samples are told, and a
\* gap, a lost sync or a new grandmaster exactly where the message before it was another.
StreamsFollowed == SampledExactly /\ GapsReported /\ SyncLossReported /\ GrandmasterChanges

\* Data is read with the latest definition of its own source: template, configuration or read
\* request; the tables of definitions are in step with their order and keep their bounds.
LatestDefinition == DefinitionsKept /\ TemplatesResolve /\ LatestConfiguration /\ ReadsNamed
=============================================================================
