----------------------------- MODULE MCMessages -----------------------------
(*****************************************************************************)
(* Whole messages in the forms that their decoders tell apart, link layer and *)
(* IT protocols first, then OT protocols, and the instance: each decoder on  *)
(* all of its messages.  "sound" marks what the protocol allows.             *)
(*****************************************************************************)
EXTENDS Messages, TLC

Frame(len, r) ==
    r @@ [no |-> 1, len |-> len, src |-> "a", dst |-> "b", sport |-> 40000, dport |-> 40001,
          smac |-> "m", dmac |-> "n", ip |-> "v4", sound |-> TRUE]

Total(items, Size(_)) == FoldLeft(LAMBDA n, i : n + Size(i), 0, items)

ListsOf(n, S) == UNION {[1..k -> S] : k \in 0..n}

Tlv(type, size, value) == [type |-> type, size |-> size, value |-> value]

TlvSize(t) == t.size

\* Lists of up to "n" of the TLVs "S" behind "fixed" bytes.
TlvFrames(fixed, n, S, Sound(_)) ==
    {Frame(fixed + Total(ts, TlvSize), [tlvs |-> ts, sound |-> Sound(ts)]) : ts \in ListsOf(n, S)}

ArpFrames == {Frame(28, [sender |-> [mac |-> "x", ip |-> "i"], target |-> "j", op |-> o]) : o \in 1..2}

CdpFrames ==
    TlvFrames(4, 3, {Tlv(1, 7, "dev"), Tlv(1, 4, ""), Tlv(0, 5, "z"), Tlv(2, 3, "y")},
              LAMBDA ts : Contains(ts, Tlv(1, 7, "dev")) /\ ToSet(ts) \subseteq {Tlv(1, 7, "dev"), Tlv(0, 5, "z")})

LldpFrames ==
    TlvFrames(0, 3, {Tlv(1, 7, "dev"), Tlv(1, 3, "x"), Tlv(0, 2, ""), Tlv(2, 4, "port"), Tlv(5, 1, "y")},
              LAMBDA ts : ts # <<>> /\ Head(ts) = Tlv(1, 7, "dev") /\ ToSet(Tail(ts)) \subseteq {Tlv(0, 2, ""), Tlv(2, 4, "port")})

LacpFrames ==
    LET f(subtype, actor, partner, at) ==
            Frame(110, [subtype |-> subtype, actor |-> Tlv(1, actor, "p"), partner |-> Tlv(2, partner, "q"),
                        collector |-> [at |-> at, size |-> 16, value |-> "d"],
                        sound |-> subtype = 1 /\ actor = 20 /\ partner = 20])
    IN  {f(1, 20, 20, 42), f(1, 20, 20, 44), f(2, 20, 20, 42), f(1, 18, 20, 42), f(1, 90, 20, 42), f(1, 20, 4, 42)}

MrpFrames ==
    TlvFrames(2, 2, {Tlv(1, 18, "s"), Tlv(2, 10, "t"), Tlv(5, 22, "u"), Tlv(0, 2, ""), Tlv(127, 4, "v"), Tlv(1, 2, "w")},
              LAMBDA ts : ts \in {<<Tlv(1, 18, "s")>>, <<Tlv(1, 18, "s"), Tlv(5, 22, "u")>>, <<Tlv(2, 10, "t"), Tlv(5, 22, "u")>>})

PrpFrames ==
    TlvFrames(4, 2, {Tlv(20, 10, "s"), Tlv(23, 10, "t"), Tlv(30, 10, "r"), Tlv(0, 4, ""), Tlv(21, 3, "w")},
              LAMBDA ts : ts \in {<<Tlv(20, 10, "s")>>, <<Tlv(23, 10, "t"), Tlv(30, 10, "r")>>, <<Tlv(20, 10, "s"), Tlv(0, 4, "")>>})

StpFrames == {Frame(35, [id |-> i, bridge |-> "br", root |-> "rt", sound |-> i = 0]) : i \in 0..1}

MstpFrames ==
    {Frame(38 + v3, [id |-> 0, version |-> v, version3 |-> v3, bridge |-> "br", root |-> "rt", sound |-> v # 2]) :
        v \in 2..4, v3 \in {0, 64, 96}}

PvstFrames ==
    {Frame(42, [id |-> 0, version |-> v, vlan |-> [at |-> at, value |-> "7"], bridge |-> "br", root |-> "rt"]) :
        v \in {0, 2}, at \in {35, 36}}

VtpFrames ==
    {Frame(40 + Total(vs, TlvSize),
           [version |-> v, code |-> code, domain |-> Tlv(0, d, "dom"), vlans |-> vs,
            sound |-> v = 1 /\ d = 3 /\ \A n \in DOMAIN vs : vs[n].size = 12]) :
        v \in {1, 4}, code \in {1, 2, 9}, d \in {3, 40},
        vs \in ListsOf(2, {[size |-> 12, id |-> "1"], [size |-> 4, id |-> "2"], [size |-> 3, id |-> "3"]})}

LinkTraffic ==
    [arp |-> ArpFrames, cdp |-> CdpFrames, lldp |-> LldpFrames, lacp |-> LacpFrames, mrp |-> MrpFrames,
     prp |-> PrpFrames, stp |-> StpFrames, mstp |-> MstpFrames, pvst |-> PvstFrames, vtp |-> VtpFrames]

Term(size, value) == [size |-> size, value |-> value]

FtpFrames ==
    {Frame(14, [kind |-> "reply", code |-> code]) : code \in {"220", "331"}}
    \cup {Frame(w.size + arg.size + 3, [kind |-> "command", word |-> w, argument |-> arg]) :
            w \in {Term(4, "USER"), Term(3, "PWD")}, arg \in {Term(0, ""), Term(5, "name")}}
    \cup {Frame(9, [kind |-> "data", sound |-> FALSE])}

SshFrames ==
    {Frame(30, [text |-> t, at |-> at, version |-> 3, sport |-> p, sound |-> t]) : t \in BOOLEAN, at \in {0, 6}, p \in {22, 40000}}

NtpFrames == {Frame(48, [version |-> v, mode |-> m, stratum |-> s, sound |-> v = 4]) : v \in {1, 4}, m \in {0, 3, 4}, s \in {0, 2}}

SyslogFrames ==
    {Frame(40, [text |-> TRUE, close |-> 3, pri |-> pri, form |-> form, host |-> [at |-> 20, value |-> host], sound |-> pri = 13]) :
        pri \in {13, 200}, form \in {3164, 5424}, host \in {"h", "-"}}
    \cup {Frame(20, [text |-> t, close |-> close, pri |-> 13, form |-> 3164, host |-> [at |-> 9, value |-> "h"],
                        sound |-> FALSE]) :
            t \in BOOLEAN, close \in {1, 9}}

RadiusFrames ==
    LET attrs == ListsOf(2, {Tlv(1, 6, "u"), Tlv(1, 5, "v"), Tlv(4, 6, "n"), Tlv(4, 5, "x"), Tlv(9, 1, "y")})
    IN  {Frame(20 + Total(as, TlvSize), [length |-> 20 + Total(as, TlvSize), attributes |-> as, code |-> code,
                                               sound |-> Tlv(9, 1, "y") \notin ToSet(as) /\ Len(as) = Cardinality({as[n].type : n \in DOMAIN as})]) :
            as \in attrs, code \in {1, 2, 3, 99}}
        \cup {Frame(24, [length |-> l, attributes |-> <<>>, code |-> 1, sound |-> l = 20]) : l \in {19, 20, 40}}

IcmpFrames == {Frame(8, [type |-> t, code |-> n]) : t \in {3, 8, 200}, n \in {0, 8}}

IgmpFrames ==
    LET rec(t, g, s, aux) == [type |-> t, group |-> g, sources |-> s, aux |-> aux]
        size(r) == 8 + 4 * (r.sources + r.aux)
        v2(t, g) == Frame(8, [type |-> t, group |-> g, sources |-> 0, records |-> <<>>, sound |-> t # 99])
    IN  {v2(t, "g") : t \in {17, 18, 22, 23, 99}} \cup {v2(17, "none")}
        \cup {Frame(12 + 4 * s, [type |-> 17, group |-> g, sources |-> s]) : g \in {"none", "g"}, s \in {0, 2}}
        \cup {Frame(8 + Total(rs, size), [type |-> 34, records |-> rs]) :
                rs \in ListsOf(2, {rec(4, "g", 0, 0), rec(3, "h", 1, 1), rec(1, "g", 2, 0)})}

-----------------------------------------------------------------------------
GvcpFrames ==
    {Frame(8, [key |-> 66, code |-> code, status |-> 0, sound |-> code # 9]) : code \in {2, 128, 9}}
    \cup {Frame(len, [key |-> 0, code |-> code, status |-> st, sound |-> code # 9]) : len \in {200, 256}, code \in {3, 129, 9}, st \in 0..1}

OpcClassicFrames ==
    LET x(f, n) == [family |-> f, syntaxes |-> n]
        size(i) == 24 + 20 * i.syntaxes
    IN  {Frame(28 + Total(xs, size), [version |-> v, ptype |-> t, contexts |-> xs,
                                      sound |-> v = 5 /\ t # "request" /\ \E n \in DOMAIN xs : xs[n].family # "none"]) :
            v \in 4..5, t \in {"bind", "alter_context", "request"}, xs \in ListsOf(2, {x("da", 1), x("hda", 2), x("none", 1)})}

PowerlinkFrames ==
    {Frame(20, [type |-> t, service |-> s, sound |-> t # 2]) : t \in {1, 2, 6}, s \in {1, 5, 9}}

TriStationFrames == {Frame(12, [code |-> code, sound |-> code # 99]) : code \in {1, 2, 5, 112, 99}}

AbCspFrames ==
    {Frame(40, [packet_size |-> size, command |-> m, status |-> st, sound |-> size = 40 /\ m # 99]) : size \in {28, 40}, m \in {1, 7, 99}, st \in 0..1}

Iec104Frames ==
    LET a(size, kind, code, cause) == [size |-> size, start |-> TRUE, kind |-> kind, code |-> code, cause |-> cause, address |-> "ca", object |-> "io"]
        good == {a(6, "u", 7, 0), a(6, "u", 11, 0), a(6, "s", 0, 0), a(12, "i", 100, 6), a(16, "i", 9, 10), a(8, "i", 1, 3)}
        bad == {a(4, "i", 1, 1), [a(6, "u", 9, 0) EXCEPT !.start = FALSE], a(6, "u", 9, 0)}
    IN  {Frame(Total(as, TlvSize), [apdus |-> as, sport |-> IF p = 1 THEN 2404 ELSE 40000, dport |-> IF p = 2 THEN 2404 ELSE 40000,
                                    sound |-> as # <<>> /\ ToSet(as) \subseteq good]) : as \in ListsOf(2, good \cup bad), p \in 0..2}

Dnp3Messages(start, function, sport, link, marks) ==
    Frame(28, [start |-> start, function |-> function, source |-> "s", destination |-> "d", sport |-> sport, link_length |-> link,
               marks |-> marks, sound |-> start /\ link >= 5])

Dnp3Frames == {Dnp3Messages(start, f, p, 20, <<>>) : start \in BOOLEAN, f \in {1, 3, 129, 77}, p \in {20000, 40000}}

Sav5Frames ==
    {[Dnp3Messages(start, 1, 20000, link, ms) EXCEPT !.sound = @ /\ \E n \in DOMAIN ms : ms[n].variation # 99] : start \in BOOLEAN, link \in {4, 20},
        ms \in {<<>>, <<[at |-> 4, variation |-> 7]>>, <<[at |-> 3, variation |-> 99], [at |-> 6, variation |-> 1], [at |-> 12, variation |-> 7]>>}}

HartFrames ==
    LET f(size, type, id, command, response) ==
            [size |-> size, type |-> type, id |-> id, preambles |-> 2, long |-> TRUE, expansion |-> 0, command |-> command,
             response |-> response, maker |-> "mk", device_type |-> "dt"]
        good == {f(13, 0, 0, 0, FALSE), f(8, 1, 2, 0, TRUE), f(40, 1, 3, 0, TRUE), f(24, 1, 3, 0, TRUE), f(60, 1, 3, 20, TRUE),
                 f(20, 0, 3, 48, FALSE), f(15, 2, 3, 3, FALSE), f(9, 3, 3, 0, FALSE)}
    IN  {Frame(Total(fs, TlvSize), [frames |-> fs, ip |-> ip, sound |-> fs # <<>> /\ ToSet(fs) \subseteq good]) :
            fs \in ListsOf(2, good \cup {f(7, 0, 0, 0, FALSE)}), ip \in {"v4", "none"}}

VisibleString(at, size, name, separator) == [at |-> at, size |-> size, name |-> name, separator |-> separator, plain |-> TRUE]

Strings == {<<>>, <<VisibleString(3, 5, "relay", -1)>>, <<VisibleString(2, 9, "LD0/LLN0", 3), VisibleString(14, 9, "LD1/MMXU", 3)>>}

MmsFrames ==
    {Frame(32 + extra, [version |-> v, tpkt_length |-> 32, cotp_length |-> 2, pdu |-> pdu, tag |-> tag, strings |-> ss,
                        sound |-> v = 3 /\ (pdu = 224 \/ tag # 99)]) :
        extra \in {0, 4}, v \in {2, 3}, pdu \in {224, 240}, tag \in {96, 161, 168, 99}, ss \in Strings}
    \cup {Frame(32, [version |-> 3, tpkt_length |-> t, cotp_length |-> n, pdu |-> 240, tag |-> 160, strings |-> <<>>, sound |-> FALSE]) :
            t \in {3, 40}, n \in {0, 2, 50}}

GooseFrames ==
    {Frame(32, [length |-> l, ethertype |-> e, strings |-> ss, ip |-> "none", sound |-> l = 32]) : l \in {4, 32, 60}, e \in {35000, 35002}, ss \in Strings}

FinsFields(command) ==
    [rsv |-> 0, gateway_count |-> 2, command |-> command, area |-> "DM", word |-> "7", bit |-> "1", count |-> "2"]

FinsFrames ==
    {Frame(len, FinsFields(command) @@ [tcp_frame |-> FALSE, sport |-> IF p = 1 THEN 9600 ELSE 40000, dport |-> IF p = 2 THEN 9600 ELSE 40000]) :
        len \in {12, 14, 18}, command \in {257, 1281, 999}, p \in 0..2}
    \cup {Frame(18, [gateway_count |-> 99] @@ FinsFields(257) @@ [tcp_frame |-> FALSE, sound |-> FALSE])}

FinsTcpFrames ==
    {Frame(16 + n, FinsFields(257) @@ [tcp_frame |-> TRUE, body_len |-> 8 + n, dport |-> 9600]) : n \in {0, 8, 12, 20}}
    \cup {Frame(30, FinsFields(257) @@ [tcp_frame |-> TRUE, body_len |-> n, dport |-> 9600, sound |-> FALSE]) : n \in {4, 40}}

S7Frames ==
    {Frame(7 + (IF r \in 2..3 THEN 12 ELSE 10) + p + d,
           [version |-> v, cotp_length |-> 2, protocol_id |-> id, rosctr |-> r, parameter_length |-> p, data_length |-> d, function |-> f,
            dport |-> 102, sound |-> v = 3 /\ id = 50]) :
        v \in 2..3, id \in {50, 51}, r \in {1, 3, 7}, p \in {0, 4}, d \in {0, 5}, f \in {4, 99}}

EthercatFrames ==
    LET d(command, adp, ado, size) == [command |-> command, adp |-> adp, ado |-> ado, size |-> size, alias |-> "al"]
        Size(x) == 12 + x.size
        lists == ListsOf(2, {d(4, "1001", 272, 4), d(7, "0", 4, 2), d(1, "0", 0, 0), d(20, "5", 0, 0)}) \ {<<>>}
    IN  {Frame(2 + Total(ds, Size), [length |-> Total(ds, Size), datagrams |-> ds, ip |-> "none",
                                     sound |-> \A n \in DOMAIN ds : ds[n].command # 20]) : ds \in lists}
        \cup {Frame(16, [length |-> l, datagrams |-> <<d(1, "0", 0, 0)>>, ip |-> "none", sound |-> FALSE]) : l \in {4, 14, 40}}

ProfinetFrames ==
    {Frame(len, [frame_id |-> id, service |-> 5, service_type |-> t, dcp_length |-> 4, ip |-> ip, dport |-> p,
                 sound |-> (id = 5 => ip = "v4") /\ (id \in 65278..65279 => len >= 16)]) :
        len \in {2, 16, 40}, id \in {5, 32768, 64513, 65025, 65278, 65279}, t \in {0, 1, 3}, ip \in {"none", "v4"}, p \in {34964, 40000}}

BacnetMessages(links) ==
    LET f(len, link, network, type, service, dlen, slen) ==
            Frame(len, [link |-> link, total_len |-> len, version |-> 1, dlen |-> dlen, slen |-> slen, network |-> network, apdu_type |-> type,
                        segmented |-> FALSE, service |-> service, invoke |-> "7", object_id |-> TRUE, device |-> "dev"])
    IN  {f(30, link, network, type, s, dlen, slen) :
            link \in links, network \in BOOLEAN, type \in {0, 1, 2, 3, 5, 9}, s \in {0, 12}, dlen \in {-1, 0}, slen \in {-1, 6}}
        \cup {[f(16, link, FALSE, 3, 12, -1, -1) EXCEPT !.total_len = l, !.version = v, !.segmented = TRUE, !.sound = v = 1 /\ l = 16] :
                link \in links, l \in {3, 16, 17}, v \in 1..2}
        \cup {f(IF link = "bacnet_ip" THEN 9 ELSE 5, link, FALSE, 2, 12, -1, -1) : link \in links}
        \cup {[f(16, "other", FALSE, 3, 12, -1, -1) EXCEPT !.sound = FALSE]}

OtTraffic ==
    [gvcp |-> GvcpFrames, opc_classic |-> OpcClassicFrames, powerlink |-> PowerlinkFrames, tristation |-> TriStationFrames,
     ab_csp |-> AbCspFrames, iec104 |-> Iec104Frames, dnp3 |-> Dnp3Frames, dnp3_sav5 |-> Sav5Frames, hart_ip |-> HartFrames,
     hart_ip_tcp |-> HartFrames, mms |-> MmsFrames, goose |-> GooseFrames, fins |-> FinsFrames, fins_tcp |-> FinsTcpFrames,
     s7comm |-> S7Frames, ethercat |-> EthercatFrames, profinet |-> ProfinetFrames, bacnet |-> BacnetMessages({"bacnet_ip"}),
     bacnet_l2 |-> BacnetMessages({"bacnet_l2"}), codesys |-> {Frame(5, [x |-> 0])}, iolink |-> {Frame(5, [x |-> 0])},
     cclink |-> {Frame(5, [x |-> 0])}]

-----------------------------------------------------------------------------
MdnsFrames ==
    LET q(name) == [nsize |-> 6, name |-> name]
        rr(type, size, target) == [nsize |-> 2, rdlength |-> size, rtype |-> type, target |-> target, name |-> "n"]
        size(r) == r.nsize + 10 + r.rdlength
    IN  {Frame(12 + 10 * Len(qs) + Total(as \o more, size), [dport |-> 5353, questions |-> qs, answers |-> as, more |-> more]) :
            qs \in {<<>>, <<q("x")>>, <<q("x"), q("y")>>}, as \in ListsOf(1, {rr(12, 5, "t"), rr(12, 2, "none"), rr(33, 8, "t")}),
            more \in ListsOf(1, {rr(1, 4, "none"), rr(28, 4, "none"), rr(28, 16, "none"), rr(16, 3, "none")})}

WsdFrames ==
    {Frame(60, [sport |-> 3702, ends |-> ends, xaddrs_end |-> e, xaddrs |-> "url"]) :
        ends \in {[Probe |-> 20], [Probe |-> 20, ProbeMatches |-> 27], [Hello |-> 15, Resolve |-> 40], [x \in {} |-> 0]}, e \in {50, 99}}

MqttSnFrames ==
    LET f(ext, len, type) == Frame(len, [extended |-> ext, length |-> len, msg_type |-> type, rc |-> 3, sound |-> type # 99])
    IN  {f(ext, len, type) : ext \in BOOLEAN, len \in {6, 9}, type \in {2, 4, 5, 11, 19, 99}}

DnsRecord(type, ip) ==
    [size |-> 2, data |-> 4, type |-> type, ip |-> ip, local |-> FALSE, service |-> FALSE, target |-> "none",
     reverse |-> "none", reverse6 |-> FALSE, tells |-> {}]

DnsMessages(records, port, tcp) ==
    LET size(r) == 12 + r.data
        qs(n) == [k \in 1..n |-> [size |-> 5, name |-> "q"]]
    IN  {Frame(12 + 9 * n + Total(rs, size) + (IF tcp THEN 2 ELSE 0),
               [tcp |-> tcp, advertised |-> 12 + 9 * n + Total(rs, size), questions |-> qs(n), records |-> rs,
                ancount |-> Len(rs), response |-> rs # <<>>, flags |-> fl, id |-> id, sport |-> port, dport |-> port]) :
            n \in 0..2, rs \in ListsOf(2, records), fl \in IF tcp THEN {0, 256} ELSE {0}, id \in IF tcp THEN {7, 40000} ELSE {7}}

DnsFrames == DnsMessages({DnsRecord("A", "i"), DnsRecord("CNAME", "none")}, 53, FALSE)

DnsTcpFrames == DnsMessages({DnsRecord("A", "i")}, 53, TRUE)

DnsMulticastFrames ==
    DnsMessages({[DnsRecord("A", "i") EXCEPT !.local = TRUE], [DnsRecord("A", "j") EXCEPT !.local = TRUE, !.service = TRUE],
                 [DnsRecord("PTR", "none") EXCEPT !.target = "host"], [DnsRecord("PTR", "none") EXCEPT !.reverse = "k"],
                 [DnsRecord("TXT", "none") EXCEPT !.tells = {"model"}]}, 5353, FALSE)

DhcpFrames ==
    LET o(code, size, value) == [code |-> code, size |-> size, value |-> value]
        S == {o(53, 1, "offer"), o(53, 1, "odd"), o(54, 4, "s"), o(50, 4, "r"), o(0, 0, ""), o(255, 0, "")}
        size(x) == IF x.code \in {0, 255} THEN 1 ELSE 2 + x.size
    IN  {Frame(240 + Total(os, size), [options |-> os, cookie |-> TRUE, mac |-> "x", yiaddr |-> "y", siaddr |-> "none",
                                       giaddr |-> "g", sport |-> 67]) : os \in ListsOf(2, S)}
        \cup {Frame(243, [options |-> <<o(53, 1, "request")>>, cookie |-> k, sound |-> k, mac |-> "x", yiaddr |-> "none", siaddr |-> "t",
                          giaddr |-> "none", sport |-> 68, dport |-> p]) : k \in BOOLEAN, p \in {67, 4011}}

SnmpFrames ==
    {Frame(30, [size |-> 30, nested |-> nested, pdu |-> pdu, bindings |-> bs, sport |-> p,
                sound |-> nested /\ pdu # 168 /\ \A n \in DOMAIN bs : bs[n].ok]) :
        nested \in BOOLEAN, pdu \in {160, 162, 164, 168}, p \in {161, 40000},
        bs \in ListsOf(2, {[oid |-> "sysName", ok |-> TRUE], [oid |-> "other", ok |-> TRUE], [oid |-> "x", ok |-> FALSE]})}

TlsFrames ==
    LET e(type, agrees, name) == [type |-> type, size |-> 8, agrees |-> agrees, name |-> name]
        f(es, type, hello, extra) ==
            Frame(61 + 12 * Len(es), [type |-> type, record |-> 56 + 12 * Len(es) + extra, hello |-> hello, session |-> 4, ciphers |-> 6,
                                      compression |-> 2, extlen |-> 12 * Len(es), extensions |-> es,
                                      sound |-> type = 22 /\ hello /\ extra = 0])
    IN  {f(es, 22, TRUE, 0) : es \in ListsOf(2, {e(0, TRUE, "host"), e(0, FALSE, "bad"), e(0, TRUE, "none"), e(10, TRUE, "none")})}
        \cup {f(<<e(0, TRUE, "host")>>, 23, TRUE, 0), f(<<e(0, TRUE, "host")>>, 22, FALSE, 0), f(<<e(0, TRUE, "host")>>, 22, TRUE, 9)}

HttpFrames ==
    {Frame(20, [text |-> t, sound |-> t, kind |-> "request", method |-> "GET", first |-> 3, second |-> [size |-> 5, value |-> "/path", number |-> FALSE]]) : t \in BOOLEAN}
    \cup {Frame(20, [text |-> TRUE, sound |-> n, kind |-> "response", first |-> 8, second |-> [size |-> 3, value |-> "200", number |-> n]]) : n \in BOOLEAN}

NbnsFrames ==
    LET e(q, plain, ttl) == [question |-> q, plain |-> plain, name |-> "n", ttl |-> ttl, data |-> 6]
        size(x) == 34 + (IF x.question THEN 4 ELSE 10 + x.data)
    IN  {Frame(12 + Total(es, size), [sport |-> 137, opcode |-> op, response |-> op # 0, rcode |-> rc, entries |-> es]) :
            op \in {0, 5, 9}, rc \in {0, 3},
            es \in {<<>>, <<e(TRUE, TRUE, 0)>>, <<e(TRUE, TRUE, 0), e(FALSE, FALSE, 0)>>, <<e(FALSE, TRUE, 0)>>,
                    <<e(FALSE, TRUE, 0), e(FALSE, TRUE, 8)>>, <<e(FALSE, TRUE, 8), e(FALSE, TRUE, 8)>>}}

NbdsFrames ==
    {Frame(90, [dport |-> 138, type |-> t, plain |-> p, from |-> "f", to |-> "t", ip |-> "i", sound |-> p]) : t \in {16, 19}, p \in BOOLEAN}

NtlmsspFrames ==
    LET b(type, at, size) == [at |-> at, type |-> type, user |-> [at |-> 64, size |-> size]]
        f(len, blobs, port) == Frame(len, [blobs |-> blobs, ascii |-> FALSE, negotiate |-> -1, dport |-> port,
                                           sound |-> blobs # <<>> /\ \A n \in DOMAIN blobs : blobs[n].type \in 1..3])
    IN  {f(74, <<b(type, 0, size)>>, p) : type \in 1..4, size \in {0, 8}, p \in {80, 445}}
        \cup {f(110, <<b(1, 4, 0), b(3, 36, 6)>>, 445), f(10, <<>>, 445)}
        \cup {Frame(30, [blobs |-> <<>>, ascii |-> a, sound |-> a, negotiate |-> 12, dport |-> 8080]) : a \in BOOLEAN}

TftpFrames ==
    {Frame(15, [opcode |-> op, file |-> [size |-> 6, value |-> "f", firmware |-> fw], mode |-> 5]) : op \in 0..6, fw \in BOOLEAN}

TacacsFrames ==
    {Frame(32, [major_ver |-> v, body_length |-> l, pkt_type |-> t, seq_no |-> s, unencrypted |-> u, names_len |-> 4, user |-> "u",
                sound |-> v = 12 /\ l = 20]) : v \in {1, 12}, l \in {20, 30}, t \in {1, 2, 9}, s \in 1..3, u \in BOOLEAN}

SmbFrames == {Frame(12, [smb |-> [at |-> at, version |-> v], sound |-> at # 9 /\ v = 1]) : at \in {0, 4, 9}, v \in 1..2}

ItTraffic ==
    [ftp |-> FtpFrames, ssh |-> SshFrames, ntp |-> NtpFrames, syslog |-> SyslogFrames, radius |-> RadiusFrames, icmp |-> IcmpFrames,
     igmp |-> IgmpFrames, mdns |-> MdnsFrames, wsd |-> WsdFrames, mqtt_sn |-> MqttSnFrames, dns |-> DnsFrames,
     dns_tcp |-> DnsTcpFrames, dns_multicast |-> DnsMulticastFrames, dhcp |-> DhcpFrames, snmp |-> SnmpFrames, tls |-> TlsFrames,
     http |-> HttpFrames, nbns |-> NbnsFrames, nbds |-> NbdsFrames, ntlmssp |-> NtlmsspFrames, tftp |-> TftpFrames,
     tacacs |-> TacacsFrames, smb |-> SmbFrames]

MCTraffic == LinkTraffic @@ ItTraffic @@ OtTraffic
=============================================================================
