------------------------------ MODULE MCDecoders -----------------------------
(***************************************************************************)
(* The traffic of the decoders that remember: two clients, "a" and "b",    *)
(* each in a session of its own with the server "z", and the instance:     *)
(* small caps and sampling rates, so that tables fill and samples come     *)
(* round.                                                                  *)
(***************************************************************************)
EXTENDS Pairing, Sessions, TLC

Ask(k, port) == [session |-> k, src |-> k, dst |-> "z", sport |-> 50000, dport |-> port]

Reply(k, port) == [session |-> k, src |-> "z", dst |-> k, sport |-> port, dport |-> 50000]

Clients == {"a", "b"}

AdsHead(size, invoke, response, from, to) ==
    [size |-> size, reserved |-> FALSE, cmd |-> 2, response |-> response, error |-> FALSE,
     data_len |-> 0, source |-> from, target |-> to, invoke |-> invoke]

AdsChunks ==
    LET ask(i) == AdsHead(2, i, FALSE, "p", "q")
        part(i) == AdsHead(1, i, TRUE, "q", "p")
    IN  {Ask("a", 48898) @@ [payload |-> p] :
            p \in {<<ask(1), part(1)>>, <<ask(1)>>, <<part(1)>>, <<ask(2), part(2), ask(3), part(3)>>,
                   <<[ask(1) EXCEPT !.reserved = TRUE, !.cmd = 77], part(1)>>,
                   <<[ask(1) EXCEPT !.data_len = 1], part(1)>>}}
        \cup {Ask("b", 48898) @@ [payload |-> <<ask(1), part(1)>>]}
        \cup {Reply(k, 48898) @@ [payload |-> <<AdsHead(2, i, TRUE, "q", "p"), part(i)>>] : k \in Clients, i \in 1..2}
        \cup {Reply("a", 48898) @@ [payload |-> <<[AdsHead(2, 1, TRUE, "q", "p") EXCEPT !.error = TRUE], part(1)>>]}

MelsecChunks ==
    LET f(l, h, n, cmd, end, t) == [len |-> l, subheader |-> h, serial |-> n, cmd |-> cmd, sub |-> 0,
                                    end_code |-> end, ts |-> t]
    IN  {Ask(k, 5007) @@ f(21, "request", n, 257, 0, t) : k \in Clients, n \in 1..2, t \in {0, 3}}
        \cup {Ask("a", 5007) @@ f(l, h, 1, 9, 0, 1) : l \in {12, 15, 21}, h \in {"request", "other"}}
        \cup {Reply(k, 5007) @@ f(15, "response", 1, 0, e, 1) : k \in Clients, e \in {0, 1}}
        \cup {Reply("a", 5007) @@ f(14, "response", 1, 0, 0, 1)}

UmasChunks ==
    LET f(l, fc, i, sf) == [len |-> l, protocol_id |-> 0, fc |-> fc, pair_id |-> i, subfn |-> sf]
    IN  {Ask(k, 502) @@ f(10, 90, i, sf) : k \in Clients, i \in 1..2, sf \in {17, 200}}
        \cup {Ask("a", 502) @@ f(l, fc, 1, sf) : l \in {9, 11}, fc \in {90, 218, 3}, sf \in {65, 253}}
        \cup {Reply(k, 502) @@ f(11, fc, 1, 254) : k \in Clients, fc \in {90, 218}}

RocPlusChunks ==
    LET f(l, a, b, op, d) == [len |-> l, from |-> a, to |-> b, opcode |-> op, data_length |-> d]
    IN  {Ask(k, 4000) @@ f(8, 1, n, op, 0) : k \in Clients, n \in 1..2, op \in {6, 17}}
        \cup {Reply(k, 4000) @@ f(9, n, 1, op, 1) : k \in Clients, n \in 1..2, op \in {6}}
        \cup {Ask("a", 4000) @@ f(l, 1, 2, op, 1) : l \in {0, 7, 8}, op \in {7, 99}}

GeSrtpChunks ==
    LET f(l, t, n, sv, st) == [len |-> l, msg_type |-> t, seq |-> n, service |-> sv, status |-> st]
    IN  {Ask(k, 18245) @@ f(56, 2, n, sv, 0) : k \in Clients, n \in 1..2, sv \in {4, 99}}
        \cup {Reply(k, 18245) @@ f(56, 3, n, 4, st) : k \in Clients, n \in 1..2, st \in {0, 5}}
        \cup {Ask("a", 18245) @@ f(l, 8, 1, 4, 0) : l \in {0, 55, 56}}

ModbusUdpChunks ==
    LET f(n, fc, l) == [txn |-> n, fc |-> fc, len |-> l, mbap_len |-> 6, protocol_id |-> 0, pdu_len |-> l - 7,
                        addr |-> 65535, byte_count |-> 4]
    IN  {Ask(k, 502) @@ f(n, fc, 12) : k \in Clients, n \in 1..3, fc \in {3}}
        \cup {Reply(k, 502) @@ f(n, 3, 13) : k \in Clients, n \in 1..2}
        \cup {Reply("a", 502) @@ f(1, fc, 12) : fc \in {131, 218, 99}}
        \cup {Ask("a", 502) @@ f(1, 7, l) : l \in {7, 12}}
        \cup {Ask("a", 502) @@ [f(1, 3, 12) EXCEPT !.protocol_id = 1]}

DceRpcChunks ==
    LET f(t, n, ts) == [len |-> 24, version |-> 5, le |-> TRUE, ptype |-> t, call_id |-> n, ts |-> ts,
                        malformed |-> FALSE, epm |-> TRUE]
    IN  {Ask(k, 135) @@ f(t, n, 0) : k \in Clients, n \in 1..2, t \in {"bind", "request"}}
        \cup {Ask("a", 135) @@ f(t, 1, 3) : t \in {"alter_context", "request", "auth3", "cancel"}}
        \cup {Reply(k, 135) @@ f(t, 1, 1) : k \in Clients, t \in {"bind_ack", "response"}}
        \cup {Reply("a", 135) @@ f(t, 1, 1) : t \in {"bind_nak", "fault", "alter_context_resp"}}
        \cup {Ask("a", 135) @@ [f("bind", 1, 0) EXCEPT !.le = FALSE, !.malformed = m] : m \in BOOLEAN}
        \cup {Ask("a", 135) @@ [f("bind", 1, 0) EXCEPT !.version = 4]}

DiameterChunks ==
    LET f(n, r, e) == [len |-> 20, version |-> 1, message_length |-> 20, cmd |-> 257, hop_by_hop |-> n,
                       request |-> r, error |-> e]
    IN  {Ask(k, 3868) @@ f(n, TRUE, FALSE) : k \in Clients, n \in 1..2}
        \cup {Reply(k, 3868) @@ f(n, FALSE, e) : k \in Clients, n \in 1..2, e \in BOOLEAN}
        \cup {Ask(k, 5868) @@ f(1, TRUE, FALSE) : k \in Clients}
        \cup {Ask("a", 3868) @@ [f(1, TRUE, FALSE) EXCEPT !.len = l, !.version = v] : l \in {0, 19}, v \in {1, 2}}
        \cup {Ask("a", 3868) @@ [f(1, TRUE, FALSE) EXCEPT !.message_length = 21, !.cmd = 9]}

Pdu(cmd, response, status, id, name, file_id) ==
    [cmd |-> cmd, response |-> response, status |-> status, message_id |-> id, tree_id |-> 1,
     file_id |-> file_id, name |-> name, null_session |-> FALSE, ctl_code |-> "pipe_transceive",
     broken |-> FALSE, next |-> "none"]

Smb2Chunks ==
    LET f(n, ps) == [size |-> n, sig |-> "smb2", pdus |-> ps]
        one(cmd, r, st, id, name, file) == <<f(1, <<Pdu(cmd, r, st, id, name, file)>>)>>
        chain == <<[Pdu("create", FALSE, "success", 1, "svcctl", "none") EXCEPT !.next = "next"],
                   [Pdu("ioctl", FALSE, "success", 2, "none", "f") EXCEPT !.next = "too_small"],
                   Pdu("read", FALSE, "success", 3, "none", "f")>>
    IN  {Ask(k, 445) @@ [payload |-> p] : k \in Clients,
            p \in {one("create", FALSE, "success", 1, "svcctl", "none"), one("read", FALSE, "success", 2, "none", "f")}}
        \cup {Ask("a", 445) @@ [payload |-> p] :
                p \in {one("create", FALSE, "success", 1, "other", "none"),
                       one("tree_connect", FALSE, "success", 1, "share", "none"),
                       one("ioctl", FALSE, "success", 2, "none", "f"),
                       <<f(2, chain)>>, <<[f(1, <<>>) EXCEPT !.sig = "transform"]>>}}
        \cup {Reply(k, 445) @@ [payload |-> one("create", TRUE, "success", 1, "none", "f")] : k \in Clients}
        \cup {Reply("a", 445) @@ [payload |-> p] :
                p \in {one("create", TRUE, "success", 1, "none", "g"), one("create", TRUE, "denied", 1, "none", "f"),
                       one("tree_connect", TRUE, "success", 1, "none", "none"),
                       one("negotiate", TRUE, "success", 1, "311", "none")}}

LdapChunks ==
    LET m(n, op, id) == [size |-> n, sequence |-> TRUE, malformed |-> FALSE, op |-> op, id |-> id,
                         result |-> 0, dn |-> "cn", starttls |-> TRUE]
    IN  {Ask(k, 389) @@ [payload |-> <<m(1, op, i)>>] : k \in Clients, op \in {"bind", "search"}, i \in {1}}
        \cup {Reply(k, 389) @@ [payload |-> <<m(1, "bind_response", 1)>>] : k \in Clients}
        \cup {Ask("a", 389) @@ [payload |-> p] :
                p \in {<<m(2, "extended", 2)>>, <<m(3, "search", 2), m(1, "abandon", 3)>>, <<[m(1, "other", 4) EXCEPT !.sequence = FALSE]>>,
                       <<[m(1, "bind", 1) EXCEPT !.malformed = TRUE], m(1, "unbind", 5)>>}}
        \cup {Reply("a", 389) @@ [payload |-> <<[m(1, "bind_response", 1) EXCEPT !.result = r]>>] : r \in {49, -1}}
        \cup {Ask(k, 636) @@ [payload |-> <<>>] : k \in Clients}

-----------------------------------------------------------------------------
RdpChunks ==
    LET f(size, code) == [size |-> size, tpkt |-> TRUE, fits |-> TRUE, code |-> code, parses |-> TRUE, user |-> "none",
                          confirm |-> "ok"]
        cr == [f(2, "cr") EXCEPT !.user = "u"]
        tail == f(1, "other")
    IN  {Ask(k, 3389) @@ [payload |-> p] : k \in Clients, p \in {<<cr, tail>>, <<cr>>, <<tail>>}}
        \cup {Reply("a", 3389) @@ [payload |-> p] :
                p \in {<<f(2, "cc"), tail>>, <<[f(1, "cc") EXCEPT !.parses = FALSE]>>,
                       <<f(1, "none")>>, <<[tail EXCEPT !.tpkt = FALSE]>>, <<[tail EXCEPT !.fits = FALSE]>>, <<>>}}

VncChunks ==
    LET b(banner, word, byte) == [banner |-> banner, word |-> word, byte |-> byte]
        new == b("3.8", 9, 9)
        old == b("3.3", 9, 9)
        one == b("none", 1, 1)
        zero == b("none", 0, 0)
    IN  {Reply("a", 5900) @@ [payload |-> p] :
            p \in {<<new, one>>, <<old, one>>, <<new>>, <<zero>>, <<one, zero>>, <<zero, one, zero, one>>}}
        \cup {Ask(k, 5900) @@ [payload |-> p] : k \in Clients, p \in {<<new, one>>, <<one, one>>}}
        \cup {Ask("a", 5900) @@ [payload |-> <<>>]}

SmtpChunks ==
    LET l(code, cont, verb) == [code |-> code, continues |-> cont, verb |-> verb, long |-> FALSE]
        say(verb) == l("none", FALSE, verb)
        r(code) == l(code, FALSE, "digits")
        c(ls) == [len |-> 1, utf8 |-> TRUE, payload |-> ls]
    IN  {Ask("a", 25) @@ c(<<say(v)>>) : v \in {"STARTTLS", "QUIT"}}
        \cup {Ask("b", 25) @@ c(<<say(v)>>) : v \in {"EHLO", "STARTTLS"}}
        \cup {Ask("a", 25) @@ c(<<say("STARTTLS"), say("odd"), say("QUIT"), say("NOOP")>>)}
        \cup {Reply("a", 25) @@ c(<<r("220")>>), Reply("b", 25) @@ c(<<r("220")>>),
              Reply("a", 25) @@ c(<<l("220", TRUE, "digits"), r("454")>>), Reply("a", 25) @@ c(<<say("odd")>>),
              Reply("a", 25) @@ [c(<<>>) EXCEPT !.utf8 = FALSE], Reply("a", 25) @@ [c(<<>>) EXCEPT !.len = 0]}
        \cup {Ask("s", 465) @@ c(<<say("odd")>>)}

OpenVpnChunks ==
    LET u(size, op, id) == [size |-> size, len |-> 9, opcode |-> op, session_id |-> id]
        c(udp, p) == [udp |-> udp, payload |-> p]
    IN  {Ask(k, 1194) @@ c(FALSE, p) : k \in Clients,
            p \in {<<u(2, 7, 1), u(1, 4, 9)>>, <<u(2, 7, 1)>>, <<u(1, 4, 1)>>, <<u(1, 4, 1), u(2, 8, 2)>>}}
        \cup {Ask(k, 1195) @@ c(TRUE, <<u(1, op, 1)>>) : k \in {"u", "v"}, op \in {7, 12}}
        \cup {Ask("u", 1195) @@ c(TRUE, <<[u(1, 7, 1) EXCEPT !.len = 8]>>)}

QuicChunks ==
    LET c(long, v, bits, len) == [len |-> len, long |-> long, fixed |-> TRUE, version |-> v, type_bits |-> bits,
                                  dcid_len |-> 8, scid_len |-> 0]
    IN  {Ask(k, 443) @@ c(TRUE, 1, bits, 20) : k \in Clients, bits \in {0, 2}}
        \cup {Reply(k, 443) @@ c(TRUE, 1, 0, 20) : k \in Clients}
        \cup {Ask("a", 443) @@ x : x \in {c(TRUE, 0, 0, 20), c(TRUE, 1, 0, 5), c(TRUE, 1, 0, 14), c(FALSE, 1, 0, 20),
                                          [c(FALSE, 1, 0, 20) EXCEPT !.fixed = FALSE],
                                          [c(TRUE, 1, 0, 20) EXCEPT !.fixed = FALSE, !.dcid_len = 21],
                                          c(TRUE, 1, 0, 0)}}

IkeChunks ==
    LET c(v, ex, spi, r) == [len |-> 28, zeros |-> TRUE, version |-> v, exchange |-> ex, response_flag |-> FALSE,
                             responder_spi |-> r, initiator_spi |-> spi, next_payload |-> 0, chain |-> <<>>]
        l(len, next) == [len |-> len, next |-> next]
    IN  {Ask(k, 500) @@ c(32, 34, spi, 0) : k \in Clients, spi \in 1..2}
        \cup {Reply("a", 500) @@ [c(32, 34, 1, 7) EXCEPT !.response_flag = TRUE], Reply("a", 500) @@ c(16, 2, 1, 7),
              Ask("a", 500) @@ c(16, 9, 0, 0), Ask("a", 500) @@ c(48, 2, 1, 0), Ask("a", 500) @@ [c(32, 34, 3, 0) EXCEPT !.len = 27],
              Ask("a", 4500) @@ [c(32, 34, 3, 0) EXCEPT !.len = 32], Ask("a", 4500) @@ [c(32, 34, 3, 0) EXCEPT !.zeros = FALSE]}
        \cup {Ask("a", 500) @@ [c(32, 34, 1, 0) EXCEPT !.next_payload = 33, !.chain = ch] :
                ch \in {<<l(4, 0)>>, <<l(4, 5), l(3, 0)>>, <<l(4, 5)>>}}

WireGuardChunks ==
    LET c(t, len, i) == [len |-> len, reserved_zero |-> TRUE, type |-> t, sender_index |-> i]
    IN  {Ask(k, 51820) @@ c(1, len, i) : k \in Clients, len \in {147, 148}, i \in 1..2}
        \cup {Ask("a", 51820) @@ x : x \in {c(2, 92, 1), c(3, 63, 1), c(4, 32, 1), c(9, 5, 1), c(1, 3, 1),
                                            [c(1, 148, 1) EXCEPT !.reserved_zero = FALSE]}}

RadSecChunks ==
    {Ask(k, 2083) @@ [len |-> l, first |-> f, dst_mac |-> "m"] : k \in Clients, l \in {0, 1}, f \in {22, 1}}
    \cup {[Ask("c", 2083) EXCEPT !.dst = "0.0.0.0"] @@ [len |-> 1, first |-> 23, dst_mac |-> "m"]}

CoapChunks ==
    LET c(cl, d) == [len |-> 8, ver |-> 1, tkl |-> 1, class |-> cl, detail |-> d, options |-> <<>>]
        o(dn, ln, d, l) == [delta_nibble |-> dn, length_nibble |-> ln, delta |-> d, length |-> l, left |-> 3]
    IN  {Ask(k, 5684) @@ c(0, 1) : k \in Clients} \cup {Ask(k, 5683) @@ c(0, 1) : k \in Clients}
        \cup {Ask("a", 5683) @@ x : x \in {c(0, 9), c(2, 5), c(7, 0), [c(0, 0) EXCEPT !.tkl = 0], [c(0, 1) EXCEPT !.ver = 2],
                                           [c(0, 1) EXCEPT !.tkl = 9], [c(0, 1) EXCEPT !.len = 4], [c(0, 1) EXCEPT !.len = 3]}}
        \cup {Ask("a", 5683) @@ [c(0, 1) EXCEPT !.options = os] :
                os \in {<<o(1, 1, 1, 1)>>, <<o(14, 0, 65535, 0), o(1, 0, 1, 0)>>, <<o(15, 0, 0, 0)>>, <<o(1, 4, 1, 4)>>}}

AmqpChunks ==
    LET f(size, code) == [size |-> size, doff |-> 2, type |-> "amqp", code |-> code, body |-> "ok"]
        c(magic, p) == [len |-> 8, magic |-> magic, major |-> 1, payload |-> p]
    IN  {Ask(k, 5672) @@ c(FALSE, <<f(1, 16)>>) : k \in Clients}
        \cup {Ask(k, 5671) @@ c(FALSE, <<f(1, 16)>>) : k \in Clients}
        \cup {Ask("a", 5672) @@ x : x \in {c(TRUE, <<f(1, 16), f(1, 17)>>), c(TRUE, <<>>), [c(TRUE, <<>>) EXCEPT !.major = 2],
                                           c(FALSE, <<f(2, 16)>>), [c(FALSE, <<>>) EXCEPT !.len = 0],
                                           c(FALSE, <<[f(1, 16) EXCEPT !.doff = 1]>>),
                                           c(FALSE, <<[f(1, 64) EXCEPT !.type = "sasl"], [f(1, 99) EXCEPT !.body = "short"],
                                                      [f(1, 9) EXCEPT !.body = "other"], f(1, 99)>>)}}

-----------------------------------------------------------------------------
BacnetScChunks ==
    LET c(first, len, orig) == [len |-> len, first |-> first, has_orig |-> orig, has_dst |-> FALSE, orig_vmac |-> "v", dst_mac |-> "m"]
    IN  {Ask(k, 47808) @@ c(22, 9, FALSE) : k \in Clients}
        \cup {Ask("a", 47808) @@ x : x \in {c(1, 10, TRUE), c(1, 9, TRUE), c(13, 4, FALSE), c(1, 3, FALSE), c(0, 0, FALSE)}}

Node(tag, kids, val) == [tag |-> tag, kids |-> kids, val |-> val, cut |-> FALSE]

KerberosChunks ==
    LET seq(kids) == Node(48, kids, "none")
        ctx(n, kids) == Node(160 + n, kids, "none")
        str(v) == Node(27, <<>>, v)
        name(v) == seq(<<ctx(1, <<seq(<<str(v)>>)>>)>>)
        req == <<seq(<<ctx(4, <<seq(<<ctx(1, <<name("user")>>), ctx(2, <<str("realm")>>)>>)>>)>>)>>
        rep == <<seq(<<ctx(3, <<str("realm")>>), ctx(4, <<name("user")>>),
                       ctx(5, <<Node(97, <<seq(<<ctx(2, <<name("svc")>>)>>)>>, "none")>>)>>)>>
        c(tag, content, udp) == [len |-> 60, prefixed |-> ~udp, asn1_len |-> 50, tag |-> tag, cut |-> FALSE, content |-> content, udp |-> udp]
    IN  {Ask(k, 88) @@ c(106, req, udp) : k \in Clients, udp \in BOOLEAN}
        \cup {Reply("a", 88) @@ x : x \in {c(107, rep, TRUE), c(126, <<>>, TRUE), c(111, <<>>, FALSE), c(99, <<>>, TRUE),
                                           [c(107, rep, FALSE) EXCEPT !.len = 3], [c(107, rep, FALSE) EXCEPT !.len = 0]}}

PubSubChunks ==
    LET u(enc, type, count, cut, field) == [encoding |-> enc, type |-> type, count |-> count, cut |-> cut, field |-> field]
        f(x) == u("variant", 0, 1, FALSE, x)
        c(pub, ws, us) == [len |-> 60, ua_version |-> 1, pid |-> "byte", pid_len |-> 0, extended1 |-> FALSE, extended2 |-> FALSE,
                           class_id |-> FALSE, group_header |-> FALSE, group_fields |-> 0, payload_header |-> ws # <<>>,
                           writers |-> ws, publisher |-> pub, units |-> us]
        dsm == u("variant", 0, 2, FALSE, "bad")
    IN  {Ask(k, 4840) @@ c(p, <<1>>, <<dsm, f("x"), f("y")>>) : k \in Clients, p \in {"p", "q"}}
        \cup {Ask("a", 4840) @@ x : x \in {c("p", <<1, 2>>, <<dsm, f("x"), f("bad"), f("y")>>),
                                           c("p", <<1, 2>>, <<u("raw_data", 0, 0, FALSE, "bad"), f("x"), f("y")>>),
                                           c("q", <<>>, <<u("variant", 3, 0, FALSE, "bad")>>), c("q", <<>>, <<u("variant", 9, 0, TRUE, "bad")>>),
                                           [c("p", <<>>, <<>>) EXCEPT !.len = 1], [c("p", <<>>, <<>>) EXCEPT !.pid = "none", !.ua_version = 2]}}

Item(type, message) == [type |-> type, cut |-> FALSE, message |-> message]

CipSafetyChunks ==
    LET m(sv, path) == [len |-> 50, service |-> sv, fixed_fits |-> TRUE, path_fits |-> TRUE, connection_path |-> path]
        c(items) == [len |-> 80, command |-> 111, cip_complete |-> TRUE, cip_len |-> 56, items |-> items]
    IN  {Ask(k, 44818) @@ c(<<Item(178, m(84, <<80>>))>>) : k \in Clients}
        \cup {Reply("a", 44818) @@ c(<<Item(0, m(0, <<>>)), Item(177, m(91, p))>>) :
                p \in {<<32, 1, 80>>, <<33, 0, 80>>, <<0, 1, 0, 0, 80>>, <<128, 1, 80, 80>>, <<35, 80>>, <<0>>}}
        \cup {Ask("a", 44818) @@ x : x \in {c(<<Item(178, m(82, <<80>>))>>), [c(<<>>) EXCEPT !.len = 20], c(<<>>),
                                            c(<<Item(178, [m(84, <<80>>) EXCEPT !.path_fits = FALSE])>>),
                                            c(<<[Item(0, m(0, <<>>)) EXCEPT !.cut = TRUE], Item(178, m(84, <<80>>))>>)}}

FfHseChunks ==
    {Ask(k, p) @@ [len |-> l, magic |-> FALSE] : k \in Clients, p \in {1089, 1090}, l \in {0, 4}}
    \cup {Reply("a", 1089) @@ [len |-> 4, magic |-> TRUE], Ask("c", 9) @@ [len |-> 1, magic |-> FALSE]}

OsiPiChunks ==
    {Ask(k, 5450) @@ [magic |-> m, version |-> v] : k \in Clients, m \in BOOLEAN, v \in {"none", "3.4.1.2"}}
    \cup {Reply("a", 5461) @@ [magic |-> m, version |-> "none"] : m \in BOOLEAN}

VnetIpChunks ==
    {Ask(k, 32768) @@ [len |-> l, function |-> f, vnet_addr |-> v] : k \in Clients, l \in {23, 24}, f \in {1, 9}, v \in 1..2}

SipRtpChunks ==
    LET c(first, len) == [len |-> len, first |-> first, utf8 |-> TRUE, terminated |-> TRUE, tokens |-> 3, method |-> "INVITE",
                          pt |-> 96, ssrc |-> 1, seq |-> 5, marker |-> FALSE]
    IN  {Ask("a", 5004) @@ [c("version_2", 12) EXCEPT !.ssrc = s, !.marker = s = 1, !.seq = q] : s \in 1..2, q \in 5..6}
        \cup {Ask("b", 5004) @@ [c("version_2", 12) EXCEPT !.pt = p] : p \in {96, 200, 210}}
        \cup {Ask("a", 5060) @@ x : x \in {[c("letter", 9) EXCEPT !.method = "REGISTER"], [c("letter", 9) EXCEPT !.method = "SIP/2.0"],
                                           [c("letter", 9) EXCEPT !.method = "odd"], [c("letter", 9) EXCEPT !.tokens = 2],
                                           c("version_2", 11), c("other", 9), c("other", 0)}}

AvtpChunks ==
    LET c(sub, len, id) == [len |-> len, subtype |-> sub, stream_id |-> id, message_type |-> 0, entity_id |-> "e"]
    IN  {Ask(k, 0) @@ c(2, 12, id) : k \in Clients, id \in 1..2} \cup {Ask("a", 0) @@ c(0, 11, 1)}
        \cup {Ask("a", 0) @@ x : x \in {c(122, 20, 0), [c(122, 20, 0) EXCEPT !.message_type = 1], c(122, 12, 0), c(110, 12, 0), c(99, 12, 0)}}

SercosChunks ==
    {Ask(k, 0) @@ [len |-> 6, type |-> t, sync_flag |-> f] : k \in Clients, t \in {0, 2}, f \in BOOLEAN}
    \cup {Ask("a", 0) @@ [len |-> l, type |-> 5, sync_flag |-> TRUE] : l \in {5, 6}}

EipIoChunks ==
    LET i(type, id, seq) == [type |-> type, id |-> id, seq |-> seq, short |-> FALSE]
        c(items) == [fits |-> TRUE, items |-> items]
    IN  {Ask(k, 2222) @@ c(<<i("sequenced", id, n)>>) : k \in {"a"}, id \in {1}, n \in 0..3}
        \cup {Ask("b", 2222) @@ c(<<i("sequenced", 1, n)>>) : n \in 0..1}
        \cup {Ask("a", 2222) @@ x : x \in {c(<<i("address", 1, 0), i("data", 0, 1), i("data", 0, 3)>>), c(<<i("data", 0, 1)>>),
                                           c(<<i("sequenced", 2, 0), i("other", 0, 0)>>), c(<<[i("sequenced", 1, 1) EXCEPT !.short = TRUE]>>),
                                           [c(<<>>) EXCEPT !.fits = FALSE]}}

PtpChunks ==
    LET c(type, clock, dom, gm) == [len |-> 64, version |-> 2, message_length |-> 64, type |-> type, clock |-> clock, domain |-> dom, gm |-> gm]
    IN  {Ask("a", 319) @@ c(11, 1, d, g) : d \in 0..1, g \in 1..2} \cup {Ask("b", 319) @@ c(11, 2, 0, 1)}
        \cup {Ask("a", 319) @@ c(0, k, 0, 1) : k \in 1..2}
        \cup {Ask("a", 319) @@ x : x \in {c(15, 1, 0, 1), [c(11, 1, 0, 2) EXCEPT !.len = 40], [c(11, 1, 0, 2) EXCEPT !.len = 33],
                                          [c(11, 1, 0, 1) EXCEPT !.version = 1, !.message_length = 9]}}

NetFlowChunks ==
    LET t(id, fs) == [id |-> id, count |-> Len(fs), fields |-> fs]
        def(id, ts) == [id |-> id, fits |-> TRUE, templates |-> ts, values |-> <<>>]
        data(id, vs) == [id |-> id, fits |-> TRUE, templates |-> <<>>, values |-> vs]
        c(v, sets) == [len |-> 60, version |-> v, count |-> 1, total_length |-> 60, domain |-> 0, sets |-> sets]
        one == <<"source">>
        two == <<"source", "other">>
    IN  {Ask("a", 2055) @@ c(9, <<def(0, <<t(i, one)>>)>>) : i \in 256..258}
        \cup {Ask("a", 2055) @@ c(9, <<data(256, <<1, 2, 3>>)>>), Ask("b", 2055) @@ c(9, <<data(256, <<1, 2, 3>>)>>),
              Ask("a", 2055) @@ c(9, <<def(0, <<t(256, two)>>), data(256, <<1, 2, 3>>), data(257, <<4>>)>>),
              Ask("a", 2055) @@ c(9, <<def(0, <<[t(256, one) EXCEPT !.count = 2], t(257, one)>>), [data(256, <<1>>) EXCEPT !.fits = FALSE]>>),
              Ask("a", 2055) @@ [c(10, <<def(2, <<t(256, two), t(0, one)>>), data(256, <<1, 2, 0, 4, 5, 6>>)>>) EXCEPT !.domain = 1],
              Ask("a", 2055) @@ c(10, <<def(3, <<t(257, one), t(258, <<>>)>>), data(257, <<1>>), data(9, <<>>)>>),
              Ask("a", 2055) @@ [c(5, <<>>) EXCEPT !.len = 72], Ask("a", 2055) @@ [c(9, <<>>) EXCEPT !.len = 19], Ask("a", 2055) @@ [c(8, <<>>) EXCEPT !.len = 9],
              Ask("a", 2055) @@ [c(9, <<>>) EXCEPT !.len = 1]}

SynchrophasorChunks ==
    LET pmu(id, ph, fl) == [idcode |-> id, phasors |-> ph, analogs |-> 1, digitals |-> 1, phasor_is_float |-> fl, freq_is_float |-> FALSE, analog_is_float |-> FALSE]
        c(type, id, pmus, tb, len) == [len |-> len, sync |-> TRUE, type |-> type, idcode |-> id, cut |-> FALSE, pmus |-> pmus, time_base |-> tb, soc |-> 3, fracsec |-> 5]
    IN  {Ask("a", 4712) @@ c(3, 1, p, tb, 80) : p \in {<<pmu(7, 1, FALSE)>>, <<pmu(7, 1, TRUE), pmu(8, 0, FALSE)>>}, tb \in {0, 10}}
        \cup {Ask("a", 4712) @@ [c(2, 1, <<>>, 10, 80) EXCEPT !.cut = x] : x \in BOOLEAN}
        \cup {Ask(k, 4712) @@ c(0, id, <<>>, 0, len) : k \in Clients, id \in 1..2, len \in {28, 48}}
        \cup {Ask("a", 4712) @@ x : x \in {c(0, 1, <<>>, 0, 13), c(7, 1, <<>>, 0, 48), c(4, 1, <<>>, 0, 48), [c(0, 1, <<>>, 0, 48) EXCEPT !.sync = FALSE]}}

OpcUaChunks ==
    LET c(type, sv, ch, id, t, ns, vs) == [len |-> 60, type |-> type, channel |-> ch, request_id |-> id, sequence |-> 1, code |-> 5, ts |-> t, service |-> sv,
                                           cut |-> FALSE, nodes |-> ns, values |-> vs]
        n(i) == <<"node", i>>
    IN  {Ask("a", 4840) @@ c("MSG", "read_request", 1, x[1], x[2], <<n(x[1]), n(9)>>, <<>>) : x \in {<<1, 1>>, <<1, 2>>, <<2, 1>>, <<3, 1>>}}
        \cup {Ask("b", 4840) @@ c("MSG", "read_request", 1, 1, 1, <<n(5)>>, <<>>)}
        \cup {Reply("a", 4840) @@ c("MSG", "read_response", 1, id, 3, <<>>, <<"x", "y">>) : id \in 1..2}
        \cup {Reply("a", 4840) @@ c("MSG", "read_response", 1, 1, 3, <<>>, <<"aggregate", "y">>)}
        \cup {Reply("a", 4840) @@ [c("MSG", sv, 1, 1, 3, <<>>, <<"x">>) EXCEPT !.cut = TRUE] : sv \in {"read_request", "read_response"}}
        \cup {Ask("a", 4840) @@ x : x \in {c("HEL", "none", 0, 0, 0, <<>>, <<>>), [c("ERR", "none", 0, 0, 0, <<>>, <<>>) EXCEPT !.len = 8],
                                           [c("MSG", "none", 1, 1, 0, <<>>, <<>>) EXCEPT !.len = 23], c("odd", "none", 0, 0, 0, <<>>, <<>>),
                                           c("MSG", "none", 1, 1, 0, <<>>, <<>>)}}

EthernetIpChunks ==
    LET p(tns, n) == [framed |-> TRUE, cmd |-> 15, sts |-> 0, tns |-> tns, function |-> 104, complete |-> TRUE, byte_size |-> 4, file_type |-> 137,
                      element |-> 65535, body_len |-> n]
        m(sv, pccc) == [len |-> 40, service |-> sv, status |-> 0, header_fits |-> TRUE, name_fits |-> TRUE, pccc |-> pccc,
                        path |-> <<[kind |-> "class", value |-> 1], [kind |-> "data", value |-> 0], [kind |-> "stop", value |-> 0], [kind |-> "instance", value |-> 2]>>]
        i(type, msg) == [type |-> type, cut |-> FALSE, message |-> msg, item_len |-> 40, name_fits |-> TRUE, ip |-> "i"]
        c(cmd, items) == [len |-> 70, command |-> cmd, cip_len |-> 46, items |-> items]
    IN  {Ask(k, 44818) @@ c(111, <<i(178, m(75, p(t, 0)))>>) : k \in Clients, t \in 1..2}
        \cup {Reply(k, 44818) @@ c(111, <<i(0, m(0, p(0, 0))), i(178, m(203, p(1, n)))>>) : k \in Clients, n \in {0, 4}}
        \cup {Ask("a", 44818) @@ c(111, <<i(178, m(203, p(1, 4)))>>), Ask("a", 44818) @@ c(112, <<[i(178, m(75, p(1, 0))) EXCEPT !.cut = TRUE]>>),
              Reply("a", 44818) @@ c(112, <<i(177, m(129, p(1, 0)))>>), Reply("a", 44818) @@ c(99, <<i(12, m(0, p(0, 0)))>>),
              Reply("a", 44818) @@ [c(99, <<>>) EXCEPT !.len = 23], Reply("a", 44818) @@ c(7, <<>>)}
        \cup {Reply("a", 44818) @@ c(111, <<i(178, m(203, [p(1, 4) EXCEPT !.sts = 16]))>>)}
        \cup {Ask("a", 44818) @@ c(111, <<i(178, m(75, [p(1, 0) EXCEPT !.file_type = f]))>>) : f \in {134, 138, 1}}

-----------------------------------------------------------------------------
MCChunks ==
    [ads |-> AdsChunks, melsec |-> MelsecChunks, umas |-> UmasChunks, roc_plus |-> RocPlusChunks,
     ge_srtp |-> GeSrtpChunks, modbus_udp |-> ModbusUdpChunks, dcerpc |-> DceRpcChunks,
     diameter |-> DiameterChunks, smb2 |-> Smb2Chunks, ldap |-> LdapChunks,
     rdp |-> RdpChunks, vnc |-> VncChunks, smtp |-> SmtpChunks, openvpn |-> OpenVpnChunks, quic |-> QuicChunks, ike |-> IkeChunks,
     wireguard |-> WireGuardChunks, radsec |-> RadSecChunks, coap |-> CoapChunks, amqp |-> AmqpChunks, bacnet_sc |-> BacnetScChunks,
     kerberos |-> KerberosChunks, opc_ua_pubsub |-> PubSubChunks, cip_safety |-> CipSafetyChunks, ff_hse |-> FfHseChunks,
     osi_pi |-> OsiPiChunks, vnet_ip |-> VnetIpChunks, sip_rtp |-> SipRtpChunks, avtp |-> AvtpChunks, sercos |-> SercosChunks,
     eip_io |-> EipIoChunks, ptp |-> PtpChunks, netflow |-> NetFlowChunks, synchrophasor |-> SynchrophasorChunks, opc_ua |-> OpcUaChunks,
     ethernet_ip |-> EthernetIpChunks]

\* The counted streams, the handshakes in pieces and the bounded tables need the longer histories:
\* four calls fill a table of two and evict from it.
Longer ==
    {"ads", "modbus_udp", "smb2", "rdp", "vnc", "smtp", "openvpn", "avtp", "sercos", "eip_io", "ptp", "netflow", "opc_ua"}

MCMaxSteps == [d \in DOMAIN MCChunks |-> IF d \in Longer THEN 4 ELSE 3]

MCFlushTimes == {1}

\* For the study of one decoder: EtherNet/IP with the PCCC decoder inside it.
PcccChunks == [ethernet_ip |-> EthernetIpChunks]

PcccMaxSteps == [ethernet_ip |-> 3]

\* For the study of the decoders that keep one buffer for all sessions.
BufferChunks == [ads |-> AdsChunks, rdp |-> RdpChunks, vnc |-> VncChunks]

BufferMaxSteps == [d \in DOMAIN BufferChunks |-> 3]
=============================================================================
