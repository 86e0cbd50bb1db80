------------------------------ MODULE ItSessions ------------------------------
(*****************************************************************************)
(* The IT decoders that keep a record per session or stream: RDP, VNC,       *)
(* SMTP, OpenVPN, QUIC, IKE, WireGuard, RadSec, CoAP, AMQP, Kerberos, SIP    *)
(* and RTP.                                                                  *)
(*****************************************************************************)
EXTENDS Decoding

CONSTANTS BannerLen,     \* BANNER_LEN
          WordLen,       \* the bytes of a 32-bit word
          ReportEvery    \* an RTP stream is reported at its first and at each 1000th packet

-----------------------------------------------------------------------------
(***************************************************************************)
(* The RDP decoder: the two PDUs of the negotiation, read from one buffer  *)
(* that every stream shares.  A unit of a payload is the TPKT frame that   *)
(* would start there; "fits" is false when its length is below a header's. *)
(***************************************************************************)

RdpNew == [buf |-> <<>>, state |-> "awaiting_cr", user |-> "none"]

\* parse_cr, parse_cc: what a frame is, "none" when it is too short or says otherwise.
IsCr(f) == f.code = "cr" /\ f.parses

\* The user name, when the request has a cookie, makes the client known.
EmitAssetObservation(c, f) == If(f.user # "none", Asset(c, <<c.src, f.user>>))

\* With the envelope of the chunk that held the confirm.
EmitTransaction(c, user, f) == Transaction(c, <<"rdp_connect", user>>, f.confirm)

\* A frame without a code ends the loop, and so does the confirm, which ends the decoding.
Take(s, c, f) ==
    CASE f.code = "none" -> Taking(s, <<>>, TRUE)
      [] f.code # "none" /\ s.state = "awaiting_cr" ->
            IF IsCr(f) THEN Taking([s EXCEPT !.state = "awaiting_cc", !.user = f.user],
                                   EmitAssetObservation(c, f), FALSE)
            ELSE Taking(s, <<>>, FALSE)
      [] OTHER ->
            IF f.code = "cc"
            THEN Taking([s EXCEPT !.state = "done", !.user = "none"], If(f.parses, EmitTransaction(c, s.user, f)), TRUE)
            ELSE Taking(s, <<>>, FALSE)

\* check_tpkt: a wrong version is an anomaly each time the loop meets it, and stays in the buffer.
RdpOnStreamChunk(s, c) ==
    LET r == Drain(LAMBDA t, f : Take(t, c, f), LAMBDA f : f.tpkt /\ f.fits, s, s.buf \o c.payload, 1)
        jammed == ~r.stop /\ r.rest # <<>> /\ ~Head(r.rest).tpkt
    IN  {IF s.state = "done" \/ c.payload = <<>> THEN To(s, <<>>)
         ELSE To([r.state EXCEPT !.buf = r.rest], r.out \o If(jammed, Anomaly(c, "low")))}

-----------------------------------------------------------------------------
(***************************************************************************)
(* The VNC decoder: banner, banner, security types, read from one buffer   *)
(* that every stream shares.  A unit is a byte, with what a banner or a    *)
(* word read at it would say.                                              *)
(***************************************************************************)

VncNew == [buf |-> <<>>, state |-> "awaiting_server_banner", version |-> "none"]

Drop(buf, n) == SubSeq(buf, n + 1, Len(buf))

EmitHandshake(c, version, status) ==
    Transaction(c, <<"vnc_connect", version>>, status) \o Asset(c, c.dst)

\* parse_banner: "none" is a text that is no RFB banner.
ServerBanner(s, c) ==
    LET version == Head(s.buf).banner
    IN  IF version = "none" THEN To([s EXCEPT !.state = "done"], Anomaly(c, "low"))
        ELSE To([buf |-> Drop(s.buf, BannerLen), state |-> "awaiting_client_banner", version |-> version], <<>>)

\* Whatever the client says is taken for its version.
ClientBanner(s) == To([s EXCEPT !.buf = Drop(@, BannerLen), !.state = "awaiting_security_types"], <<>>)

Old(version) == version = "3.3"

Done(s, buf) == [s EXCEPT !.buf = buf, !.state = "done", !.version = "none"]

OneType(s, c) ==
    To(Done(s, Drop(s.buf, WordLen)), EmitHandshake(c, s.version, IF Head(s.buf).word = 0 THEN "failed" ELSE "ok"))

\* The reason behind a refusal is read if it is all there, then the choice if a byte is left.
TypeList(s, c) ==
    LET count == Head(s.buf).byte
        types == {s.buf[i].byte : i \in 2..(count + 1)}
        rest == Drop(s.buf, 1 + count)
        reason == /\ 0 \in types /\ count <= 1
                  /\ Len(rest) >= WordLen /\ Len(rest) >= WordLen + Head(rest).word
        after == IF reason THEN Drop(rest, WordLen + Head(rest).word) ELSE rest
        choice == IF types # {} /\ after # <<>> THEN 1 ELSE 0
    IN  To(Done(s, Drop(after, choice)), EmitHandshake(c, s.version, IF types \subseteq {0} THEN "failed" ELSE "ok"))

\* The bytes the next step of the handshake waits for; the finished handshake waits for ever.
Needed(s) ==
    CASE s.state \in {"awaiting_server_banner", "awaiting_client_banner"} -> BannerLen
      [] s.state = "awaiting_security_types" /\ Old(s.version) -> WordLen
      [] s.state = "awaiting_security_types" /\ ~Old(s.version) ->
            IF s.buf = <<>> THEN 1 ELSE 1 + Head(s.buf).byte
      [] OTHER -> Len(s.buf) + 1

Step(s, c) ==
    CASE s.state = "awaiting_server_banner" -> ServerBanner(s, c)
      [] s.state = "awaiting_client_banner" -> ClientBanner(s)
      [] OTHER -> IF Old(s.version) THEN OneType(s, c) ELSE TypeList(s, c)

\* At most three steps are left, so three turns are the whole loop.
VncOnStreamChunk(s, c) ==
    LET Turn(r, n) == IF Len(r.state.buf) < Needed(r.state) THEN r
                      ELSE LET q == Step(r.state, c) IN To(q.state, r.out \o q.out)
    IN  {IF s.state = "done" \/ c.payload = <<>> THEN To(s, <<>>)
         ELSE FoldLeft(Turn, To([s EXCEPT !.buf = @ \o c.payload], <<>>), <<1, 2, 3>>)}

-----------------------------------------------------------------------------
(***************************************************************************)
(* The SMTP decoder: a chunk is a sequence of lines, read without          *)
(* reassembly; each session remembers whether it is closed to reading.     *)
(***************************************************************************)

NewSession == [tls_active |-> FALSE, done |-> FALSE, awaiting_starttls_220 |-> FALSE, smtps_emitted |-> FALSE]

SmtpNew == [sessions |-> <<>>]

Verbs == {"HELO", "EHLO", "MAIL", "RCPT", "DATA", "RSET", "NOOP", "QUIT", "STARTTLS", "AUTH"}

TxEvent(c, operation) == Transaction(c, operation, "observed")

EmitAnomaly(c) == Anomaly(c, "low")

Smtps(sess, c) ==
    To([sess EXCEPT !.smtps_emitted = TRUE],
       If(~sess.smtps_emitted, TxEvent(c, "smtp_tls_session") \o Asset(c, c.dst)))

\* Mutant: any reply line uses up the wait for the answer to STARTTLS.
OnServerLineHasty(sess, c, line) ==
    LET t == [sess EXCEPT !.awaiting_starttls_220 = FALSE]
    IN  CASE line.code = "none" -> To(t, EmitAnomaly(c))
          [] line.code # "none" /\ line.continues -> To(t, <<>>)
          [] OTHER ->
                IF sess.awaiting_starttls_220 /\ line.code = "220"
                THEN To([t EXCEPT !.tls_active = TRUE], <<>>)
                ELSE To(t, If(line.code = "220", TxEvent(c, "smtp_banner") \o Asset(c, c.dst)))

\* The reply that follows STARTTLS decides; a continuation line is no reply yet.
OnServerLine(sess, c, line) ==
    LET t == [sess EXCEPT !.awaiting_starttls_220 = FALSE]
    IN  CASE line.code = "none" -> To(sess, EmitAnomaly(c))
          [] line.code # "none" /\ line.continues -> To(sess, <<>>)
          [] OTHER ->
                IF sess.awaiting_starttls_220 /\ line.code = "220"
                THEN To([t EXCEPT !.tls_active = TRUE], <<>>)
                ELSE To(t, If(line.code = "220", TxEvent(c, "smtp_banner") \o Asset(c, c.dst)))

\* A reply code, or a long line, is not a command.
OnClientLine(sess, c, line) ==
    To([sess EXCEPT !.done = @ \/ line.verb = "QUIT",
                    !.awaiting_starttls_220 = @ \/ line.verb = "STARTTLS"],
       IF line.verb \in Verbs THEN TxEvent(c, line.verb)
       ELSE IF line.verb = "digits" \/ line.long THEN EmitAnomaly(c)
       ELSE TxEvent(c, "smtp_unknown_command"))

FromServer(c) == c.dport \notin {25, 587} \/ c.sport = c.dport

OnLine(sess, c, line) ==
    IF sess.tls_active \/ sess.done THEN To(sess, <<>>)
    ELSE IF FromServer(c) THEN OnServerLine(sess, c, line)
    ELSE OnClientLine(sess, c, line)

SmtpOnStreamChunk(s, c) ==
    LET sess == Lookup(s.sessions, c.session, NewSession)
        Lines == FoldLeft(LAMBDA r, l : LET q == OnLine(r.state, c, l) IN To(q.state, r.out \o q.out),
                          To(sess, <<>>), c.payload)
        r == IF 465 \in {c.sport, c.dport} THEN Smtps(sess, c)
             ELSE IF sess.tls_active \/ sess.done THEN To(sess, <<>>)
             ELSE IF ~c.utf8 THEN To(sess, Anomaly(c, "low"))
             ELSE Lines
    IN  {IF c.len = 0 THEN To(s, <<>>) ELSE To([s EXCEPT !.sessions = Insert(@, c.session, r.state)], r.out)}

-----------------------------------------------------------------------------
(***************************************************************************)
(* The OpenVPN decoder: packets as datagrams, or reassembled per session   *)
(* with a length in front; an endpoint is observed once per session id.    *)
(***************************************************************************)

OpenVpnNew == [seen_sessions |-> {}, tcp_buffers |-> <<>>]

MinPacketLen == 9

OpcodeMaxKnown == 11

\* is_hard_reset
HardResets == {1, 2, 7, 8, 10}


ParseOpenVpnPacket(s, c, p) ==
    LET first == p.opcode \in HardResets /\ p.session_id \notin s.seen_sessions
    IN  IF p.len < MinPacketLen \/ p.opcode > OpcodeMaxKnown THEN To(s, Anomaly(c, "low"))
        ELSE To([s EXCEPT !.seen_sessions = IF first THEN @ \cup {p.session_id} ELSE @],
                Transaction(c, p.opcode, "observed") \o If(first, Asset(c, <<c.src, p.session_id>>)))

OpenVpnOnDatagram(s, c) == {ParseOpenVpnPacket(s, c, Head(c.payload))}

\* Mutant: one buffer for all sessions.
OnTcpChunkShared(s, c) ==
    LET buf == Lookup(s.tcp_buffers, "all", <<>>) \o c.payload
    IN  Through(LAMBDA t, p : {ParseOpenVpnPacket(t, c, p)},
                [s EXCEPT !.tcp_buffers = Insert(@, "all", Remainder(buf, 1))], Frames(buf, 1))

OnTcpChunk(s, c) ==
    LET buf == Lookup(s.tcp_buffers, c.session, <<>>) \o c.payload
    IN  Through(LAMBDA t, p : {ParseOpenVpnPacket(t, c, p)},
                [s EXCEPT !.tcp_buffers = Insert(@, c.session, Remainder(buf, 1))], Frames(buf, 1))

OpenVpnOnStreamChunk(s, c) == IF c.udp THEN OpenVpnOnDatagram(s, c) ELSE OnTcpChunk(s, c)

-----------------------------------------------------------------------------
(***************************************************************************)
(* The QUIC decoder: one packet header per datagram; a server is observed  *)
(* when the first Initial packet is sent to it.                            *)
(***************************************************************************)

QuicNew == [seen_initial_dsts |-> {}]

VersionNegotiation == 0

MaxCid == 20

\* The two header bits of an Initial, 0-RTT, Handshake and Retry packet count from 0.
QuicOperation(c) == IF c.version = VersionNegotiation THEN Unknown ELSE c.type_bits

Initial == 0

\* A packet without a long header has no type.
Short == 4

\* parse_long_header: both connection ids lie within the datagram, the second behind its length byte.
ParsesLongHeader(c) ==
    /\ c.len >= 7
    /\ c.dcid_len <= MaxCid /\ 6 + c.dcid_len < c.len
    /\ c.scid_len <= MaxCid /\ 6 + c.dcid_len + 1 + c.scid_len <= c.len

ShortHeader(s, c) ==
    To(s, Transaction(c, Short, "observed") \o If(~c.fixed, Anomaly(c, "low")))

LongHeader(s, c) ==
    LET odd == If(~c.fixed /\ c.version # VersionNegotiation, Anomaly(c, "low"))
        greets == QuicOperation(c) = Initial
    IN  IF c.len < 6 THEN To(s, Anomaly(c, "low"))
        ELSE IF ~ParsesLongHeader(c) THEN To(s, odd \o Anomaly(c, "low"))
        ELSE To([s EXCEPT !.seen_initial_dsts = IF greets THEN @ \cup {c.dst} ELSE @],
                odd \o Transaction(c, QuicOperation(c), "observed")
                \o If(greets /\ c.dst \notin s.seen_initial_dsts, Asset(c, c.dst)))

QuicOnDatagram(s, c) ==
    {IF c.len = 0 THEN To(s, <<>>) ELSE IF c.long THEN LongHeader(s, c) ELSE ShortHeader(s, c)}

-----------------------------------------------------------------------------
(***************************************************************************)
(* The IKE decoder: one header per datagram, behind four zero bytes on the *)
(* NAT traversal port; an initiator is observed once per initiator SPI.    *)
(***************************************************************************)

IkeNew == [seen_spis |-> {}]

HeaderLen == 28

Exchanges == [v1 |-> {2, 4, 5, 32, 33}, v2 |-> {34, 35, 36, 37}]

IkeOperation(c) ==
    IF c.exchange \in (IF c.version = 16 THEN Exchanges.v1 ELSE Exchanges.v2) THEN c.exchange ELSE Unknown

\* IKEv2 has a flag; in IKEv1 the responder's SPI, zero in the first message, tells.
IkeStatus(c) ==
    IF c.version = 32 THEN IF c.response_flag THEN "response" ELSE "request"
    ELSE IF c.responder_spi # 0 THEN "response"
    ELSE IF c.initiator_spi # 0 THEN "request"
    ELSE "observed"

NatT(c) == 4500 \in {c.sport, c.dport}

\* The marker that tells IKE from ESP, which is passed over.
Marked(c) == c.len >= 4 /\ c.zeros

\* walk_payloads: the chain of payloads from the one the header names, up to a type of 0.
\* A link tells the type of the next one and its own length.
Malformed(c) ==
    LET From[n \in 0..Len(c.chain)] ==
            LET link == c.chain[n + 1]
            IN  IF n = Len(c.chain) THEN TRUE
                ELSE IF link.len < 4 THEN TRUE
                ELSE link.next # 0 /\ From[n + 1]
    IN  c.next_payload # 0 /\ From[0]

Message(s, c, len) ==
    IF len < HeaderLen THEN To(s, Anomaly(c, "low"))
    ELSE IF c.version \notin {16, 32} THEN To(s, Anomaly(c, "medium"))
    ELSE To([s EXCEPT !.seen_spis = @ \cup {c.initiator_spi}],
            If(Malformed(c), Anomaly(c, "low"))
            \o Transaction(c, IkeOperation(c), IkeStatus(c))
            \o If(c.initiator_spi \notin s.seen_spis, Asset(c, <<c.src, c.initiator_spi>>)))

IkeOnDatagram(s, c) ==
    {IF NatT(c) THEN IF Marked(c) THEN Message(s, c, c.len - 4) ELSE To(s, <<>>)
     ELSE Message(s, c, c.len)}

-----------------------------------------------------------------------------
(***************************************************************************)
(* The WireGuard decoder: a message per datagram, told by its type and its *)
(* length; an initiator is observed once per sender index.                 *)
(***************************************************************************)

WireGuardNew == [seen_initiators |-> {}]

Initiation == 1

\* Three types have one length, the fourth a least one.
LengthFits(c) ==
    CASE c.type = 1 -> c.len = 148
      [] c.type = 2 -> c.len = 92
      [] c.type = 3 -> c.len = 64
      [] c.type = 4 -> c.len >= 32
      [] OTHER -> TRUE

WireGuardOnDatagram(s, c) ==
    LET first == c.type = Initiation /\ c.sender_index \notin s.seen_initiators
    IN  {IF c.len < 4 \/ ~c.reserved_zero \/ ~LengthFits(c) THEN To(s, Anomaly(c, "low"))
         ELSE To([s EXCEPT !.seen_initiators = IF first THEN @ \cup {c.sender_index} ELSE @],
                 Transaction(c, c.type, "observed") \o If(first, Asset(c, <<c.src, c.sender_index>>)))}

-----------------------------------------------------------------------------
(***************************************************************************)
(* The RadSec decoder: only the first byte of a session is looked at.      *)
(***************************************************************************)

RadSecNew == [seen_sessions |-> {}]

\* Change cipher spec, alert, handshake, application data.
TlsRecords == 20..23

\* dst_asset_key: an unspecified address is replaced by the hardware address.
DstAssetKey(c) == IF c.dst = "0.0.0.0" THEN c.dst_mac ELSE c.dst

RadSecOnStreamChunk(s, c) ==
    {IF c.len = 0 \/ c.session \in s.seen_sessions THEN To(s, <<>>)
     ELSE To([s EXCEPT !.seen_sessions = @ \cup {c.session}],
             IF c.first \notin TlsRecords THEN Anomaly(c, "low")
             ELSE Transaction(c, "radsec_tls_session", "observed") \o Asset(c, DstAssetKey(c)))}

-----------------------------------------------------------------------------
(***************************************************************************)
(* The CoAP decoder: a message per datagram with delta-encoded options, or *)
(* DTLS, of which only the first datagram is told.                         *)
(***************************************************************************)

CoapNew == [dtls_emitted |-> FALSE]

\* Codes are class and detail; 0.01 to 0.07 have names.
CoapOperation(c) ==
    IF c.class = 0 THEN IF c.detail \in (IF c.tkl = 0 THEN 0..7 ELSE 1..7) THEN c.detail ELSE Unknown
    ELSE IF c.class \in {2, 4, 5} THEN 32 ELSE Unknown

CoapStatus(c) == IF c.class \in {2, 4, 5} THEN c.class * 100 + c.detail ELSE Unknown

\* decode_extended: a nibble is a value, says in how many bytes the value follows, or is reserved.
Extended(nibble) == CASE nibble = 13 -> 1 [] nibble = 14 -> 2 [] OTHER -> 0

MaxOption == 65535

\* parse_options: an option is its two nibbles, the values they stand for, and the bytes that are
\* left of the datagram behind its first byte.  The payload marker ends the list.
OptionsParse(c) ==
    LET Fits(o) == /\ o.delta_nibble # 15 /\ o.length_nibble # 15
                   /\ Extended(o.delta_nibble) + Extended(o.length_nibble) + o.length <= o.left
        From[n \in 0..Len(c.options)] ==
            IF n = 0 THEN 0
            ELSE IF From[n - 1] = Unknown \/ ~Fits(c.options[n]) THEN Unknown
            ELSE IF From[n - 1] + c.options[n].delta > MaxOption THEN Unknown
            ELSE From[n - 1] + c.options[n].delta
    IN  From[Len(c.options)] # Unknown

HandleDtls(s, c) ==
    To([s EXCEPT !.dtls_emitted = TRUE], If(~s.dtls_emitted, Transaction(c, "coap_dtls_session", "observed")))

HandleCoap(s, c) ==
    IF c.len < 4 \/ c.ver # 1 \/ c.tkl > 8 \/ c.len < 4 + c.tkl \/ ~OptionsParse(c)
    THEN To(s, Anomaly(c, "low"))
    ELSE To(s, Transaction(c, CoapOperation(c), CoapStatus(c)))

CoapOnDatagram(s, c) == {IF 5684 \in {c.sport, c.dport} THEN HandleDtls(s, c) ELSE HandleCoap(s, c)}

-----------------------------------------------------------------------------
(***************************************************************************)
(* The AMQP 1.0 decoder: frames read from each chunk by itself, and one    *)
(* flag for all sessions, which both a TLS session and an OPEN set.        *)
(***************************************************************************)

AmqpNew == [open_emitted |-> FALSE]

Open == 16

Performatives == [amqp |-> 16..24, sasl |-> 64..68]

\* performative_operation
AmqpOperation(f) == IF f.code \in Performatives[f.type] THEN f.code ELSE Unknown

\* A frame too short for a descriptor is passed over; the broker is the receiver of an OPEN.
DecodePerformative(s, c, f) ==
    LET opens == f.code = Open /\ f.type = "amqp" /\ ~s.open_emitted
    IN  CASE f.body = "short" -> To(s, <<>>)
          [] f.body = "other" -> To(s, Anomaly(c, "low"))
          [] OTHER -> To([s EXCEPT !.open_emitted = @ \/ opens],
                         Transaction(c, AmqpOperation(f), "observed") \o If(opens, Asset(c, c.dst)))

\* The header may say that the body starts behind the frame's end: then there is none.
DecodeFrames(s, c, data) ==
    LET r == Drain(LAMBDA t, f : LET q == DecodePerformative(t, c, f) IN Taking(q.state, q.out, FALSE),
                   LAMBDA f : f.doff >= 2, s, data, 1)
    IN  To(r.state, r.out \o If(r.rest # <<>> /\ Head(r.rest).doff < 2, Anomaly(c, "low")))

TlsSession(s, c) ==
    To([s EXCEPT !.open_emitted = TRUE], If(~s.open_emitted, Transaction(c, "amqp_tls_session", "observed")))

\* A protocol header may stand in front of the frames.
AmqpOnStreamChunk(s, c) ==
    LET r == DecodeFrames(s, c, c.payload)
    IN  {CASE c.len = 0 -> To(s, <<>>)
           [] c.len > 0 /\ 5671 \in {c.sport, c.dport} -> TlsSession(s, c)
           [] OTHER ->
                IF ~c.magic THEN r
                ELSE IF c.major # 1 THEN To(s, Anomaly(c, "medium"))
                ELSE To(r.state, Transaction(c, "amqp_protocol_header", "observed") \o r.out)}

-----------------------------------------------------------------------------
(***************************************************************************)
(* ASN.1 as the decoders read it: a sequence of elements, each with a tag, *)
(* the elements inside it, and "val", its content as a value.  "cut" marks *)
(* an element whose length is unreadable or goes beyond what is there: it  *)
(* ends the reading of the sequence it stands in.                          *)
(***************************************************************************)

\* ber_tlv and TlvIter: the elements before the first that cannot be read.
Elements(seq) ==
    LET cuts == {n \in DOMAIN seq : seq[n].cut}
    IN  IF cuts = {} THEN seq ELSE SubSeq(seq, 1, (CHOOSE n \in cuts : \A m \in cuts : n <= m) - 1)

\* All with a tag, in order; find_child takes the first.
WithTag(seq, tag) == SelectSeq(Elements(seq), LAMBDA e : e.tag = tag)

\* The content reached by taking the first child with each tag of a path in turn.
Inside(seq, path) ==
    FoldLeft(LAMBDA s, tag : LET es == WithTag(s, tag) IN IF es = <<>> THEN <<>> ELSE es[1].kids, seq, path)

\* The value at the end of a path, or "absent".
ValueAt(seq, path, absent) ==
    LET es == WithTag(Inside(seq, Front(path)), Last(path))
    IN  IF es = <<>> THEN absent ELSE es[1].val

-----------------------------------------------------------------------------
(***************************************************************************)
(* The Kerberos decoder: one message per datagram or chunk, read by the    *)
(* paths of its fields; the first ticket request makes the KDC and the     *)
(* client known, once for the life of the decoder.                         *)
(***************************************************************************)

KerberosNew == [asset_emitted |-> FALSE]

AsReq == 106
AsRep == 107
TgsReq == 108
TgsRep == 109
ApReq == 110
ApRep == 111
KrbError == 126

\* is_krb_tag
Messages == {AsReq, AsRep, TgsReq, TgsRep, ApReq, ApRep, KrbError}

Sequence == 48

GeneralString == 27

Ctx(n) == 160 + n

\* parse_realm and parse_principal_name, below the context tag that holds them.
Realm(content, path) == ValueAt(content, path \o <<GeneralString>>, "none")

PrincipalName(content, path) ==
    LET parts == WithTag(Inside(content, path \o <<Sequence, Ctx(1), Sequence>>), GeneralString)
    IN  IF parts = <<>> THEN "none" ELSE parts[1].val

\* parse_kdc_req, parse_kdc_rep, parse_krb_error: where the names of the client stand.
ClientPaths(tag) ==
    CASE tag \in {AsReq, TgsReq} -> [realm |-> <<Sequence, Ctx(4), Sequence, Ctx(2)>>,
                                     cname |-> <<Sequence, Ctx(4), Sequence, Ctx(1)>>]
      [] tag \in {AsRep, TgsRep} -> [realm |-> <<Sequence, Ctx(3)>>, cname |-> <<Sequence, Ctx(4)>>]
      [] OTHER -> [realm |-> <<Sequence, Ctx(7)>>, cname |-> <<Sequence, Ctx(8)>>]

Client(tag, content) ==
    IF tag \in {ApReq, ApRep} THEN [cname |-> "none", realm |-> "none"]
    ELSE [cname |-> PrincipalName(content, ClientPaths(tag).cname),
          realm |-> Realm(content, ClientPaths(tag).realm)]

\* parse_ticket_fields: the service a reply or an AP request holds a ticket for.
TicketService(tag, content) ==
    CASE tag \in {AsRep, TgsRep} -> PrincipalName(content, <<Sequence, Ctx(5), 97, Sequence, Ctx(2)>>)
      [] tag = ApReq -> PrincipalName(content, <<Sequence, Ctx(3), 97, Sequence, Ctx(2)>>)
      [] OTHER -> "none"

KerberosStatus(tag) ==
    IF tag = KrbError THEN "error" ELSE IF tag \in {AsReq, TgsReq, ApReq} THEN "request_only" ELSE "response_only"

\* decode_asn1
DecodeAsn1(s, c) ==
    LET client == Client(c.tag, c.content)
        asks == c.tag \in {AsReq, TgsReq} /\ ~s.asset_emitted
    IN  IF c.asn1_len < 2 \/ c.tag \notin Messages \/ c.cut THEN To(s, Anomaly(c, "low"))
        ELSE To([s EXCEPT !.asset_emitted = @ \/ asks],
                Transaction(c, <<c.tag, client.cname, client.realm, TicketService(c.tag, c.content)>>, KerberosStatus(c.tag))
                \o If(c.tag = KrbError, Anomaly(c, "medium"))
                \o If(asks, Asset(c, <<"kdc", c.dst>>) \o Asset(c, <<"client", c.src>>)))

KerberosOnDatagram(s, c) == {DecodeAsn1(s, c)}

\* tcp_payload: with or without a length in front, which the chunk must hold in full.
KerberosOnStreamChunk(s, c) ==
    {IF c.len = 0 THEN To(s, <<>>)
     ELSE IF c.len < 4 \/ (c.prefixed /\ c.len < 4 + c.asn1_len) THEN To(s, Anomaly(c, "low"))
     ELSE DecodeAsn1(s, c)}

-----------------------------------------------------------------------------
(***************************************************************************)
(* The SIP and RTP decoder: told apart by the first byte, SIP messages one *)
(* by one, RTP by stream, of which the first and every n-th packet is told.*)
(***************************************************************************)

SipRtpNew == [rtp_streams |-> <<>>]

\* SIP_METHODS
Methods == {"REGISTER", "INVITE", "ACK", "CANCEL", "BYE", "OPTIONS", "SUBSCRIBE", "NOTIFY", "REFER",
            "MESSAGE", "INFO", "UPDATE", "PRACK", "PUBLISH"}

\* A start line of three tokens is a response or a request.
HandleSip(c) ==
    CASE ~c.utf8 \/ ~c.terminated \/ c.tokens # 3 -> Anomaly(c, "low")
      [] c.utf8 /\ c.terminated /\ c.tokens = 3 /\ c.method = "SIP/2.0" ->
            Transaction(c, "sip_response", "sip_response_code")
      [] OTHER -> IF c.method \notin Methods THEN Anomaly(c, "low")
                  ELSE Transaction(c, c.method, "observed") \o If(c.method = "REGISTER", Asset(c, c.src))

Rtcp == 192..223

\* rtcp_op
RtcpOp(pt) == IF pt \in 200..204 THEN pt ELSE Unknown

\* The first sequence number of a stream and whether a marker was seen go with each report.
HandleRtp(s, c) ==
    LET old == Lookup(s.rtp_streams, c.ssrc, [count |-> 0, seq_initial |-> c.seq, marker_seen |-> FALSE])
        new == [old EXCEPT !.count = @ + 1, !.marker_seen = @ \/ c.marker]
    IN  To([s EXCEPT !.rtp_streams = Insert(@, c.ssrc, new)],
           If(new.count = 1 \/ new.count % ReportEvery = 0,
              Transaction(c, <<"rtp_stream", c.ssrc, new.seq_initial, new.marker_seen>>, "observed")))

HandleRtpRtcp(s, c) ==
    IF c.pt \in Rtcp THEN To(s, Transaction(c, <<"rtcp", RtcpOp(c.pt)>>, "observed")) ELSE HandleRtp(s, c)

SipRtpOnDatagram(s, c) ==
    {CASE c.len = 0 -> To(s, <<>>)
       [] c.len > 0 /\ c.first = "version_2" /\ c.len >= 12 -> HandleRtpRtcp(s, c)
       [] c.len > 0 /\ c.first = "letter" -> To(s, HandleSip(c))
       [] OTHER -> To(s, Anomaly(c, "low"))}

=============================================================================
