--------------------------------- MODULE ItApp ---------------------------------
(*****************************************************************************)
(* The IT application decoders that keep nothing between calls: DHCP, DNS,   *)
(* SNMP, TLS and HTTP (it_app/), service discovery, MQTT-SN, NetBIOS and     *)
(* NTLMSSP. Each is an operator from the message, as far as it was           *)
(* captured, to the events pushed.                                           *)
(*****************************************************************************)
EXTENDS Decoding

-----------------------------------------------------------------------------
(***************************************************************************)
(* The DHCP decoder: one message with its options, the client, the server  *)
(* and the lease it tells of. It keeps nothing between calls.              *)
(***************************************************************************)

DhcpAbsent == "none"

OrElse(a, b) == IF a = DhcpAbsent THEN b ELSE a

Fixed == 240

Pad == 0

End == 255

SizeOf(o) == IF o.code \in {Pad, End} THEN 1 ELSE 2 + o.size

\* parse_dhcp: the options up to the end mark.  One that is cut spoils the message, a cut between two does not.
Options(c) ==
    LET end == SelectInSeq(c.options, LAMBDA o : o.code = End)
        all == IF end = 0 THEN c.options ELSE SubSeq(c.options, 1, end - 1)
    IN  [all |-> all, read |-> Within(all, SizeOf, SizeOf, c.len - Fixed)]

Spoilt(c) ==
    LET o == Options(c)
        used == FoldLeft(LAMBDA sum, x : sum + SizeOf(x), 0, o.read)
    IN  Len(o.read) < Len(o.all) /\ Fixed + used < c.len

\* A later option overrides an earlier one, also when it holds no address.
Option(c, code) ==
    LET read == Options(c).read
        at == {n \in DOMAIN read : read[n].code = code}
    IN  IF at = {} THEN DhcpAbsent ELSE read[Max(at)].value

RequestedIp == 50

MessageType == 53

ServerId == 54

DhcpNames == {"discover", "offer", "request", "decline", "ack", "nak", "release", "inform"}

Status(c) == IF c.dport = 67 THEN "request" ELSE IF c.sport = 67 THEN "response" ELSE "observed"

\* The client at the server, or at the relay when no server is named.
Lease(c) ==
    LET at == OrElse(Option(c, ServerId), c.giaddr)
    IN  If(at # DhcpAbsent, Topology(c, "dhcp_lease", c.mac, at))

DhcpOnDatagram(c) ==
    IF c.len < Fixed \/ ~c.cookie \/ Spoilt(c)
    THEN Anomaly(c, "medium")
    ELSE LET server == Option(c, ServerId)
             lease == OrElse(Option(c, RequestedIp), c.yiaddr)
             type == Option(c, MessageType)
         IN  Told(c, IF type \in DhcpNames THEN type ELSE "bootp", Status(c), If(lease # DhcpAbsent, <<lease>>))
             \o Asset(c, c.mac)
             \o If(OrElse(server, c.siaddr) # DhcpAbsent, Asset(c, OrElse(server, c.siaddr)))
             \o Lease(c)

-----------------------------------------------------------------------------
(***************************************************************************)
(* The DNS and mDNS decoder: the question and the records of one message,  *)
(* and the hosts they tell of. It keeps nothing between calls.             *)
(* A question has the size of its name; a record the size of its name and  *)
(* of its data, its type, and "ip", the address that its data is or ends   *)
(* in. "len" is how many bytes of the payload were captured.               *)
(***************************************************************************)

DnsAbsent == "none"

DnsHeader == 12

MulticastPort == 5353

\* parse: all questions or nothing; the records up to the first that is not all there.
DnsQuestionsSize(c) == FoldLeft(LAMBDA sum, q : sum + q.size + 4, 0, c.questions)

Readable(c, len) == len >= DnsHeader + DnsQuestionsSize(c)

DnsRecords(c, len) ==
    LET Size(r) == r.size + 10 + r.data
    IN  Within(c.records, Size, Size, len - DnsHeader - DnsQuestionsSize(c))

\* on_datagram, not multicast: the n-th answer is taken to answer the n-th question.
Paired(c, records) ==
    LET pairs == Min({Len(c.questions), Len(records), c.ancount})
    IN  ForEach(SubSeq(records, 1, pairs), LAMBDA r : If(r.ip # DnsAbsent, Asset(c, r.ip)))

\* on_datagram, multicast.  A record's name and the name its data is may be local, or a service's.
LocalHosts(records) == SelectSeq(records, LAMBDA r : r.type = "A" /\ r.local)

\* Without an address record, the first pointer to a local host names the sender.
PointsToHost(r) == r.type = "PTR" /\ r.target = "host" /\ ~r.reverse6

Hosts(c, records) ==
    IF LocalHosts(records) # <<>>
    THEN ForEach(LocalHosts(records), LAMBDA r : If(~r.service, Asset(c, r.ip)))
    ELSE If(\E n \in DOMAIN records : PointsToHost(records[n]), Asset(c, c.src))

\* What TXT entries, instance names and known service types say of the sender.
Enriches(r) == r.type \in {"PTR", "TXT"} /\ r.tells # {}

ReverseHosts(c, records) ==
    ForEach(records, LAMBDA r : If(r.type = "PTR" /\ r.reverse # DnsAbsent, Asset(c, r.reverse)))

Multicast(c, records) ==
    Hosts(c, records)
    \o If(\E n \in DOMAIN records : Enriches(records[n]), Asset(c, c.src))
    \o ReverseHosts(c, records)

Decode(c, len) ==
    IF len < DnsHeader \/ ~Readable(c, len)
    THEN Anomaly(c, "medium")
    ELSE LET records == DnsRecords(c, len)
         IN  Told(c, IF c.response THEN "response" ELSE "query", IF c.response THEN "response" ELSE "request",
                  [n \in DOMAIN c.questions |-> c.questions[n].name])
             \o If(c.response, IF MulticastPort \in {c.sport, c.dport} THEN Multicast(c, records)
                               ELSE Paired(c, records))

\* dns_payload: over TCP the two bytes of length are taken off only if the message is complete.  A
\* message read from its length on has its flags for a count of questions and its ID for flags.
Misread(c) ==
    IF c.len < DnsHeader \/ c.flags # 0
    THEN Anomaly(c, "medium")
    ELSE Told(c, IF c.id >= 32768 THEN "response" ELSE "query",
              IF c.id >= 32768 THEN "response" ELSE "request", <<>>)

DnsOnDatagram(c) ==
    IF ~c.tcp THEN Decode(c, c.len)
    ELSE IF c.len > 2 /\ c.advertised + 2 <= c.len THEN Decode(c, c.advertised)
    ELSE Misread(c)

-----------------------------------------------------------------------------
(***************************************************************************)
(* The SNMP decoder: the variables of one message, and the agent they      *)
(* describe. It keeps nothing between calls. The BER reading is all or     *)
(* nothing: every length has to fit its enclosing one.                     *)
(***************************************************************************)

Response == 162

TrapV1 == 164

Inform == 166

TrapV2 == 167

SystemGroup == {"sysName", "sysDescr", "sysObjectID"}

\* parse_snmp: SNMPv3 wraps its PDU and a report has no name, so neither is read.
Parsed(c) ==
    /\ c.len >= c.size
    /\ c.nested
    /\ c.pdu \in 160..167
    /\ \A n \in DOMAIN c.bindings : c.bindings[n].ok

StatusOf(pdu) ==
    IF pdu = Response THEN "response" ELSE IF pdu \in {TrapV1, Inform, TrapV2} THEN "observed" ELSE "request"

SnmpOnDatagram(c) ==
    IF ~Parsed(c)
    THEN Anomaly(c, "medium")
    ELSE Told(c, c.pdu, StatusOf(c.pdu), [n \in DOMAIN c.bindings |-> c.bindings[n].oid])
         \o If(\E n \in DOMAIN c.bindings : c.bindings[n].oid \in SystemGroup,
               Asset(c, IF c.sport \in {161, 162} THEN c.src ELSE c.dst))

-----------------------------------------------------------------------------
(***************************************************************************)
(* The TLS and HTTP decoders: a client hello with the server name it asks  *)
(* for, and the first line of a request or a response. They keep nothing   *)
(* between calls and stay silent on what they cannot read.                 *)
(***************************************************************************)

WebAbsent == "none"

(***************************************************************************)
(* TLS.  The fields of the hello follow one another; each length may claim *)
(* more than there is.                                                     *)
(***************************************************************************)
Handshake == 22

CiphersAt(c) == 44 + c.session

CompressionAt(c) == CiphersAt(c) + 2 + c.ciphers

ExtensionsAt(c) == CompressionAt(c) + 1 + c.compression

IsClientHello(c) ==
    /\ c.len >= 43
    /\ c.type = Handshake
    /\ c.len >= 5 + c.record
    /\ c.hello
    /\ c.len > 43
    /\ c.len > CiphersAt(c) + 1
    /\ c.len > CompressionAt(c)
    /\ c.len > ExtensionsAt(c) + 1

Extensions(c) ==
    LET start == ExtensionsAt(c) + 2
        Size(e) == 4 + e.size
    IN  Within(c.extensions, Size, Size, Min({c.len, start + c.extlen}) - start)

\* The last server name whose lengths agree, or none if it is no text.
Sni(c) ==
    LET read == Extensions(c)
        at == {n \in DOMAIN read : read[n].type = 0 /\ read[n].size >= 5 /\ read[n].agrees}
    IN  IF at = {} THEN WebAbsent ELSE read[Max(at)].name

OnTls(c) ==
    If(IsClientHello(c),
       Told(c, "client_hello", "observed", If(Sni(c) # WebAbsent, <<Sni(c)>>)) \o If(Sni(c) # WebAbsent, Asset(c, c.dst)))

(***************************************************************************)
(* HTTP: words of the first line.  A word that was cut reads as the word   *)
(* Cut, a status that was cut as another status.                           *)
(***************************************************************************)
Cut == "cut"

Second(c) ==
    LET got == c.len - (c.first + 1)
    IN  IF got <= 0 THEN "" ELSE IF got < c.second.size THEN Cut ELSE c.second.value

HttpReadable(c) == c.len > 0 /\ c.text /\ c.len > c.first

WebOnHttp(c) ==
    If(HttpReadable(c),
       IF c.kind = "request"
       THEN Told(c, c.method, "request", If(Second(c) # "", <<Second(c)>>))
       ELSE If(c.second.number /\ Second(c) # "", Told(c, "response", Second(c), <<>>)))

-----------------------------------------------------------------------------
(***************************************************************************)
(* The discovery decoder: an mDNS message tells an asset per useful record *)
(* and then itself; a WS-Discovery message is known by the first of the    *)
(* words it contains. The counts of an mDNS header agree with the lists    *)
(* that follow it; the capture may cut them.                               *)
(***************************************************************************)

PortMdns == 5353

PortWsd == 3702

DiscoveryHeaderLen == 12

\* A question is pushed once its name is read; what follows the name may be cut.
Questions(c) == Within(c.questions, LAMBDA q : q.nsize, LAMBDA q : q.nsize + 4, c.len - DiscoveryHeaderLen)

DiscoveryQuestionsSize(c) == FoldLeft(LAMBDA n, q : n + q.nsize + 4, 0, c.questions)

RecordSize(r) == r.nsize + 10 + r.rdlength

\* When the questions end early the records are looked for where nothing is left to read.
DiscoveryRecords(c) == Within(c.answers \o c.more, RecordSize, RecordSize, c.len - DiscoveryHeaderLen - DiscoveryQuestionsSize(c))

Answers(c) == SubSeq(DiscoveryRecords(c), 1, IF Len(DiscoveryRecords(c)) < Len(c.answers) THEN Len(DiscoveryRecords(c)) ELSE Len(c.answers))

\* PTR, SRV, A, AAAA.  A pointer needs a readable target, a service does not.
TellsAsset(r) ==
    \/ r.rtype = 12 /\ r.target # "none"
    \/ r.rtype = 33 /\ r.rdlength >= 6
    \/ r.rtype = 1 /\ r.rdlength = 4
    \/ r.rtype = 28 /\ r.rdlength = 16

\* Mutant: the kind of message follows what was read of it, not its counts.
MdnsOperationAsRead(c) ==
    IF Questions(c) = <<>> THEN "mdns_response" ELSE IF Answers(c) = <<>> THEN "mdns_query" ELSE "mdns_update"

MdnsOperation(c) ==
    IF c.questions = <<>> THEN "mdns_response" ELSE IF c.answers = <<>> THEN "mdns_query" ELSE "mdns_update"

DiscoveryNames(items) == [n \in DOMAIN items |-> items[n].name]

DecodeMdns(c) ==
    IF c.len < DiscoveryHeaderLen THEN <<>>
    ELSE ForEach(DiscoveryRecords(c), LAMBDA r : If(TellsAsset(r), Asset(c, r.name)))
         \o Told(c, MdnsOperation(c), "observed", DiscoveryNames(IF c.answers # <<>> THEN Answers(c) ELSE Questions(c)))

\* wsd_classify: the words in the order they are looked for.  "ends" gives, for each word the
\* message contains, where its first occurrence ends.
Words == <<"ResolveMatches", "ProbeMatches", "Hello", "Bye", "Resolve", "Probe">>

Present(c) == SelectSeq(Words, LAMBDA w : w \in DOMAIN c.ends /\ c.ends[w] <= c.len)

WsdClassify(c) == IF Present(c) = <<>> THEN "unknown" ELSE Head(Present(c))

\* extract_xml_text: an element is read once its closing tag has begun.
XAddrs(c) == IF c.xaddrs_end <= c.len THEN c.xaddrs ELSE "none"

DecodeWsd(c) ==
    Told(c, WsdClassify(c), "observed", <<>>)
    \o If(WsdClassify(c) \in {"ProbeMatches", "Hello"} /\ XAddrs(c) # "none", Asset(c, c.src))

DiscoveryOnDatagram(c) ==
    IF PortMdns \in {c.sport, c.dport} THEN DecodeMdns(c)
    ELSE IF PortWsd \in {c.sport, c.dport} THEN DecodeWsd(c)
    ELSE <<>>

-----------------------------------------------------------------------------
(***************************************************************************)
(* The MQTT-SN decoder: a short or an extended length, then one message.   *)
(* It keeps nothing between calls.                                         *)
(***************************************************************************)

GwInfo == 2

Connect == 4

Named == (0..29 \ {3, 17, 25}) \cup {254}

MqttSnHeaderLen(c) == IF c.extended THEN 4 ELSE 2

\* What the header leaves of the declared length, as far as it was captured.
PayloadLen(c) ==
    LET end == IF c.length < c.len THEN c.length ELSE c.len
    IN  IF end >= MqttSnHeaderLen(c) THEN end - MqttSnHeaderLen(c) ELSE 0

\* Where each reply has its return code: CONNACK, REGACK, PUBACK, SUBACK, WILLTOPICRESP, WILLMSGRESP.
ReturnCodeAt == [t \in {5, 11, 13, 19, 27, 29} |-> CASE t \in {11, 13} -> 4 [] t = 19 -> 5 [] OTHER -> 0]

\* A reply that was cut before its return code is taken for a success.
StatusFor(c) ==
    IF c.msg_type \in DOMAIN ReturnCodeAt /\ PayloadLen(c) > ReturnCodeAt[c.msg_type] THEN c.rc ELSE 0

DecodeMessage(c) ==
    Told(c, IF c.msg_type \in Named THEN c.msg_type ELSE Unknown, StatusFor(c), <<>>)
    \o If(c.msg_type = GwInfo /\ PayloadLen(c) >= 1, Asset(c, <<c.src, "gateway">>))
    \o If(c.msg_type = Connect /\ PayloadLen(c) >= 4, Asset(c, <<c.src, "client">>))

MqttSnOnDatagram(c) ==
    IF c.len < MqttSnHeaderLen(c) THEN Anomaly(c, "low")
    ELSE If(c.length # c.len, Anomaly(c, "low"))
         \o If(c.msg_type \notin Named, Anomaly(c, "low"))
         \o DecodeMessage(c)

-----------------------------------------------------------------------------
(***************************************************************************)
(* The NetBIOS decoder: name service messages and datagrams with the names *)
(* they carry. It keeps nothing between calls.                             *)
(* A name that is "plain" is written out in 32 letters; any other form, a  *)
(* pointer for instance, is not read. A record has the low half of its     *)
(* time to live and the size of its data.                                  *)
(***************************************************************************)

NetBiosHeader == 12

NamePort == 137

DatagramPort == 138

\* decode_netbios_name: a length byte, 32 letters and the final zero if it was captured.
NameSize == 34

NameRead(plain, at, len) == plain /\ at + NameSize - 1 <= len

Consumed(at, len) == IF at + NameSize <= len THEN NameSize ELSE NameSize - 1

\* The message as a list of entries, questions first; "on" is how far the reader moves beyond the name.
Skip(e) == IF e.question THEN 4 ELSE 8 + e.ttl

Width(e) == NameSize + (IF e.question THEN 4 ELSE 10 + e.data)

\* One turn of the loop: "at" is where the reader is, "real" where the entry is.  A reader that is not
\* at an entry finds no name there.
Step(len, r, e) ==
    LET aligned == r.at = r.real
        next == r.at + Consumed(r.at, len)
    IN  IF r.stop THEN r
        ELSE IF r.at >= len THEN [r EXCEPT !.stop = TRUE]
        ELSE IF ~aligned \/ ~NameRead(e.plain, r.at, len) THEN [r EXCEPT !.stop = TRUE, !.failed = TRUE]
        ELSE [r EXCEPT !.names = Append(@, e.name), !.stop = ~e.question /\ next + 8 > len,
                       !.at = next + Skip(e), !.real = r.real + Width(e)]

Reading(c) ==
    FoldLeft(LAMBDA r, e : Step(c.len, r, e),
             [at |-> NetBiosHeader, real |-> NetBiosHeader, names |-> <<>>, stop |-> FALSE, failed |-> FALSE], c.entries)

OperationOf(c) == IF c.opcode \in {0, 5, 6, 7, 8} THEN <<c.response, c.opcode>> ELSE <<c.response, Unknown>>

DecodeNbns(c) ==
    IF c.len < NetBiosHeader
    THEN Anomaly(c, "low")
    ELSE LET r == Reading(c)
         IN  If(r.failed, Anomaly(c, "low"))
             \o Told(c, OperationOf(c), IF c.response /\ c.rcode # 0 THEN "failed" ELSE "observed", r.names)
             \o ForEach(r.names, LAMBDA n : Asset(c, c.src))

\* The names of a datagram start behind 14 bytes.  The second may be missing.
NamesOffset == 14

DecodeNbds(c) ==
    LET second == NamesOffset + Consumed(NamesOffset, c.len)
    IN  IF c.len < 10 THEN Anomaly(c, "low")
        ELSE IF c.type \notin 16..18 THEN Told(c, <<FALSE, Unknown>>, "observed", <<>>)
        ELSE IF ~NameRead(c.plain, NamesOffset, c.len) THEN Anomaly(c, "low")
        ELSE Told(c, <<FALSE, c.type>>, "observed",
                  <<c.from, IF NameRead(c.plain, second, c.len) THEN c.to ELSE "">>)
             \o Asset(c, c.ip)

NetBiosOnDatagram(c) ==
    IF NamePort \in {c.sport, c.dport} THEN DecodeNbns(c)
    ELSE If(DatagramPort \in {c.sport, c.dport}, DecodeNbds(c))

-----------------------------------------------------------------------------
(***************************************************************************)
(* The NTLMSSP decoder: every blob that starts with the magic in a chunk,  *)
(* wherever it is. It keeps nothing between calls. A blob reaches to the   *)
(* end of what was captured.                                               *)
(***************************************************************************)

Magic == 8

Negotiate == 1

Challenge == 2

Authenticate == 3

\* The bytes of fixed fields a message of each type must have.
FixedLen(type) == IF type = Negotiate THEN 32 ELSE IF type = Challenge THEN 48 ELSE 64

NtlmsspOnHttp(c) == {c.sport, c.dport} \cap {80, 8080} # {}

\* sec_buf_slice: a field lies anywhere in the blob.
FieldRead(f, len) == f.at + f.size <= len

\* What one blob of "len" bytes gives.  The client is told only if a user name could be read.
BlobEvents(c, b, len) ==
    If(80 \in {c.sport, c.dport}, Anomaly(c, "medium"))
    \o IF b.type \notin Negotiate..Authenticate
       THEN Told(c, Unknown, "observed", <<>>) \o Anomaly(c, "low")
       ELSE IF len < FixedLen(b.type)
       THEN Anomaly(c, "low")
       ELSE Told(c, b.type, "observed", <<>>)
            \o If(b.type = Challenge, Asset(c, c.src))
            \o If(b.type = Authenticate /\ FieldRead(b.user, len) /\ b.user.size > 0, Asset(c, c.src))

\* process_chunk: a blob of fewer than twelve bytes ends the search.
OnStreamChunk(c) ==
    IF NtlmsspOnHttp(c) /\ c.ascii /\ c.negotiate >= 0 /\ c.negotiate + 10 <= c.len
    THEN Told(c, 0, "observed", <<>>)
    ELSE ForEach(SelectSeq(c.blobs, LAMBDA b : b.at + Magic + 4 <= c.len),
                 LAMBDA b : BlobEvents(c, b, c.len - b.at))

=============================================================================
