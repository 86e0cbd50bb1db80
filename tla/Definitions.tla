------------------------------ MODULE Definitions ------------------------------
(*****************************************************************************)
(* The decoders that read a frame with what an earlier one defined: NetFlow  *)
(* and IPFIX templates, synchrophasor configurations, OPC UA reads, and      *)
(* PCCC commands within EtherNet/IP.                                         *)
(*****************************************************************************)
EXTENDS Decoding

CONSTANTS TemplateCap,   \* TEMPLATE_CAP
          ReadsCap       \* max_pending

-----------------------------------------------------------------------------
(***************************************************************************)
(* The NetFlow and IPFIX decoder: templates that exporters define, kept up *)
(* to a bound, and the records of data sets read with them.                *)
(*                                                                         *)
(* A field is "source" (an address that makes an endpoint known) or        *)
(* "other"; a field of a record is one value, 0 when its first byte is.    *)
(* A record is longer than one byte.                                       *)
(***************************************************************************)

NetFlowNew == [exporters |-> {}, collectors |-> {}, flow_endpoints |-> {}, templates |-> <<>>, template_order |-> <<>>]

HeaderLen(version) == CASE version = 5 -> 24 [] version = 9 -> 20 [] version = 10 -> 16

RecordLen5 == 48

TxEvent(c, what) == Transaction(c, what, "observed")

\* Mutant: a template that is known is not defined again.
StoreTemplateOnce(s, key, record) ==
    IF key \in DOMAIN s.templates THEN s
    ELSE LET evicts == Cardinality(DOMAIN s.templates) >= TemplateCap
             kept == IF evicts THEN Without(s.templates, {Head(s.template_order)}) ELSE s.templates
         IN  [s EXCEPT !.templates = Insert(kept, key, record),
                       !.template_order = Append(IF evicts THEN Tail(@) ELSE @, key)]

\* A template that is defined again keeps its place; a new one may push out the oldest.
StoreTemplate(s, key, record) ==
    LET evicts == key \notin DOMAIN s.templates /\ Cardinality(DOMAIN s.templates) >= TemplateCap /\ s.template_order # <<>>
        kept == IF evicts THEN Without(s.templates, {Head(s.template_order)}) ELSE s.templates
        order == IF evicts THEN Tail(s.template_order) ELSE s.template_order
    IN  [s EXCEPT !.templates = Insert(kept, key, record),
                  !.template_order = IF key \in DOMAIN s.templates THEN order ELSE Append(order, key)]

\* A version 9 template that does not fit ends its set; an IPFIX one is stored with the
\* fields that are there, and the id 0 is padding.  An options template has no fields.
TemplateStops(version, options, t) ==
    IF version = 9 THEN t.count > Len(t.fields) ELSE t.id = 0 \/ (options /\ t.fields = <<>>)

Templates(s, c, set) ==
    LET options == set.id = IF c.version = 9 THEN 1 ELSE 3
        Take(r, t) ==
            IF r.stop \/ TemplateStops(c.version, options, t) THEN [r EXCEPT !.stop = TRUE]
            ELSE Taking(StoreTemplate(r.state, <<c.src, c.domain, t.id>>,
                                      [is_options |-> options, fields |-> IF options THEN <<>> ELSE t.fields]),
                        r.out \o TxEvent(c, <<"template", t.id>>), FALSE)
    IN  FoldLeft(Take, Taking(s, <<>>, FALSE), set.templates)

\* The value of the last source field of a record.
SourceOf(fields, record) ==
    LET at == {n \in DOMAIN fields : fields[n] = "source"}
    IN  IF at = {} THEN Unknown ELSE record[CHOOSE n \in at : \A m \in at : m <= n]

FlowRecord(s, c, fields, record) ==
    LET source == SourceOf(fields, record)
        endpoint == <<c.src, source>>
        first == source # Unknown /\ endpoint \notin s.flow_endpoints
    IN  To([s EXCEPT !.flow_endpoints = IF first THEN @ \cup {endpoint} ELSE @],
           If(first, Asset(c, endpoint)) \o TxEvent(c, <<"flow_record", record>>))

\* The records of a data set one after the other; what is left over is dropped.  In an IPFIX
\* set a record that starts with a zero byte is taken for padding and ends the set.
DataSet(s, c, set) ==
    LET key == <<c.src, c.domain, set.id>>
        fields == s.templates[key].fields
        n == Len(fields)
        all == [i \in 1..(Len(set.values) \div n) |-> SubSeq(set.values, (i - 1) * n + 1, i * n)]
        pads == {i \in DOMAIN all : c.version = 10 /\ all[i][1] = 0}
        upto == IF pads = {} THEN Len(all) ELSE (CHOOSE i \in pads : \A j \in pads : i <= j) - 1
        Take(r, record) == LET q == FlowRecord(r.state, c, fields, record) IN To(q.state, r.out \o q.out)
    IN  IF key \notin DOMAIN s.templates \/ s.templates[key].is_options
        THEN To(s, Anomaly(c, "low") \o TxEvent(c, <<"skipped", set.id>>))
        ELSE IF n = 0 THEN To(s, <<>>)
        ELSE FoldLeft(Take, To(s, <<>>), SubSeq(all, 1, upto))

TemplateSets(version) == IF version = 9 THEN {0, 1} ELSE {2, 3}

\* A set whose length is below a header's or beyond the datagram is the last one read.
Sets(s, c) ==
    LET Take(r, set) ==
            LET q == IF set.id \in TemplateSets(c.version) THEN Templates(r.state, c, set)
                     ELSE IF set.id >= 256 THEN DataSet(r.state, c, set)
                     ELSE To(r.state, <<>>)
            IN  IF r.stop \/ ~set.fits THEN [r EXCEPT !.stop = TRUE]
                ELSE Taking(q.state, r.out \o q.out, FALSE)
        r == FoldLeft(Take, Taking(s, <<>>, FALSE), c.sets)
    IN  To(r.state, r.out)

EmitAssets(s, c) ==
    To([s EXCEPT !.exporters = @ \cup {c.src}, !.collectors = @ \cup {c.dst}],
       If(c.src \notin s.exporters, Asset(c, <<"exporter", c.src>>))
       \o If(c.dst \notin s.collectors, Asset(c, <<"collector", c.dst>>)))

\* The datagram is told behind its sets, and a wrong length is no reason not to read them.
OnDatagram(s, c) ==
    LET mismatch == c.len # IF c.version = 5 THEN HeaderLen(5) + c.count * RecordLen5 ELSE c.total_length
        r == IF c.version = 5 THEN To(s, <<>>) ELSE Sets(s, c)
        assets == EmitAssets(r.state, c)
    IN  {IF c.len < 2 THEN To(s, Anomaly(c, "medium"))
         ELSE IF c.version \notin {5, 9, 10} THEN To(s, Anomaly(c, "low") \o TxEvent(c, <<"unknown", c.version>>))
         ELSE IF c.len < HeaderLen(c.version) THEN To(s, Anomaly(c, "medium"))
         ELSE To(assets.state,
                 If(c.version # 9 /\ mismatch, Anomaly(c, "medium")) \o r.out
                 \o TxEvent(c, <<"export", c.version>>) \o assets.out)}

OnIdleFlush(s) ==
    {To([s EXCEPT !.templates = <<>>, !.template_order = <<>>, !.flow_endpoints = {}], <<>>)}

-----------------------------------------------------------------------------
(***************************************************************************)
(* The C37.118 decoder: the latest configuration frame of a source and     *)
(* stream tells the layout of its data frames; without one they are not    *)
(* read.                                                                   *)
(***************************************************************************)

SynchrophasorNew == [configs |-> <<>>]

\* FrameType::from_byte; the codes 6 and 7 have no type.
Data == 0

Configs == {2, 3, 5}

Typed == 0..5

LooksLike(c) == c.len >= 14 /\ c.sync /\ c.type \in Typed

\* timestamp_us: a zero time base leaves the fraction out.
TimestampUs(c, time_base) ==
    c.soc * 1000000 + (IF time_base = 0 THEN 0 ELSE (c.fracsec * 1000000) \div time_base)

\* The bytes a PMU takes in a data frame, by its format flags.
PmuSize(p) ==
    2 + p.phasors * (IF p.phasor_is_float THEN 8 ELSE 4) + 2 * (IF p.freq_is_float THEN 4 ELSE 2)
      + p.analogs * (IF p.analog_is_float THEN 4 ELSE 2) + 2 * p.digitals

ParseDataFrame(c, pmus) == c.len - 14 >= FoldLeft(LAMBDA a, p : a + PmuSize(p), 0, pmus)

\* Two readings per phasor, the frequency and its rate, then analogs and digital words, the
\* channels counted through.
EmitPmuReadings(c, p, ts) ==
    LET kinds == FlattenSeq([i \in 1..p.phasors |-> <<<<"magnitude", i>>, <<"angle", i>>>>])
                 \o <<<<"freq", 0>>, <<"dfreq", 0>>>>
                 \o [i \in 1..p.analogs |-> <<"analog", i>>]
                 \o [i \in 1..p.digitals |-> <<"digital", i>>]
    IN  [n \in DOMAIN kinds |->
            Event("process_reading", c, [pmu |-> p.idcode, channel |-> n - 1, kind |-> kinds[n], source_ts |-> ts])]

HandleFrame(s, c) ==
    LET key == <<c.src, c.idcode>>
        cfg == s.configs[key]
    IN  IF c.type \in Configs /\ ~c.cut
        THEN To([s EXCEPT !.configs = Insert(@, key, [time_base |-> c.time_base, pmus |-> c.pmus])], <<>>)
        ELSE IF c.type = Data /\ key \in DOMAIN s.configs
        THEN To(s, If(ParseDataFrame(c, cfg.pmus),
                      FlattenSeq([n \in DOMAIN cfg.pmus |->
                                    EmitPmuReadings(c, cfg.pmus[n], TimestampUs(c, cfg.time_base))])))
        ELSE To(s, <<>>)

Handle(s, c) == {IF LooksLike(c) THEN HandleFrame(s, c) ELSE To(s, <<>>)}

-----------------------------------------------------------------------------
(***************************************************************************)
(* The OPC UA decoder: one transaction per chunk.  The nodes of a read     *)
(* request wait under its channel and request id, and name by position the *)
(* values of the response that takes them out.                             *)
(***************************************************************************)

OpcUaNew == [pending |-> <<>>]

Ports == {4840, 12001}

MessageTypes == {"HEL", "ACK", "OPN", "CLO", "MSG", "ERR", "RHE"}

CanParse(c) == {c.sport, c.dport} \cap Ports # {} /\ c.len >= 8 /\ c.type \in MessageTypes

\* The dissector's request id, the wrapper's channel, sequence number and status code.
RequestId(c) == IF c.type = "MSG" /\ c.len >= 24 THEN c.request_id ELSE 0

Header(c) ==
    [type |-> c.type,
     channel |-> IF c.type \in {"MSG", "OPN", "CLO"} /\ c.len >= 12 THEN c.channel ELSE Unknown,
     request |-> RequestId(c),
     sequence |-> IF c.type = "MSG" /\ c.len >= 20 THEN c.sequence ELSE Unknown,
     code |-> IF c.type = "ERR" /\ c.len >= 12 THEN c.code ELSE Unknown]

\* A full table loses an entry of the least time, any of them, unless the key is there.
Evictions(t, key) ==
    IF Cardinality(DOMAIN t) < ReadsCap \/ key \in DOMAIN t THEN {t}
    ELSE {Without(t, {k}) : k \in {k \in DOMAIN t : \A j \in DOMAIN t : t[k].inserted <= t[j].inserted}}

ReadRequest(s, c) ==
    LET key == <<c.channel, c.request_id>>
    IN  IF c.cut THEN {To(s, <<>>)}
        ELSE {To([s EXCEPT !.pending = Insert(t, key, [nodes |-> c.nodes, inserted |-> c.ts])], <<>>) :
                t \in Evictions(s.pending, key)}

\* read_scalar does not consume a value of an aggregate type: what follows one is read from
\* inside it, as other values, or the whole response as malformed.
Misread == "misread"

Results(c) ==
    LET lost(n) == \E m \in 1..(n - 1) : c.values[m] = "aggregate"
        read == [n \in DOMAIN c.values |-> IF lost(n) THEN Misread ELSE c.values[n]]
    IN  (IF c.cut THEN {} ELSE {read}) \cup (IF c.cut \/ \E n \in DOMAIN c.values : lost(n) THEN {<<"malformed">>} ELSE {})

\* A value without a node gets its position for a name.
ReadResponse(s, c) ==
    LET key == <<c.channel, c.request_id>>
        nodes == IF key \in DOMAIN s.pending THEN s.pending[key].nodes ELSE <<>>
        Name(i) == IF i \in DOMAIN nodes THEN nodes[i] ELSE <<"position", i - 1>>
    IN  {IF v = <<"malformed">> THEN To(s, <<>>)
         ELSE To([s EXCEPT !.pending = Without(@, {key})],
                 [i \in DOMAIN v |-> Event("process_reading", c, <<Name(i), v[i]>>)]) : v \in Results(c)}

HandleMsgBody(s, c) ==
    CASE c.service = "read_request" -> ReadRequest(s, c)
      [] c.service = "read_response" -> ReadResponse(s, c)
      [] OTHER -> {To(s, <<>>)}

Status(c) == IF c.type = "ERR" THEN "error" ELSE IF c.dport \in Ports THEN "request" ELSE "response"

OpcUaOnStreamChunk(s, c) ==
    IF ~CanParse(c) THEN {To(s, <<>>)}
    ELSE {To(r.state, Transaction(c, Header(c), Status(c)) \o r.out) :
            r \in IF c.type = "MSG" /\ c.len >= 24 THEN HandleMsgBody(s, c) ELSE {To(s, <<>>)}}

-----------------------------------------------------------------------------
(***************************************************************************)
(* The PCCC decoder inside the EtherNet/IP one: a typed read waits under   *)
(* the address handed in by the caller and its transaction number; the     *)
(* response that takes it out gives one reading per element.               *)
(***************************************************************************)

PcccNew == [pending |-> <<>>]

ProtectedTypedLogical == 15

ProtectedTypedRead == 104

\* element_width: integers and bits, floats, timers and counters; 0 for any other file.
ElementWidth(file_type) ==
    CASE file_type \in {133, 137} -> 2
      [] file_type = 138 -> 4
      [] file_type \in {134, 135} -> 6
      [] OTHER -> 0

Quantity(p) == LET w == ElementWidth(p.file_type) IN IF w = 0 \/ p.byte_size < w THEN 1 ELSE p.byte_size \div w

\* A write, another function and an address that is cut short leave no trace.
HandleRequest(s, p, client) ==
    IF p.function = ProtectedTypedRead /\ p.complete
    THEN [s EXCEPT !.pending = Insert(@, <<client, p.tns>>,
                                      [quantity |-> Quantity(p), file_type |-> p.file_type, element |-> p.element])]
    ELSE s

\* decode_value has no value for timers and counters, and stops where the bytes end.
Decoded(r, p) ==
    IF r.file_type \in {133, 137, 138}
    THEN LET there == p.body_len \div ElementWidth(r.file_type) IN IF there < r.quantity THEN there ELSE r.quantity
    ELSE 0

HandleResponse(s, c, p, client) ==
    LET key == <<client, p.tns>>
        r == s.pending[key]
    IN  IF key \notin DOMAIN s.pending THEN To(s, <<>>)
        ELSE To([s EXCEPT !.pending = Without(@, {key})],
                IF p.sts # 0 THEN <<>>
                ELSE [n \in 1..Decoded(r, p) |->
                        Event("process_reading", c, <<r.file_type, (r.element + n - 1) % 65536>>)])

HandlePdu(s, c, p, is_request, client) ==
    IF ~p.framed THEN To(s, <<>>)
    ELSE IF ~is_request THEN HandleResponse(s, c, p, client)
    ELSE IF p.cmd = ProtectedTypedLogical THEN To(HandleRequest(s, p, client), <<>>)
    ELSE To(s, <<>>)

-----------------------------------------------------------------------------
(***************************************************************************)
(* The EtherNet/IP decoder: one transaction per chunk, an asset for every  *)
(* identity it claims, the PCCC readings of its message, and the payload   *)
(* as an artifact.  A chunk's "items" are the common packet format's, or   *)
(* the identities of a list; "path" holds the segments of a request path.  *)
(***************************************************************************)

EthernetIpNew == PcccNew

EncapHeaderSize == 24

CommandName(c) == IF c.command \in {1, 4, 99, 100, 101, 102, 111, 112} THEN c.command ELSE Unknown

ListIdentity == 99

\* SendRRData and SendUnitData
Sends == {111, 112}

IsRequest(c) == c.dport = 44818

NoMessage == [len |-> 0]

\* cip_explicit_message: the first item of connected or unconnected data, unless an item
\* before it, or it, runs past the end.
ExplicitMessage(c) ==
    LET at(n) == c.items[n].type \in {177, 178} \/ c.items[n].cut
        first == {n \in DOMAIN c.items : at(n) /\ \A m \in 1..(n - 1) : ~at(m)}
    IN  IF c.cip_len < 8 \/ first = {} \/ \E n \in first : c.items[n].cut THEN NoMessage
        ELSE c.items[CHOOSE n \in first : TRUE].message

\* parse_enip_list_identity: the items up to one that is cut short.
ListedIdentities(c) ==
    LET whole == {n \in DOMAIN c.items : \A m \in 1..n : ~c.items[m].cut}
    IN  IF c.cip_len < 2 THEN <<>>
        ELSE SelectSeq(SubSeq(c.items, 1, Cardinality(whole)),
                       LAMBDA i : i.type = 12 /\ i.item_len >= 34 /\ i.name_fits)

\* parse_cip_identity_response: the successful reply to get-attributes-all.
IdentityResponse(c) ==
    LET m == ExplicitMessage(c)
    IN  m.len >= 4 /\ m.service = 129 /\ m.status = 0 /\ m.header_fits /\ m.name_fits

\* The key of each asset: the address the identity names, or the sender's.
IdentityClaims(c) ==
    CASE c.command = ListIdentity -> [n \in DOMAIN ListedIdentities(c) |-> ListedIdentities(c)[n].ip]
      [] c.command \in Sends -> If(IdentityResponse(c), <<c.src>>)
      [] OTHER -> <<>>

\* parse_cip_path: of the segments before one that is cut, unknown or of a bad format, the
\* last class, instance and attribute; a data segment is skipped.
Path(m) ==
    LET walked == {n \in DOMAIN m.path : \A k \in 1..n : m.path[k].kind # "stop"}
        Latest(kind) == LET S == {n \in walked : m.path[n].kind = kind}
                      IN  IF S = {} THEN Unknown ELSE m.path[CHOOSE n \in S : \A k \in S : k <= n].value
    IN  [class |-> Latest("class"), instance |-> Latest("instance"), attribute |-> Latest("attribute")]

\* build_eip_bronze_fields: the path of a request, the status of a reply, by the direction of
\* the chunk and by the service's own reply bit in turn.
Fields(c) ==
    LET m == ExplicitMessage(c)
    IN  [service |-> IF m.len = 0 THEN Unknown ELSE m.service % 128,
         path |-> IF m.len > 1 /\ IsRequest(c) THEN Path(m) ELSE Path([path |-> <<>>]),
         status |-> IF m.len >= 4 /\ m.service >= 128 THEN m.status ELSE Unknown]

\* extract_pccc_pdu: execute-PCCC, request or reply, whose header fits.
ExtractPccc(m) == m.len > 0 /\ m.service % 128 = 75 /\ m.header_fits

\* The caller hands PCCC the sender of the chunk, of a reply as well.
Sent(s, c) ==
    LET m == ExplicitMessage(c)
        r == IF ExtractPccc(m) THEN HandlePdu(s, c, m.pccc, m.service < 128, c.src) ELSE To(s, <<>>)
    IN  To(r.state, r.out \o Artifact(c, "cip_payload"))

EthernetIpOnStreamChunk(s, c) ==
    LET r == IF c.command \in Sends /\ c.cip_len > 0 THEN Sent(s, c) ELSE To(s, <<>>)
    IN  {IF c.len < EncapHeaderSize THEN To(s, Anomaly(c, "medium"))
         ELSE To(r.state,
                 Transaction(c, <<CommandName(c), Fields(c)>>, IF IsRequest(c) THEN "request" ELSE "response")
                 \o FlattenSeq([n \in DOMAIN IdentityClaims(c) |-> Asset(c, IdentityClaims(c)[n])])
                 \o r.out)}

=============================================================================
