------------------------------ MODULE OtSessions ------------------------------
(*****************************************************************************)
(* The OT decoders that keep a record per session, station or stream:        *)
(* BACnet/SC, OPC UA PubSub, CIP Safety, FF HSE, OSI PI, Vnet/IP, AVTP,      *)
(* SERCOS, EtherNet/IP I/O and PTP.                                          *)
(*****************************************************************************)
EXTENDS Decoding

CONSTANTS ReportEvery,   \* MEDIA_PERIODIC_INTERVAL
          SeqModulus     \* 2^32

-----------------------------------------------------------------------------
(***************************************************************************)
(* The BACnet/SC decoder: a BVLC-SC header per chunk, or TLS, of which     *)
(* only the first chunk is told.                                           *)
(***************************************************************************)

BacnetScNew == [tls_session_emitted |-> FALSE]

TlsRecords == 20..23

MaxKnown == 12

VmacLen == 6

\* bvlc_operation_name
Operation(function) == IF function <= MaxKnown THEN function ELSE Unknown

\* dst_asset_key: an unspecified address is replaced by the hardware address.
DstAssetKey(c) == IF c.dst = "0.0.0.0" THEN c.dst_mac ELSE c.dst

Tls(s, c) ==
    To([s EXCEPT !.tls_session_emitted = TRUE],
       If(~s.tls_session_emitted,
          Transaction(c, "bacnet_sc_tls_session", "observed") \o Asset(c, DstAssetKey(c))))

\* The control flags say which of the two addresses follow; the originator's makes a node known.
Header(c) ==
    LET vmacs == (IF c.has_orig THEN VmacLen ELSE 0) + (IF c.has_dst THEN VmacLen ELSE 0)
    IN  IF c.len < 4 \/ c.len < 4 + vmacs THEN Anomaly(c, "low")
        ELSE If(c.first > MaxKnown, Anomaly(c, "low"))
             \o Transaction(c, Operation(c.first), "observed")
             \o If(c.has_orig, Asset(c, c.orig_vmac))

BacnetScOnStreamChunk(s, c) ==
    {IF c.len = 0 THEN To(s, <<>>) ELSE IF c.first \in TlsRecords THEN Tls(s, c) ELSE To(s, Header(c))}

-----------------------------------------------------------------------------
(***************************************************************************)
(* The OPC UA PubSub decoder: the network message header and the dataset   *)
(* messages behind it, one for each writer id.                             *)
(*                                                                         *)
(* The dataset messages are a sequence of units, the header of a message   *)
(* one and each of its fields one.  A unit tells what reading a header at  *)
(* it gives ("encoding", "type", "count", "cut") and whether a field can   *)
(* be read at it ("field").                                                *)
(***************************************************************************)

PubSubNew == [seen_publishers |-> {}, seen_assets |-> {}]

\* parse_network_message: the bytes of the parts that the flags enable.
HeaderLen(c) ==
    LET pid == CASE c.pid = "byte" -> 1 [] c.pid = "uint16" -> 2 [] c.pid = "uint32" -> 4 [] c.pid = "uint64" -> 8
                 [] c.pid = "string" -> 4 + c.pid_len [] OTHER -> 0
    IN  1 + (IF c.extended1 THEN 1 ELSE 0) + (IF c.extended2 THEN 1 ELSE 0) + pid
        + (IF c.class_id THEN 16 ELSE 0)
        + (IF c.group_header THEN 1 + c.group_fields ELSE 0)
        + (IF c.payload_header THEN 1 + 2 * Len(c.writers) ELSE 0)

KeepAlive == 3

\* dsm_operation: an unknown type has the name of a key frame.
DsmOperation(type) == IF type \in 1..KeepAlive THEN type ELSE 0

EmitDsm(c, writer, unit, count) == Transaction(c, <<"dsm", writer, DsmOperation(unit.type), count>>, "observed")

Reading(c, point) == <<Event("process_reading", c, point)>>

\* The fields that can be read from unit "n" on, at most "count".
Readable(c, n, count) ==
    LET F == {k \in 0..count : n + k - 1 <= Len(c.units) /\ \A i \in n..(n + k - 1) : c.units[i].field # "bad"}
    IN  CHOOSE k \in F : \A l \in F : l <= k

\* decode_dsm: one message from unit "n" on, with the unit the next one is read from.  Only a
\* message read to its end leaves the cursor at the next one: raw data, whose fields cannot be
\* told apart, is left where its header ended, and a bad field inside it.
DecodeDsm(c, writer, n) ==
    LET h == c.units[n]
        count == IF h.encoding \in {"variant", "data_value"} THEN Readable(c, n + 1, h.count) ELSE 0
        readings == FlattenSeq([i \in 1..count |-> Reading(c, c.units[n + i].field)])
    IN  CASE h.cut -> [next |-> n + 1, out |-> Anomaly(c, "low")]
          [] ~h.cut /\ h.encoding = "raw_data" ->
                [next |-> n + 1, out |-> Anomaly(c, "low") \o EmitDsm(c, writer, h, 0)]
          [] ~h.cut /\ h.encoding # "raw_data" /\ h.type = KeepAlive ->
                [next |-> n + 1, out |-> EmitDsm(c, writer, h, 0)]
          [] OTHER ->
                [next |-> n + 1 + count,
                 out |-> If(count < h.count, Anomaly(c, "low")) \o EmitDsm(c, writer, h, count) \o readings]

\* One message per writer id while there are bytes; a single one without a payload header.
DecodeDsms(c) ==
    LET Take(r, writer) ==
            LET q == DecodeDsm(c, writer, r.next)
            IN  IF r.next > Len(c.units) THEN r ELSE [next |-> q.next, out |-> r.out \o q.out]
    IN  FoldLeft(Take, [next |-> 1, out |-> <<>>], IF c.writers = <<>> THEN <<0>> ELSE c.writers).out

Named(c) == c.pid \in {"byte", "uint16", "uint32", "uint64", "string"}

PubSubOnDatagram(s, c) ==
    {IF c.len < HeaderLen(c) THEN To(s, Anomaly(c, "low"))
     ELSE To(IF Named(c) THEN [seen_publishers |-> s.seen_publishers \cup {c.publisher},
                               seen_assets |-> s.seen_assets \cup {c.publisher}] ELSE s,
             Transaction(c, <<"publish">>, "observed")
             \o If(c.ua_version # 1, Anomaly(c, "medium"))
             \o If(Named(c) /\ c.publisher \notin s.seen_publishers,
                   <<Event("topology_observation", c, c.publisher)>>)
             \o If(Named(c) /\ c.publisher \notin s.seen_assets, Asset(c, c.publisher))
             \o DecodeDsms(c))}

-----------------------------------------------------------------------------
(***************************************************************************)
(* The CIP Safety decoder: a forward-open whose connection path holds the  *)
(* network safety segment is told, its target once.  A path is a sequence  *)
(* of bytes, each with its value.                                          *)
(***************************************************************************)

CipSafetyNew == [seen_safety_devices |-> {}]

ForwardOpen == 84

LargeForwardOpen == 91

SafetySegment == 80

\* The length of the segment that starts at byte i, rounded up where the code pads it; 0 where
\* the walk ends: a reserved class, a bad format, or no second byte to tell the length.
Advance(path, i) ==
    LET class == path[i] \div 32
        format == path[i] % 4
        sized == i < Len(path)
        even(n) == n + (n % 2)
    IN  CASE class = 1 /\ format < 3 -> <<2, 3, 5>>[format + 1]
          [] class \in {0, 3} /\ sized -> even(2 + path[i + 1])
          [] class \in {2, 4, 5} /\ sized -> 2 + path[i + 1] * 2
          [] OTHER -> 0

HasSafety(path) ==
    LET From[i \in 1..(Len(path) + 1)] ==
            /\ i <= Len(path)
            /\ \/ path[i] = SafetySegment
               \/ /\ Advance(path, i) > 0
                  /\ i + Advance(path, i) <= Len(path)
                  /\ From[i + Advance(path, i)]
    IN  From[1]

\* The first data item, of those before one that is cut short.
Message(c) ==
    LET at(n) == c.items[n].type \in {177, 178} \/ c.items[n].cut
        first == {n \in DOMAIN c.items : at(n) /\ \A m \in 1..(n - 1) : ~at(m)}
    IN  IF c.cip_len < 8 \/ first = {} \/ \E n \in first : c.items[n].cut THEN [len |-> 0]
        ELSE c.items[CHOOSE n \in first : TRUE].message

Opens(c) ==
    /\ c.len >= 24 /\ c.command \in {111, 112} /\ c.cip_complete
    /\ Message(c).len > 1 /\ Message(c).service \in {ForwardOpen, LargeForwardOpen}

CipSafetyOnStreamChunk(s, c) ==
    LET m == Message(c)
    IN  {IF ~Opens(c) THEN To(s, <<>>)
         ELSE IF ~m.fixed_fits \/ ~m.path_fits THEN To(s, Anomaly(c, "low"))
         ELSE IF ~HasSafety(m.connection_path) THEN To(s, <<>>)
         ELSE To([s EXCEPT !.seen_safety_devices = @ \cup {c.dst}],
                 Transaction(c, m.service, "observed") \o If(c.dst \notin s.seen_safety_devices, Asset(c, c.dst)))}

-----------------------------------------------------------------------------
(***************************************************************************)
(* The Foundation Fieldbus HSE decoder: an asset once per node and port,   *)
(* a transaction once per session, whatever the payload.                   *)
(***************************************************************************)

FfHseNew == [seen_sessions |-> {}, seen_assets |-> {}]

FfHsePorts == {1089, 1090, 1091}

\* hse_server: the side of the known port, the destination's first.
HseServer(c) == IF c.dport \in FfHsePorts THEN <<c.dst, c.dport>> ELSE <<c.src, c.sport>>

OperationForPort(port) == IF port \in FfHsePorts THEN port ELSE Unknown

\* The header bytes that are there, and the magic, are attributes of the one transaction.
Seen(c) == [version |-> c.len > 0, message_type |-> c.len > 1, declared_length |-> c.len >= 4, magic |-> c.magic]

Handle(s, c) ==
    LET server == HseServer(c)
    IN  {To([s EXCEPT !.seen_assets = @ \cup {server}, !.seen_sessions = @ \cup {c.session}],
            If(server \notin s.seen_assets, Asset(c, server))
            \o If(c.session \notin s.seen_sessions, Transaction(c, <<OperationForPort(server[2]), Seen(c)>>, "observed")))}

-----------------------------------------------------------------------------
(***************************************************************************)
(* The OSIsoft PI decoder: an asset once per server and port, and once per *)
(* session a transaction, for the first payload that shows a magic string. *)
(***************************************************************************)

OsiPiNew == [seen_sessions |-> {}, seen_assets |-> {}]

OsiPiPorts == {5450, 5460, 5461, 5462}

PiServer(c) == IF c.dport \in OsiPiPorts THEN <<c.dst, c.dport>> ELSE <<c.src, c.sport>>

ConnectorKind(port) == IF port = 5450 THEN "pi_net_manager" ELSE "pi_connector"

\* The session is marked only by a payload with a magic string.
OsiPiOnStreamChunk(s, c) ==
    LET server == PiServer(c)
        told == c.magic /\ c.session \notin s.seen_sessions
    IN  {To([s EXCEPT !.seen_assets = @ \cup {server},
                      !.seen_sessions = IF told THEN @ \cup {c.session} ELSE @],
            If(server \notin s.seen_assets, Asset(c, server))
            \o If(told, Transaction(c, <<ConnectorKind(server[2]), c.version>>, "observed")))}

-----------------------------------------------------------------------------
(***************************************************************************)
(* The Vnet/IP decoder: one transaction per datagram, its sender's address *)
(* on the control network as an asset once.                                *)
(***************************************************************************)

VnetIpNew == [observed_assets |-> {}]

VnetHeaderMin == 24

VnetOperation(c) == IF c.function \in {1, 2, 3, 4, 16, 32} THEN c.function ELSE Unknown

VnetIpOnDatagram(s, c) ==
    LET key == <<c.src, c.vnet_addr>>
    IN  {IF c.len < VnetHeaderMin THEN To(s, Anomaly(c, "medium"))
         ELSE To([s EXCEPT !.observed_assets = @ \cup {key}],
                 If(VnetOperation(c) = Unknown, Anomaly(c, "low"))
                 \o Transaction(c, VnetOperation(c), "observed")
                 \o If(key \notin s.observed_assets, Asset(c, key)))}

-----------------------------------------------------------------------------
(***************************************************************************)
(* The AVTP decoder: media frames are counted per session and stream, of   *)
(* which the first and every n-th is told; control frames are all told.    *)
(***************************************************************************)

AvtpNew == [streams |-> <<>>]

Media == {0} \cup 2..8

Adp == 122

Control == 110..113 \cup {Adp, 123, 124, 126}

HandleMedia(s, c) ==
    LET key == <<c.session, c.stream_id>>
        count == Lookup(s.streams, key, 0) + 1
    IN  To([s EXCEPT !.streams = Insert(@, key, count)],
           CASE count = 1 -> Transaction(c, <<"stream_open", c.stream_id>>, "observed")
             [] count # 1 /\ count % ReportEvery = 0 -> Transaction(c, <<"stream_periodic", c.stream_id>>, "observed")
             [] OTHER -> <<>>)

\* A field the frame is too short for reads as zero: an empty announcement is "available".
AdpMessage(c) == IF c.len > 16 THEN c.message_type ELSE 0

HandleAdp(c) ==
    Transaction(c, <<"adp", IF AdpMessage(c) \in 0..2 THEN AdpMessage(c) ELSE Unknown>>, "observed")
    \o If(AdpMessage(c) = 0, Asset(c, c.entity_id))

HandleControl(c) == IF c.subtype = Adp THEN HandleAdp(c) ELSE Transaction(c, <<"control", c.subtype>>, "observed")

HandleUnknown(c) == Transaction(c, <<"unknown", c.subtype>>, "observed") \o Anomaly(c, "low")

AvtpOnDatagram(s, c) ==
    {IF c.len < 12 THEN To(s, Anomaly(c, "medium"))
     ELSE IF c.subtype \in Media THEN HandleMedia(s, c)
     ELSE To(s, IF c.subtype \in Control THEN HandleControl(c) ELSE HandleUnknown(c))}

-----------------------------------------------------------------------------
(***************************************************************************)
(* The SERCOS III decoder: telegrams are counted per session and type, of  *)
(* which the first and every n-th is told, and so is the loss of sync.     *)
(***************************************************************************)

NewSession == [by_type |-> <<>>, in_sync |-> FALSE, master_observed |-> FALSE, slaves |-> {}]

SercosNew == [sessions |-> <<>>]

Mst == 0

At == 2

HotPlug == 4

\* The code keeps the sync flag of the last telegram; before the first there is none to lose.
SyncLost(sess, c) == sess.in_sync /\ ~c.sync_flag

\* A telegram of a reserved type is counted and told as well.
Sampled(c, count) ==
    CASE count = 1 -> Transaction(c, <<"first", c.type>>, "observed")
      [] count # 1 /\ count % ReportEvery = 0 -> Transaction(c, <<"periodic", c.type>>, "observed")
      [] OTHER -> <<>>

SercosOnDatagram(s, c) ==
    LET sess == Lookup(s.sessions, c.session, NewSession)
        count == Lookup(sess.by_type, c.type, 0) + 1
        master == c.type = Mst /\ ~sess.master_observed
        slave == c.type = At /\ c.src \notin sess.slaves
        next == [by_type |-> Insert(sess.by_type, c.type, count),
                 in_sync |-> c.sync_flag,
                 master_observed |-> sess.master_observed \/ master,
                 slaves |-> IF slave THEN sess.slaves \cup {c.src} ELSE sess.slaves]
    IN  {IF c.len < 6 THEN To(s, Anomaly(c, "medium"))
         ELSE To([s EXCEPT !.sessions = Insert(@, c.session, next)],
                 If(c.type > HotPlug, Anomaly(c, "low"))
                 \o If(SyncLost(sess, c), Transaction(c, <<"sync_lost", c.type>>, "observed"))
                 \o Sampled(c, count)
                 \o If(master \/ slave, Asset(c, <<c.src, c.type>>)))}

-----------------------------------------------------------------------------
(***************************************************************************)
(* The decoder of EtherNet/IP cyclic I/O: per session and connection the   *)
(* last sequence number; the first and every n-th datagram are told, and   *)
(* at once any that does not follow the one before.                        *)
(***************************************************************************)

EipIoNew == [connections |-> <<>>]

\* parse_cpf: the items in order.  The sequenced address item says both, over what was said
\* before; the connected address and the connected data item say one each, if none has.
Said(c) ==
    LET Read(r, i) ==
            CASE i.type = "sequenced" -> [id |-> i.id, seq |-> i.seq]
              [] i.type = "address" -> [r EXCEPT !.id = IF @ = Unknown THEN i.id ELSE @]
              [] i.type = "data" -> [r EXCEPT !.seq = IF @ = Unknown THEN i.seq ELSE @]
              [] OTHER -> r
    IN  FoldLeft(Read, [id |-> Unknown, seq |-> Unknown], c.items)

ParseCpf(c) == c.fits /\ (\A n \in DOMAIN c.items : ~c.items[n].short) /\ Said(c).id # Unknown /\ Said(c).seq # Unknown

Opened(s, c, key) ==
    To([s EXCEPT !.connections = Insert(@, key, [seq_last |-> Said(c).seq, packet_count |-> 1])],
       Transaction(c, <<"open", Said(c).id>>, "observed") \o Asset(c, c.src) \o Asset(c, c.dst))

\* Mutant: the successor of the last number does not wrap round.
FollowedUnwrapped(s, c, key) ==
    LET old == s.connections[key]
        count == old.packet_count + 1
    IN  To([s EXCEPT !.connections = Insert(@, key, [seq_last |-> Said(c).seq, packet_count |-> count])],
           CASE Said(c).seq # old.seq_last + 1 ->
                    Transaction(c, <<"gap", Said(c).id>>, "observed") \o Anomaly(c, "low")
             [] Said(c).seq = old.seq_last + 1 /\ count % ReportEvery = 0 ->
                    Transaction(c, <<"periodic", Said(c).id>>, "observed")
             [] OTHER -> <<>>)

\* A gap hides the periodic report that was due.
Followed(s, c, key) ==
    LET old == s.connections[key]
        count == old.packet_count + 1
    IN  To([s EXCEPT !.connections = Insert(@, key, [seq_last |-> Said(c).seq, packet_count |-> count])],
           CASE Said(c).seq # (old.seq_last + 1) % SeqModulus ->
                    Transaction(c, <<"gap", Said(c).id>>, "observed") \o Anomaly(c, "low")
             [] Said(c).seq = (old.seq_last + 1) % SeqModulus /\ count % ReportEvery = 0 ->
                    Transaction(c, <<"periodic", Said(c).id>>, "observed")
             [] OTHER -> <<>>)

EipIoOnDatagram(s, c) ==
    LET key == <<c.session, Said(c).id>>
    IN  {IF ~ParseCpf(c) THEN To(s, Anomaly(c, "medium"))
         ELSE IF key \in DOMAIN s.connections THEN Followed(s, c, key)
         ELSE Opened(s, c, key)}

-----------------------------------------------------------------------------
(***************************************************************************)
(* The PTP decoder: every announcement is told, of the other messages of a *)
(* clock the first of each type and every n-th; a change of the            *)
(* grandmaster that a clock announces in a domain is an anomaly.           *)
(***************************************************************************)

PtpNew == [seen_clocks |-> {}, msg_counts |-> <<>>, first_seen |-> {}, domain_gm |-> <<>>]

Announce == 11

\* The first message of a clock is told as such, beside what its type makes of it.
ClockObserved == -2

\* is_known_type
Known == 0..3 \cup {8, 9, 10, 12, 13}

HandleAnnounce(s, c) ==
    LET dk == <<c.domain, c.clock>>
        key == <<c.clock, Announce>>
    IN  IF c.len < 64 THEN To(s, Anomaly(c, "medium"))
        ELSE To([s EXCEPT !.domain_gm = Insert(@, dk, c.gm), !.first_seen = @ \cup {key}],
                If(Lookup(s.domain_gm, dk, c.gm) # c.gm, Anomaly(c, "medium"))
                \o Transaction(c, <<Announce, c.clock>>, "observed")
                \o If(key \notin s.first_seen, Asset(c, <<c.clock, c.gm = c.clock>>)))

HandleSampled(s, c) ==
    LET key == <<c.clock, c.type>>
        count == Lookup(s.msg_counts, key, 0) + 1
    IN  To([s EXCEPT !.msg_counts = Insert(@, key, count), !.first_seen = @ \cup {key}],
           If(key \notin s.first_seen \/ count % ReportEvery = 0,
              If(c.type \notin Known, Anomaly(c, "low"))
              \o Transaction(c, <<IF c.type \in Known THEN c.type ELSE Unknown, c.clock>>, "observed")))

\* Mutant: the clock is marked before the length is looked at.
OnDatagramMarkingFirst(s, c) ==
    LET t == [s EXCEPT !.seen_clocks = @ \cup {c.clock}]
        r == IF c.type = Announce THEN HandleAnnounce(t, c) ELSE HandleSampled(t, c)
    IN  {IF c.len < 34 THEN To(t, Anomaly(c, "medium"))
         ELSE To(r.state,
                 If(c.version # 2, Anomaly(c, "low"))
                 \o If(c.message_length # c.len % 65536, Anomaly(c, "medium"))
                 \o If(c.clock \notin s.seen_clocks, Transaction(c, <<ClockObserved, c.clock>>, "observed"))
                 \o r.out)}

\* A wrong version or length is an anomaly, and the message is read all the same.
PtpOnDatagram(s, c) ==
    LET t == [s EXCEPT !.seen_clocks = @ \cup {c.clock}]
        r == IF c.type = Announce THEN HandleAnnounce(t, c) ELSE HandleSampled(t, c)
    IN  {IF c.len < 34 THEN To(s, Anomaly(c, "medium"))
         ELSE To(r.state,
                 If(c.version # 2, Anomaly(c, "low"))
                 \o If(c.message_length # c.len % 65536, Anomaly(c, "medium"))
                 \o If(c.clock \notin s.seen_clocks, Transaction(c, <<ClockObserved, c.clock>>, "observed"))
                 \o r.out)}

=============================================================================
