------------------------------- MODULE OtDevice -------------------------------
(*****************************************************************************)
(* The decoders of device-level OT protocols that keep nothing between       *)
(* calls: GVCP, OPC Classic, POWERLINK, TriStation, AB-CSP, EtherCAT,        *)
(* PROFINET, HART-IP, FINS, and the recognizers. Each is an operator from    *)
(* the frame, as far as it was captured, to the events pushed.               *)
(*****************************************************************************)
EXTENDS Decoding

-----------------------------------------------------------------------------
(***************************************************************************)
(* The GigE Vision control decoder: commands, acknowledgements, and the    *)
(* camera that a discovery acknowledgement describes. It keeps nothing     *)
(* between calls.                                                          *)
(***************************************************************************)

KeyCode == 66

GvcpHeaderLen == 8

\* The bytes of the discovery payload up to the end of the user's name.
DiscAckPayloadFull == 232

AckDiscovery == 3

Known == {2, 3, 4, 5, 64} \cup (128..135) \cup {144, 192}

GvcpOperationOf(code) == IF code \in Known THEN code ELSE Unknown

HandleCommand(c) ==
    If(c.code \notin Known, Anomaly(c, "low")) \o Told(c, GvcpOperationOf(c.code), "observed", <<>>)

EmitDiscoveryAsset(c) == Asset(c, c.src)

\* Mutant: the payload has to have the least length exactly.
HandleAckExact(c) ==
    Told(c, GvcpOperationOf(c.code), IF c.status = 0 THEN "ok" ELSE "failed", <<>>)
    \o If(c.code = AckDiscovery /\ c.len - GvcpHeaderLen = DiscAckPayloadFull, EmitDiscoveryAsset(c))

\* A shorter payload tells no camera.
HandleAck(c) ==
    If(c.code \notin Known, Anomaly(c, "low"))
    \o Told(c, GvcpOperationOf(c.code), IF c.status = 0 THEN "ok" ELSE "failed", <<>>)
    \o If(c.code = AckDiscovery /\ c.len - GvcpHeaderLen >= DiscAckPayloadFull, EmitDiscoveryAsset(c))

GvcpOnDatagram(c) ==
    IF c.len < GvcpHeaderLen THEN Anomaly(c, "medium")
    ELSE IF c.key = KeyCode THEN HandleCommand(c)
    ELSE HandleAck(c)

-----------------------------------------------------------------------------
(***************************************************************************)
(* The OPC Classic decoder: a bind or alter-context on the endpoint mapper *)
(* port that names OPC interfaces. It keeps nothing between calls.         *)
(***************************************************************************)

\* OPC_INTERFACES, each as its family; any other interface resolves to "none".
Families == <<"da", "hda", "ae">>

BindHeader == 28

\* parse_bind_opc: the context elements up to one whose abstract syntax is not all there.
Contexts(c) ==
    LET Need(x) == 24
        Size(x) == 24 + 20 * x.syntaxes
    IN  Within(c.contexts, Need, Size, c.len - BindHeader)

Hits(c) == SelectSeq(Contexts(c), LAMBDA x : x.family \in ToSet(Families))

FamiliesOf(c) == SelectSeq(Families, LAMBDA f : \E n \in DOMAIN Hits(c) : Hits(c)[n].family = f)

OpcClassicOnStreamChunk(c) ==
    IF c.len < 16 \/ c.version # 5 \/ c.ptype \notin {"bind", "alter_context"} THEN <<>>
    ELSE IF c.len < BindHeader THEN Anomaly(c, "low")
    ELSE If(Len(Contexts(c)) < Len(c.contexts), Anomaly(c, "low"))
         \o If(Hits(c) # <<>>, Told(c, c.ptype, "observed", FamiliesOf(c)) \o Asset(c, c.dst))

-----------------------------------------------------------------------------
(***************************************************************************)
(* The POWERLINK decoder: one transaction per frame, and an asset for an   *)
(* asynchronous identification. It keeps nothing between calls.            *)
(***************************************************************************)

Cyclic == {1, 3, 4, 5, 13, 14}

AsyncSend == 6

IdentResponse == 1

Sdo == 5

\* decode_asnd: a service that is missing or unknown is taken for an SDO.  The identity is
\* told however short it is.
DecodeAsnd(c) ==
    Told(c, <<AsyncSend, IF c.len > 3 /\ c.service \in 1..5 THEN c.service ELSE Sdo>>, "observed", <<>>)
    \o If(c.len > 3 /\ c.service = IdentResponse, Asset(c, c.smac))

ToldUnknown(c) == Told(c, <<Unknown, 0>>, "observed", <<>>) \o Anomaly(c, "low")

PowerlinkOnDatagram(c) ==
    IF c.len < 3 THEN Anomaly(c, "medium")
    ELSE IF c.type = AsyncSend THEN DecodeAsnd(c)
    ELSE IF c.type \in Cyclic THEN Told(c, <<c.type, 0>>, "observed", <<>>)
    ELSE ToldUnknown(c)

-----------------------------------------------------------------------------
(***************************************************************************)
(* The TriStation decoder: a transaction per datagram, an anomaly for a    *)
(* download of the control program and for an unknown function, an asset   *)
(* for either side of a connection.                                        *)
(***************************************************************************)

TriStationHeaderLen == 4

ConnectionRequest == 1

ConnectionResponse == 2

SetControlProgram == 112

FunctionCodes == {1, 2, 5, 20, 29, 109, 112, 134, 150}

TriStationOperationOf(code) == IF code \in FunctionCodes THEN code ELSE Unknown

\* Either side of a connection.
Peer(c) == If(c.code \in {ConnectionRequest, ConnectionResponse}, Asset(c, c.src))

TriStationOnDatagram(c) ==
    IF c.len < TriStationHeaderLen
    THEN Anomaly(c, "low")
    ELSE Told(c, TriStationOperationOf(c.code), "observed", <<>>)
         \o If(c.code = SetControlProgram, Anomaly(c, "high"))
         \o If(TriStationOperationOf(c.code) = Unknown, Anomaly(c, "low"))
         \o Peer(c)

-----------------------------------------------------------------------------
(***************************************************************************)
(* The Allen-Bradley CSP decoder: a transaction per chunk, and the         *)
(* destination as an asset when a registration carries status zero.        *)
(***************************************************************************)

CspHeaderLen == 28

RegisterSession == 1

Commands == {1, 2, 3, 7, 8, 161}

CommandOperation(code) == IF code \in Commands THEN code ELSE Unknown

Registered(c) == If(c.command = RegisterSession /\ c.status = 0, Asset(c, c.dst))

\* A wrong size or an unknown command is an anomaly, and the frame is told all the same.
AbCspOnStreamChunk(c) ==
    IF c.len < CspHeaderLen
    THEN Anomaly(c, "medium")
    ELSE If(c.packet_size # c.len, Anomaly(c, "medium"))
         \o If(c.command \notin Commands, Anomaly(c, "low"))
         \o Told(c, CommandOperation(c.command), IF c.status = 0 THEN "ok" ELSE "failed", <<>>)
         \o Registered(c)

-----------------------------------------------------------------------------
(***************************************************************************)
(* The EtherCAT decoder: a frame is read only when its datagrams fill it   *)
(* exactly, and is then told with the master and every slave its datagrams *)
(* address.                                                                *)
(* A frame that is shorter than its header says is tried once more as      *)
(* datagrams without a frame header, so that the low byte of the header's  *)
(* length is taken for a command.                                          *)
(***************************************************************************)

FrameHeaderLen == 2

Overhead == 12

LengthMask == 2048

IsSupportedCommand(code) == code \in 0..14

Framed(c) == c.length >= Overhead /\ FrameHeaderLen + c.length <= c.len

LooksLikeEthercat(c) ==
    IF Framed(c) THEN IsSupportedCommand(c.datagrams[1].command)
    ELSE c.len >= Overhead /\ IsSupportedCommand(c.length % 256)

\* parse_ethercat_payload: how many datagrams fill the frame's "length" bytes exactly, or 0.
Filled(c) ==
    LET At[n \in 0..Len(c.datagrams)] == IF n = 0 THEN 0 ELSE At[n - 1] + Overhead + c.datagrams[n].size
        exact == {n \in DOMAIN c.datagrams : At[n] = c.length
                                             /\ \A m \in 1..n : IsSupportedCommand(c.datagrams[m].command)}
    IN  IF exact = {} THEN 0 ELSE Min(exact)

\* An alias is read from its register; address zero names no slave.
SlaveAssetKey(d) ==
    IF d.ado = 4 /\ d.size >= 2 THEN d.alias ELSE IF d.adp # "0" THEN d.adp ELSE "none"

SlaveEvents(c, d) ==
    If(SlaveAssetKey(d) # "none",
       Asset(c, SlaveAssetKey(d)) \o Topology(c, "ethercat_master_slave", c.smac, SlaveAssetKey(d)))

EmitDatagrams(c, datagrams) ==
    LET Ref(d) == <<ToString(d.command), d.adp, ToString(d.ado)>>
        Slave(d) == SlaveEvents(c, d)
    IN  Told(c, IF Len(datagrams) = 1 THEN datagrams[1].command ELSE Unknown, "observed",
             ForEach(datagrams, Ref))
        \o Asset(c, c.smac)
        \o ForEach(datagrams, Slave)
        \o If(\E n \in DOMAIN datagrams : datagrams[n].size > 0, Artifact(c, "ethercat_payload"))

\* The datagram that a frame read from its header seems to hold, two bytes early: the register
\* stands where the length should, and the slave's address where the register should.
Shifted(c) ==
    [command |-> c.length % 256, adp |-> "shifted", ado |-> -1, size |-> c.datagrams[1].ado % LengthMask,
     alias |-> "none"]

EthercatOnDatagram(c) ==
    IF ~LooksLikeEthercat(c) THEN <<>>
    ELSE IF Framed(c)
    THEN IF Filled(c) = 0 THEN Anomaly(c, "medium") ELSE EmitDatagrams(c, SubSeq(c.datagrams, 1, Filled(c)))
    ELSE IF Overhead + Shifted(c).size = c.len THEN EmitDatagrams(c, <<Shifted(c)>>)
    ELSE Anomaly(c, "medium")

-----------------------------------------------------------------------------
(***************************************************************************)
(* The PROFINET decoder: one transaction per frame, named by the class of  *)
(* its frame identifier or by the discovery service it carries.            *)
(***************************************************************************)

ProfinetPort == 34964

MinFrameSize == 2

DcpHeaderSize == 10

\* classify_frame, as the ranges that have a name.
Classes ==
    << 32..127, 128..129, 256..32767, 32768..49151, 49152..64511, {64513}, 64514..64767, {65025}, {65026},
       {65027}, {65028}, {65276}, {65277}, {65278}, {65279}, 65280..65281 >>

ClassOf(id) == SelectInSeq(Classes, LAMBDA ids : id \in ids)

DcpFrames == 65276..65279

\* On its port any datagram is taken; on Ethernet only an identifier with a class.
ProfinetCanParse(c) == c.len >= MinFrameSize /\ (c.ip = "v4" \/ ClassOf(c.frame_id) # 0)

IsDcp(c) == c.frame_id \in DcpFrames /\ c.len >= MinFrameSize + DcpHeaderSize

ServiceType(c) == IF IsDcp(c) THEN <<c.service, c.service_type>> ELSE <<0, ClassOf(c.frame_id)>>

\* The names that speak of a request or a response.
RequestClasses == {10, 12, 14}

ResponseClasses == {11, 15}

Direction(c) ==
    LET named == ServiceType(c)
        response == IF IsDcp(c) THEN named[2] \in {1, 5} ELSE named[2] \in ResponseClasses
        request == IF IsDcp(c) THEN named[2] = 0 ELSE named[2] \in RequestClasses
    IN  IF response THEN "response" ELSE IF request \/ c.dport = ProfinetPort THEN "request" ELSE "observed"

ProfinetPayloadLen(c) ==
    IF IsDcp(c) THEN Min({c.dcp_length, c.len - MinFrameSize - DcpHeaderSize}) ELSE c.len - MinFrameSize

ProfinetOnDatagram(c) ==
    IF ~ProfinetCanParse(c) THEN <<>>
    ELSE Told(c, ServiceType(c), Direction(c), <<ToString(c.frame_id)>>)
         \o If(ProfinetPayloadLen(c) > 0, Artifact(c, "profinet_payload"))

-----------------------------------------------------------------------------
(***************************************************************************)
(* The HART-IP decoder: the first message of a datagram, or every whole    *)
(* message of a TCP chunk, is told with its topology; a field device is    *)
(* told from the identity in a pass-through message.                       *)
(***************************************************************************)

HartIpHeaderLen == 8

\* parse_hart_ip_frames: up to the first message that is not all there.
Messages(c) ==
    LET Size(f) == f.size
        there == Within(c.frames, Size, Size, c.len)
        bad == {n \in DOMAIN there : there[n].size < HartIpHeaderLen}
    IN  SubSeq(there, 1, IF bad = {} THEN Len(there) ELSE Min(bad) - 1)

Body(f) == f.size - HartIpHeaderLen

IsError(f) == f.type \in {3, 15}

IsPassThrough(f) == f.id = 3 /\ ~IsError(f)

IsSessionInitiate(f) == f.type \in 0..2 /\ f.id = 0 /\ Body(f) = 5

\* parse_pass_through_body: preambles, delimiter, a short or a long address, expansion bytes.  A
\* body that ends before its command is told as command 0.
CommandAt(f) == f.preambles + 1 + (IF f.long THEN 5 ELSE 1) + f.expansion

Command(f) == IF Body(f) > CommandAt(f) THEN f.command ELSE 0

\* The bytes of the command's data: behind the length and, in a response, up to two bytes of
\* status, and before the checksum.
HartIpPayloadLen(f) ==
    LET after == CommandAt(f) + 2
        start == IF f.response THEN Min({after + 2, Body(f)}) ELSE after
    IN  IF Body(f) > start THEN Body(f) - 1 - start ELSE 0

HasIdentity(f) ==
    /\ IsPassThrough(f)
    /\ Body(f) > CommandAt(f) + 1
    /\ \/ Command(f) \in {0, 11, 21} /\ HartIpPayloadLen(f) >= 3
       \/ Command(f) \in {20, 22} /\ HartIpPayloadLen(f) >= 32

\* A tag's identity names neither maker nor type.
HartIpObjectRefs(f) ==
    LET named == HasIdentity(f) /\ Command(f) \in {0, 11, 21}
    IN  If(IsPassThrough(f), <<ToString(Command(f))>>)
        \o If(named /\ HartIpPayloadLen(f) >= 19, <<f.maker>>)
        \o If(named, <<f.device_type>>)

NamedCommands == {0, 11, 20, 21, 22}

OperationName(f) ==
    IF IsPassThrough(f) THEN <<3, IF Command(f) \in NamedCommands THEN Command(f) ELSE Unknown>>
    ELSE <<IF f.id \in 0..3 THEN f.id ELSE Unknown, 0>>

HartIpStatus(f) ==
    CASE f.type = 0 -> "request"
      [] f.type = 1 -> "response"
      [] f.type = 2 -> "publish"
      [] IsError(f) -> "error"
      [] OTHER -> "observed"

DeviceAssetKey(c, f) == IF HartIpStatus(f) = "response" THEN ContextAssetKey(c) ELSE ContextRemoteAssetKey(c)

\* What follows the transaction.
HartIpObservations(c, f) ==
    If(HasIdentity(f), Asset(c, DeviceAssetKey(c, f)))
    \o If(IsSessionInitiate(f), Asset(c, ContextAssetKey(c)))
    \o Topology(c, "hart_ip_transaction", ContextAssetKey(c), ContextRemoteAssetKey(c))
    \o If(Body(f) > 0, Artifact(c, "hart_ip_payload"))

EmitFrame(c, f) == Told(c, OperationName(f), HartIpStatus(f), HartIpObjectRefs(f)) \o HartIpObservations(c, f)

\* A datagram or chunk whose first message is not all there is passed over.
HartIpOnDatagram(c) == IF Messages(c) = <<>> THEN <<>> ELSE EmitFrame(c, Messages(c)[1])

HartIpOnStreamChunk(c) ==
    LET Emit(f) == EmitFrame(c, f) IN ForEach(Messages(c), Emit)

-----------------------------------------------------------------------------
(***************************************************************************)
(* The OMRON FINS decoder: one transaction per datagram or chunk, bare or  *)
(* behind the TCP header, with the source and the destination when a FINS  *)
(* header is there.                                                        *)
(***************************************************************************)

OmronFinsPort == 9600

FinsHeaderLen == 10

FinsTcpHeaderLen == 16

\* A TCP frame starts with the magic word; a bare one is known by two bytes of its header.
OmronFinsCanParse(c) ==
    IF c.tcp_frame /\ c.len >= 4 THEN c.len >= FinsTcpHeaderLen
    ELSE c.len >= FinsHeaderLen /\ c.rsv = 0 /\ c.gateway_count <= 15

OmronFinsStatus(c) ==
    CASE c.dport = OmronFinsPort /\ c.sport # OmronFinsPort -> "request"
      [] c.sport = OmronFinsPort /\ c.dport # OmronFinsPort -> "response"
      [] OTHER -> "observed"

MemoryAreaCommands == 257..261

Named == MemoryAreaCommands \cup {513, 514, 769, 770, 1025, 1026, 1281, 1537, 1538, 1793}

\* parse_memory_area_arguments: of requests and responses alike.
OmronFinsObjectRefs(c, payload) ==
    If(c.command \in MemoryAreaCommands /\ payload >= 6, <<c.area, c.word, c.bit, c.count>>)

\* What follows the transaction.
OmronFinsObservations(c, ends, payload) ==
    If(ends, Asset(c, c.src) \o Asset(c, c.dst))
    \o Topology(c, "omron_fins_transaction", c.src, c.dst)
    \o If(payload > 0, Artifact(c, "omron_fins_payload"))

EmitFields(c, operation, refs, ends, payload) ==
    Told(c, operation, OmronFinsStatus(c), refs) \o OmronFinsObservations(c, ends, payload)

\* build_fields, for a frame of "room" bytes that holds at least a command.
EmitCommand(c, room) ==
    LET payload == room - FinsHeaderLen - 2
    IN  EmitFields(c, IF c.command \in Named THEN c.command ELSE Unknown,
                   OmronFinsObjectRefs(c, payload), TRUE, payload)

IsCommand(room) == room >= FinsHeaderLen + 2

\* parse_fins_tcp: a frame without a command (the node address exchange) is told without ends.
ParseFinsTcp(c) ==
    LET room == c.body_len - 8
    IN  IF c.body_len < 8 \/ 8 + c.body_len > c.len THEN Anomaly(c, "medium")
        ELSE IF IsCommand(room) THEN EmitCommand(c, room)
        ELSE EmitFields(c, 0, <<>>, FALSE, room)

Handle(c) ==
    IF ~OmronFinsCanParse(c) THEN <<>>
    ELSE IF c.tcp_frame THEN ParseFinsTcp(c)
    ELSE IF IsCommand(c.len) THEN EmitCommand(c, c.len)
    ELSE Anomaly(c, "medium")

-----------------------------------------------------------------------------
(***************************************************************************)
(* The recognizers of SMB, CODESYS, IO-Link Wireless and CC-Link IE: one   *)
(* transaction, and no look at the message beyond a signature.             *)
(***************************************************************************)

EmitRecognition(c, operation) == Told(c, operation, "ok", <<>>)

\* The signature is looked for behind the length prefix, then at the start.  The second version of
\* SMB has a decoder of its own.
Signature(c, offset) == IF offset + 4 <= c.len /\ c.smb.at = offset THEN c.smb.version ELSE 0

OnSmb(c) ==
    LET found == IF Signature(c, 4) # 0 THEN Signature(c, 4) ELSE Signature(c, 0)
    IN  If(found = 1, EmitRecognition(c, "smb1_message"))

OnCodesys(c) == EmitRecognition(c, "codesys_traffic")

OnIoLink(c) == EmitRecognition(c, "iolink_traffic")

OnCclink(c) == EmitRecognition(c, "cclink_traffic")

=============================================================================
