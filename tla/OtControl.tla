------------------------------- MODULE OtControl -------------------------------
(*****************************************************************************)
(* The decoders of telecontrol and plant-level OT protocols that keep        *)
(* nothing between calls: IEC 104, DNP3, IEC 61850, S7comm and BACnet. Each  *)
(* is an operator from the frame, as far as it was captured, to the events   *)
(* pushed.                                                                   *)
(*****************************************************************************)
EXTENDS Decoding

-----------------------------------------------------------------------------
(***************************************************************************)
(* The IEC 60870-5-104 decoder: every APDU of a chunk up to the first that *)
(* is not all there is told with both stations and the link between them.  *)
(* It keeps nothing between calls, so the rest of a chunk that ends inside *)
(* an APDU is not kept either.                                             *)
(***************************************************************************)

Iec104Port == 2404

\* parse_iec104_frames: an APDU has a start byte and at least its control field.
Apdus(c) ==
    LET Size(a) == a.size
        there == Within(c.apdus, Size, Size, c.len)
        bad == {n \in DOMAIN there : ~there[n].start \/ there[n].size < 6}
    IN  SubSeq(there, 1, IF bad = {} THEN Len(there) ELSE Min(bad) - 1)

NamedTypes == {1, 3, 9, 11, 13, 30, 45, 46, 50, 100, 103}

Activations == {7, 19, 67}

Confirmations == {11, 35, 131}

HasAsdu(a) == a.kind = "i" /\ a.size >= 12

HasObject(a) == a.kind = "i" /\ a.size >= 15

OperationName(a) ==
    CASE a.kind = "u" -> <<"u", IF a.code \in Activations \cup Confirmations THEN a.code ELSE Unknown>>
      [] a.kind = "s" -> <<"s", 0>>
      [] OTHER -> <<"i", IF ~HasAsdu(a) THEN 0 ELSE IF a.code \in NamedTypes THEN a.code ELSE Unknown>>

Iec104Status(c, a) ==
    CASE a.kind = "u" -> IF a.code \in Activations THEN "request"
                         ELSE IF a.code \in Confirmations THEN "response" ELSE "observed"
      [] a.kind = "s" -> "response"
      [] OTHER -> IF a.cause = 6 /\ c.dport = Iec104Port THEN "request"
                  ELSE IF a.cause \in {7, 10} /\ c.sport = Iec104Port THEN "response"
                  ELSE IF c.dport = Iec104Port THEN "request"
                  ELSE IF c.sport = Iec104Port THEN "response" ELSE "observed"

Iec104ObjectRefs(a) == If(HasAsdu(a), <<ToString(a.code), a.address>>) \o If(HasObject(a), <<a.object>>)

Iec104RoleObservations(c) == Asset(c, c.src) \o Asset(c, c.dst) \o Topology(c, "iec104_link", c.src, c.dst)

EmitApdu(c, a) ==
    Told(c, OperationName(a), Iec104Status(c, a), Iec104ObjectRefs(a))
    \o Iec104RoleObservations(c)
    \o If(a.kind = "i" /\ a.size > 6, Artifact(c, "iec104_asdu"))

Iec104OnStreamChunk(c) ==
    LET Emit(a) == EmitApdu(c, a)
    IN  IF Apdus(c) = <<>> THEN Anomaly(c, "medium") ELSE ForEach(Apdus(c), Emit)

-----------------------------------------------------------------------------
(***************************************************************************)
(* The DNP3 decoder and, on the same port, the one for its secure          *)
(* authentication objects. Both read the first link frame of a chunk and   *)
(* keep nothing between calls. "function" is the byte after the            *)
(* application control, whatever the transport header says of the          *)
(* fragment.                                                               *)
(***************************************************************************)

Dnp3Port == 20000

DllHeaderSize == 10

AppOffset == DllHeaderSize + 1

Dnp3Functions == {1, 2, 3, 4, 5, 6, 129, 130}

\* Dnp3Dissector::parse: a function that is missing is told as function 0.
FunctionCode(c) == IF c.len < AppOffset + 2 THEN 0 ELSE c.function

\* The internal indications stand before the data of a response.
DataStart(c) == AppOffset + (IF FunctionCode(c) \in {129, 130} THEN 4 ELSE 2)

IsArtifact(code) == code \in 2..6

Dnp3RoleObservations(c) ==
    Asset(c, c.src) \o Asset(c, c.dst)
    \o Topology(c, IF FunctionCode(c) >= 128 \/ c.sport = Dnp3Port THEN "dnp3_response" ELSE "dnp3_request",
                c.source, c.destination)

Dnp3OnStreamChunk(c) ==
    LET code == FunctionCode(c)
    IN  IF c.len < DllHeaderSize \/ ~c.start
        THEN Anomaly(c, "medium")
        ELSE Told(c, IF code \in Dnp3Functions THEN code ELSE Unknown,
                  IF code >= 128 THEN "response" ELSE "request", <<ToString(code)>>)
             \o Dnp3RoleObservations(c)
             \o If(IsArtifact(code) /\ c.len > DataStart(c), Artifact(c, "dnp3_application_data"))

(***************************************************************************)
(* Secure authentication: the decoder does not parse the objects, it looks *)
(* for the group's byte, followed by a variation, anywhere behind the link *)
(* header.  "marks" are the places where the two stand.                    *)
(***************************************************************************)
AuthenticationError == 7

FindG120Variations(c) ==
    LET found == SelectSeq(c.marks, LAMBDA m : DllHeaderSize + m.at + 2 <= c.len /\ m.variation \in 1..15)
    IN  [n \in DOMAIN found |-> found[n].variation]

OnSecureChunk(c) ==
    LET seen == FindG120Variations(c)
    IN  IF c.len < DllHeaderSize \/ ~c.start THEN <<>>
        ELSE IF c.link_length < 5 THEN Anomaly(c, "low")
        ELSE IF seen = <<>> THEN <<>>
        ELSE Told(c, seen[1], "observed", <<ToString(seen[1])>>)
             \o Asset(c, c.src)
             \o If(AuthenticationError \in ToSet(seen), Anomaly(c, "high"))

-----------------------------------------------------------------------------
(***************************************************************************)
(* The IEC 61850 decoder: MMS over ISO transport on TCP, GOOSE and sampled *)
(* values on Ethernet. It reads no encoded value: the names are the runs   *)
(* of visible characters in the payload, and a device is told when one of  *)
(* them looks like a reference or a device name.                           *)
(* "strings" are those runs: where each starts in the payload, its length, *)
(* where its first separator stands, and whether it is otherwise made of   *)
(* letters and digits.                                                     *)
(***************************************************************************)

TpktHeaderSize == 4

GooseHeaderSize == 8

MmsVisibleStringMin == 3

ConnectionPdus == {224, 208}

LooksLikeMmsTag(tag) == tag \in {96, 97} \cup (160..168)

\* extract_visible_strings, on a payload of "room" bytes: the last run may be cut short.
VisibleStrings(c, room) ==
    LET Shown(x) == Min({x.size, room - x.at})
        seen == SelectSeq(c.strings, LAMBDA x : Shown(x) >= MmsVisibleStringMin)
    IN  [n \in DOMAIN seen |-> [name |-> IF Shown(seen[n]) = seen[n].size THEN seen[n].name ELSE "cut",
                                size |-> Shown(seen[n]),
                                separated |-> seen[n].separator \in 0..(Shown(seen[n]) - 1),
                                plain |-> seen[n].plain]]

LooksLikeObjectReference(x) == x.separated /\ x.size >= 4

LooksLikeIedName(x) == x.plain /\ ~x.separated /\ x.size <= 32

ObjectReferences(strings) ==
    FoldLeft(LAMBDA refs, x : IF LooksLikeObjectReference(x) /\ x.name \notin ToSet(refs)
                              THEN Append(refs, x.name) ELSE refs, <<>>, strings)

\* derive_identity: a reference gives a logical device, any other plain word a device name.
HasIdentity(strings) ==
    \E n \in DOMAIN strings : LooksLikeObjectReference(strings[n]) \/ LooksLikeIedName(strings[n])

EmitFields(c, operation, status, room) ==
    LET strings == VisibleStrings(c, room)
    IN  Told(c, operation, status, ObjectReferences(strings))
        \o If(HasIdentity(strings), Asset(c, ContextAssetKey(c)))
        \o Topology(c, "iec61850_transaction", ContextAssetKey(c), ContextRemoteAssetKey(c))
        \o If(room > 0, Artifact(c, "iec61850_payload"))

(***************************************************************************)
(* MMS: the first packet of a chunk, and only when all of it is there.     *)
(***************************************************************************)
CotpEnd(c) == TpktHeaderSize + 1 + c.cotp_length

HasCotpLayout(c) ==
    /\ c.len > TpktHeaderSize
    /\ c.version = 3
    /\ c.tpkt_length \in TpktHeaderSize..c.len
    /\ c.cotp_length > 0
    /\ CotpEnd(c) <= c.tpkt_length

Iec61850PayloadLen(c) == c.tpkt_length - CotpEnd(c)

LooksLikeMms(c) ==
    /\ HasCotpLayout(c)
    /\ c.pdu \in ConnectionPdus \/ (Iec61850PayloadLen(c) > 0 /\ LooksLikeMmsTag(c.tag))

MmsStatus(tag) ==
    CASE tag \in {96, 160, 162} -> "request"
      [] tag \in {97, 161, 163} -> "response"
      [] OTHER -> "observed"

Iec61850OnStreamChunk(c) ==
    CASE ~LooksLikeMms(c) -> <<>>
      [] LooksLikeMms(c) /\ c.pdu \in ConnectionPdus -> EmitFields(c, 0, "observed", 0)
      [] OTHER -> EmitFields(c, c.tag, MmsStatus(c.tag), Iec61850PayloadLen(c))

(***************************************************************************)
(* GOOSE and sampled values: what was captured of the length the header    *)
(* gives, so that neither padding nor a cut frame is an error.             *)
(***************************************************************************)
Iec61850OnDatagram(c) ==
    LET end == Min({c.length, c.len})
    IN  IF c.len < GooseHeaderSize THEN <<>>
        ELSE IF end < GooseHeaderSize THEN Anomaly(c, "medium")
        ELSE EmitFields(c, c.ethertype, "publish", end - GooseHeaderSize)

-----------------------------------------------------------------------------
(***************************************************************************)
(* The S7comm decoder: the first packet of a chunk, however much of it is  *)
(* there behind its header. It keeps nothing between calls.                *)
(***************************************************************************)

S7commPort == 102

S7HeaderMin == 10

S7HeaderAckdata == 12

Acks == {2, 3}

S7Offset(c) == 5 + c.cotp_length

CanParse(c) == c.len >= 7 /\ c.version = 3 /\ c.len > S7Offset(c) /\ c.protocol_id = 50

ParamOffset(c) == S7Offset(c) + (IF c.rosctr \in Acks THEN S7HeaderAckdata ELSE S7HeaderMin)

\* No parameter captured is told as function 0.
FunctionOf(c) == IF c.parameter_length > 0 /\ c.len > ParamOffset(c) THEN c.function ELSE 0

S7commFunctions == {0, 4, 5} \cup (26..31) \cup {40, 41, 240}

S7commStatus(c) ==
    CASE c.rosctr \in Acks -> "response"
      [] c.rosctr = 1 /\ c.dport = S7commPort -> "request"
      [] OTHER -> "observed"

S7commOnStreamChunk(c) ==
    LET code == FunctionOf(c)
    IN  IF ~CanParse(c) THEN <<>>
        ELSE IF c.len < S7Offset(c) + S7HeaderMin \/ c.len < ParamOffset(c) THEN Anomaly(c, "medium")
        ELSE Told(c, IF code \in S7commFunctions THEN code ELSE Unknown, S7commStatus(c),
                  <<ToString(code), ToString(c.rosctr)>>)
             \o If(c.data_length > 0 /\ c.len > ParamOffset(c) + c.parameter_length, Artifact(c, "s7comm_data"))

-----------------------------------------------------------------------------
(***************************************************************************)
(* The BACnet decoder: one transaction and one topology record per         *)
(* datagram, and the device that an I-Am announces.                        *)
(***************************************************************************)

BvlcHeader == 4

\* Mutant: the length in the link header is not used.
RoomOfPayload(c) == IF c.link = "bacnet_ip" THEN c.len - BvlcHeader ELSE c.len

\* The network layer's room: the length the link header gives, or the whole frame on Ethernet.
Room(c) == IF c.link = "bacnet_ip" THEN c.total_len - BvlcHeader ELSE c.len

LinkReadable(c) ==
    CASE c.link = "bacnet_ip" -> c.len >= BvlcHeader /\ c.total_len \in BvlcHeader..c.len
      [] c.link = "bacnet_l2" -> TRUE
      [] OTHER -> FALSE

\* Behind version and control: a destination with its hop count, and a source.  An address length
\* of -1 stands for a control byte that announces none.
ApduOffset(c) ==
    2 + (IF c.dlen >= 0 THEN 3 + c.dlen + 1 ELSE 0) + (IF c.slen >= 0 THEN 3 + c.slen ELSE 0)

NpduReadable(c) == Room(c) >= 2 /\ c.version = 1 /\ Room(c) > ApduOffset(c)

\* The least length of each kind of application message.
ApduMin(c) ==
    CASE c.apdu_type = 0 -> 4
      [] c.apdu_type = 1 -> 2
      [] c.apdu_type = 2 -> 3
      [] c.apdu_type = 3 -> IF c.segmented THEN 4 ELSE 3
      [] c.apdu_type \in 4..7 -> 2
      [] OTHER -> 1

ApduLen(c) == Room(c) - ApduOffset(c)

IsIAm(c) == ~c.network /\ c.apdu_type = 1 /\ c.service = 0

\* parse_i_am_payload: the device's identifier comes first.
HasDevice(c) == IsIAm(c) /\ ApduLen(c) - 2 >= 5 /\ c.object_id

BacnetStatus(c) ==
    CASE c.network -> "observed"
      [] ~c.network /\ c.apdu_type \in {0, 1} -> "request"
      [] ~c.network /\ c.apdu_type \in {2, 3} -> "response"
      [] ~c.network /\ c.apdu_type \in {5, 6, 7} -> "error"
      [] OTHER -> "observed"

\* The kinds that name a service, and those that carry an invocation's number.
OperationOf(c) ==
    IF c.network THEN <<Unknown, c.service>>
    ELSE <<c.apdu_type, IF c.apdu_type \in 0..3 THEN c.service ELSE 0>>

BacnetObjectRefs(c) ==
    If(HasDevice(c), <<c.device>>) \o If(~c.network /\ c.apdu_type \in {0} \cup (2..7), <<c.invoke>>)

BacnetPayloadLen(c) == IF c.network THEN ApduLen(c) - 1 ELSE ApduLen(c) - ApduMin(c)

BacnetOnDatagram(c) ==
    IF c.len = 0 \/ ~LinkReadable(c) \/ ~NpduReadable(c) \/ (~c.network /\ ApduLen(c) < ApduMin(c))
    THEN Anomaly(c, "medium")
    ELSE Told(c, OperationOf(c), BacnetStatus(c), BacnetObjectRefs(c))
         \o If(HasDevice(c), Asset(c, c.src))
         \o Topology(c, "bacnet_transaction", c.src, c.dst)
         \o If(BacnetPayloadLen(c) > 0, Artifact(c, "bacnet_apdu"))

=============================================================================
